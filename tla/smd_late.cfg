CONSTANTS
  mac = mac  dfs = dfs
  Callers <- TwoCallers
  NoCaller = NoCaller
  MaxSends = 3
  MaxFrags = 2
  FwDrops = TRUE
  TxFails = TRUE
  MaxInds = 0
  NoIndMem = TRUE
  NoReadMem = FALSE
SPECIFICATION Spec
INVARIANT BufferProtected
CHECK_DEADLOCK FALSE
