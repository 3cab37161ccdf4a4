CONSTANTS
  mac = mac  dfs = dfs
  Callers <- TwoCallers
  NoCaller = NoCaller
  MaxSends = 0
  MaxFrags = 2
  FwDrops = FALSE
  TxFails = TRUE
  MaxInds = 2
  NoIndMem = FALSE
  NoReadMem = FALSE
SPECIFICATION LiveSpec
PROPERTY QueueDrained
CHECK_DEADLOCK FALSE
