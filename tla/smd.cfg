CONSTANTS
  mac = mac  dfs = dfs
  Callers <- TwoCallers
  NoCaller = NoCaller
  MaxSends = 2
  MaxFrags = 2
  FwDrops = TRUE
  TxFails = TRUE
  MaxInds = 2
  NoIndMem = TRUE
  NoReadMem = FALSE
SPECIFICATION LiveSpec
INVARIANTS TypeOK OwnResponse MutexOfCommand NeverEmpty InOrder
PROPERTIES CommandsReturn ChannelDrained
CHECK_DEADLOCK FALSE
