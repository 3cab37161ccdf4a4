CONSTANTS
  MaxConns = 2
  BssNum = 2
  StaNum = 4
  MaxFaults = 1
  MaxAsked = 2
  MaxMc = 1
SPECIFICATION Spec
INVARIANTS TypeOK NothingLeft PeerAsConfigured SleepIsKnown DeletesThePeer
CHECK_DEADLOCK FALSE
