CONSTANTS
  FragSize = 3
  OffsetRange = 16
  NvHeader = 1
  NvSizes = {1, 4, 5, 19}
  MaxProbes = 2
  MaxStarts = 2
  MaxFaults = 2
SPECIFICATION LiveSpec
INVARIANTS TypeOK NvComplete FreedOnce NothingHeld UsedWhileHeld
PROPERTIES StartReturns
CHECK_DEADLOCK FALSE
