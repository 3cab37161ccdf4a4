CONSTANTS
  DescNum = 3
  MaxPkts = 5
  NoMem = TRUE
SPECIFICATION LiveSpec
INVARIANTS TypeOK NoWriteAfterDelivery PacketsInOrder
PROPERTIES PacketsDelivered
CHECK_DEADLOCK FALSE
