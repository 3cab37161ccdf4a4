CONSTANTS
  Tids = {0, 1}
  StartThresh = 1
  MaxFaults = 1
SPECIFICATION LiveSpec
INVARIANTS TypeOK StateHasSession FirmwareFollows
PROPERTIES StartEnds
CHECK_DEADLOCK FALSE
