CONSTANTS
  c1 = c1  c2 = c2  l1 = l1  l2 = l2  l3 = l3  l4 = l4  h1 = h1
  Cpus <- TwoCpus
  Channels = {"low"}
  DescNum = 4
  Frames <- Low3
  LowFrames <- Low3
  StatusFrames <- Status1
  NoFrame = NoFrame
  SerialTx = FALSE
  LoseAck = TRUE
  PowerSave = TRUE
SYMMETRY Alike
SPECIFICATION Spec
INVARIANTS PairsKept ReapsOnlySent InFlightKept OwnSlotKept StopHasReason
PROPERTIES FreedOnce
CHECK_DEADLOCK FALSE
