CONSTANTS
  c1 = c1  c2 = c2  l1 = l1  l2 = l2  l3 = l3  l4 = l4  h1 = h1
  Cpus <- OneCpu
  Channels = {"low", "high"}
  DescNum = 4
  Frames <- Low3High1
  LowFrames <- Low3
  StatusFrames <- StatusBoth
  NoFrame = NoFrame
  SerialTx = TRUE
  LoseAck = FALSE
  PowerSave = FALSE
SPECIFICATION LiveSpec
INVARIANTS TypeOK
PROPERTIES QueuesWoken FramesSettled ImplementsFifo
CHECK_DEADLOCK FALSE
