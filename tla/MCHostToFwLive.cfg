SPECIFICATION FairSpec
CONSTANTS
  Size = 16
  Mod = 32
  MinLen = 1
  FrameMax = 12
  Ids = 2
  Lens = {12}
  TX_PAUSE = 1
  TX_RESUME = 0
  QUEUE_MAX = 1
  MaxReplays = 1
  MayPowerOff = TRUE
PROPERTIES
  FramesLeave
  QueuesResume
  RequestsServed
