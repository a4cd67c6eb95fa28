SPECIFICATION Spec
CONSTANTS
  Size = 16
  Mod = 32
  MinLen = 1
  FrameMax = 12
  Ids = 3
  Lens = {3, 8}
  TX_PAUSE = 2
  TX_RESUME = 0
  QUEUE_MAX = 2
  MaxReplays = 1
  MayPowerOff = TRUE
INVARIANTS
  SpaceBound
  NoMissedDoorbell
PROPERTIES
  ChannelSpec
