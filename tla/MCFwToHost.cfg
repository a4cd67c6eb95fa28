SPECIFICATION FwFairSpec
CONSTANTS
  Size = 16
  Mod = 32
  MinLen = 1
  FrameMax = 12
  Ids = 3
  Lens = {3, 8}
  MaxRemoves = 1
INVARIANTS
  WriterIsWoken
PROPERTIES
  ChannelSpec
  WriteReturns
  RingDrains
