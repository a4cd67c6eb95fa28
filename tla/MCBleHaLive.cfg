SPECIFICATION FairSpec
CONSTANTS
  BUFFERS = 1
  MaxLinks = 2
  RPC_MAX = 2
  Writes = {"head", "tail", "long", "identify", "info"}
  MaxConns = 2
  MaxWrites = 2
  MaxTimeouts = 0
  MaxEvents = 1
CHECK_DEADLOCK FALSE
PROPERTIES
  DeadlinesMet
  Discoverable
