SPECIFICATION Spec
CONSTANTS
  BUFFERS = 1
  MaxLinks = 2
  RPC_MAX = 2
  Writes = {"head", "tail"}
  MaxConns = 3
  MaxWrites = 3
  MaxTimeouts = 0
  MaxEvents = 2
CHECK_DEADLOCK FALSE
INVARIANT
  ConnSentIsOfConnection
