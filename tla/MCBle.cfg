SPECIFICATION MCSpec
CONSTANTS
  BUFFERS = 1
  MaxLinks = 2
  RPC_MAX = 2
  Writes = {"head", "tail", "error"}
  MaxConns = 2
  MaxWrites = 3
  MaxTimeouts = 1
  MaxEvents = 1
  AclLens = {27, 70, 255}
  NameLens = {8, 22, 63}
  ResultLens = {0, 44}
  ClientMtus = {20, 65, 247}
  PacketLens = {18, 128, 129}
  PREP_SIZE = 128
  MaxClients = 2
  MAX_CLIENTS = 2
  BUF_SIZE = 6
  SEND_SIZE = 1200
  MAX_MSG = 50
  ADV_BATCH = 4
  ADV_MAX = 31
  MAX_REPORTS = 3
  Streams <- MCStreams
  Events <- MCEvents
  MaxPeers = 2
  MaxEvts = 2
  MaxFails = 1
INVARIANTS CreditsConserved OneClient AirIsQuiet UnprovenNetworkGoes
INVARIANTS ProceduresAreExact SessionsAreExact BatchesFit
CHECK_DEADLOCK FALSE
