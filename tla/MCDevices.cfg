SPECIFICATION Spec
CONSTANTS
  NCMDS = 8
  FIFO = 3
  MaxXfers = 2
  Again <- MCAgain
  Transfers <- MCTransfers
  TX_FIFO_SIZE = 2
  RxFifoSize = 2
  UartClk = 40000000
  Bauds = {115200}
  MaxBytes = 2
  MaxConsole = 1
  MaxRx = 2
  Clients = {c1, c2}
  None = None
  MaxFrames = 1
  MaxData = 2
  MaxSessions = 2
  Pins = {13, 18}
  Sigs = {68}
  Cells <- MCCells
  Configs <- MCConfigs
  IrqTypes = {"rising", "both", "high"}
  Commands <- MCCommands
  Held = {18}
  Reserved <- MCReserved
  MaxCalls = 3
  MaxEdges = 2
INVARIANTS BusCarriesMessages BytesInOrder RelayNeverBlocks OneClientPerSession
INVARIANTS ChangesKept EdgesReachConsumer SetIsShown
PROPERTIES NoUseAfterReturn PadsStartRight
CHECK_DEADLOCK FALSE
