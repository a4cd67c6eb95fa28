SPECIFICATION FairSpec
CONSTANTS
  Tasks <- TwoTasks
  W = 12
  FW_BASE = 4
  FW_SIZE = 2
  LINE = 2
  EXTRAM_BASE = 2
  EXTRAM_SIZE = 4
  Ranges <- AllRanges
  MaxSyncs = 1
  MaxFwSyncs = 2
INVARIANTS
  EngineExclusive
  EngineRunsRequest
  SyncIsComplete
  InvalidateSparesOpenSBI
PROPERTIES
  SyncsEnd
