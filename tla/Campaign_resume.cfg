CONSTANTS
  NumFaults = 3
  Invalid = {}
  Emptied = {}
  Unencodable = {}
  num_workers = 2
  queuedepth = 1
  enable_ram_mgmt = FALSE
  HasStart = TRUE
  Signals = {"controller", "SIGINT"}
  Modes = {"default", "missing", "append", "overwrite", "golden"}
  MaxSessions = 3
  Lifespan <- Brief
  Mask <- Distinct
  NULL = NULL
SPECIFICATION Spec
CHECK_DEADLOCK FALSE
INVARIANTS
  CompleteRecords
  StopLeavesFileSound
PROPERTIES
  ResultsOnce
