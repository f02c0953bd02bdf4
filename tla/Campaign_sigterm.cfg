CONSTANTS
  NumFaults = 2
  Invalid = {}
  Emptied = {}
  Unencodable = {}
  num_workers = 1
  queuedepth = 2
  enable_ram_mgmt = FALSE
  HasStart = TRUE
  Signals = {"SIGTERM"}
  Modes = {"default"}
  MaxSessions = 1
  Lifespan <- Brief
  Mask <- Distinct
  NULL = NULL
SPECIFICATION Spec
CHECK_DEADLOCK FALSE
INVARIANTS
  LoggerIgnoresSignals
