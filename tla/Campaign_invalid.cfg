CONSTANTS
  NumFaults = 3
  Invalid = {2, 3}
  Emptied = {2}
  Unencodable = {3}
  num_workers = 1
  queuedepth = 1
  enable_ram_mgmt = FALSE
  HasStart = TRUE
  Signals = {}
  Modes = {"default"}
  MaxSessions = 1
  Lifespan <- Brief
  Mask <- Distinct
  NULL = NULL
SPECIFICATION Spec
CHECK_DEADLOCK FALSE
INVARIANTS
  InvalidFaultsRemoved
