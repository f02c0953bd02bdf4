CONSTANTS
  NumFaults = 3
  Invalid = {}
  Emptied = {}
  Unencodable = {}
  num_workers = 2
  queuedepth = 1
  enable_ram_mgmt = TRUE
  HasStart = TRUE
  Signals = {"controller", "SIGINT"}
  Modes = {"default"}
  MaxSessions = 1
  Lifespan <- Brief
  Mask <- Distinct
  NULL = NULL
SPECIFICATION Spec
CHECK_DEADLOCK FALSE
INVARIANTS
  TypeOK
  NoResultLost
  QueueBounded
PROPERTIES
  CampaignEnds
