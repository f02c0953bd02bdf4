CONSTANTS
  FaultNumber = 1
  MaxAddr = 3
  Branches = {1, 3}
  Packs <- OneFaultPacks
  StartPoint <- StartAtTwo
  EndPoints <- TwoEnds
  tb_counter_max = 6
  NULL = NULL
SPECIFICATION Spec
INVARIANTS
  FaultsOnTime
PROPERTIES
  StartedTerminates
