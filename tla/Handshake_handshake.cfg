CONSTANTS
  Packs <- OneAndTwo
  FaultValues <- Values
  Limits = {5, 20}
  IntMax = 7
  PipeCapacity = 2
  ControlSize = 2
  ReportSizes = {1, 4}
  Failures = {"early", "late"}
  Signals = {"controller", "group"}
SPECIFICATION Spec
INVARIANTS
  TypeOK
  WaitsOnlyKnown
  QemuEndsFirst
  ConfigTaken
  EmptyOnlyIfStopped
PROPERTIES
  ImplementsExperiment
  ExperimentEnds
CHECK_DEADLOCK FALSE
