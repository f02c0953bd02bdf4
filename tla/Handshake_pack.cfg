CONSTANTS
  Packs <- OneAndTwo
  FaultValues <- Values
  Limits = {5}
  IntMax = 7
  PipeCapacity = 2
  ControlSize = 2
  ReportSizes = {1, 4}
  Failures = {}
  Signals = {}
SPECIFICATION Spec
INVARIANTS
  PackRead
CHECK_DEADLOCK FALSE
