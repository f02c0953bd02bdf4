CONSTANTS
  ByteBits = 2
  IntBytes = 2
  RegBytes = 4
  MaskBytes = 5
  FaultNumber = 2
  Experiments <- AllExperiments
  MemSize = 8
  PageSize = 4
  FlatView <- TwoRams
  Regs = {0}
  MemAccesses <- AllAccesses
  BeforeStart <- StartAccesses
  StoreBytes <- OneOrBoth
  RegValues <- RegisterValues
  MaxGuestSteps = 2
  NULL = NULL
SPECIFICATION Spec
INVARIANTS
  TypeOK
  BitsUntouched
  MemoryIsFaulted
  RegistersAreFaulted
  DumpsTellFault
  ReportComplete
