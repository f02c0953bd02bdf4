SPECIFICATION Spec
CHECK_DEADLOCK FALSE
CONSTANTS
  Insns <- FiveInsns
  InsnSize <- FiveSizes
  Branches <- TwoBranches
  Targets <- FourTargets
  Handler = 8
  FaultSpecs <- SevenFaults
  WildcardSpecs <- EightWildcards
  MaxBlocks = 5
  MaxEntries = 5
  NULL = NULL
INVARIANTS
  TypeOK
  TriggersExact
  WildcardsExact
  FilterSound
