CONSTANTS
  IntMax = 7
  Blocks <- ThreeBlocks
  MemAccesses <- EightAccesses
  MaxAccesses = 6
  NULL = NULL
SPECIFICATION Spec
INVARIANTS
  TypeOK
  TreesSound
  OneRecordPerBlock
  NoAccessLost
  CountsExact
  AccessesPlaced
