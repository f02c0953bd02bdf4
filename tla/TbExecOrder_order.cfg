CONSTANTS
  Base <- TwoBlocks
  InsnCounts <- SingleOrMany
  TB_EXEC_RB_SIZE = 3
  MaxExec = 8
  NULL = NULL
SPECIFICATION Spec
INVARIANTS
  TypeOK
  NumExecCounts
PROPERTIES
  OrderReported
