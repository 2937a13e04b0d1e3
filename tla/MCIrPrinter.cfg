SPECIFICATION Spec
CONSTANTS
  MaxNodes = 4
  MaxStmts = 4
  NULL = NULL
  Blocks = {1, 2}
INVARIANTS ListingExact
CHECK_DEADLOCK FALSE
