SPECIFICATION Spec
CONSTANTS
  EnumTypes = {"E", "F"}
  OtherTypes = {"array"}
  MaxStack = 3
  NULL = NULL
INVARIANTS
  CastsPossible
  SwapSafe
CHECK_DEADLOCK FALSE
