SPECIFICATION Spec
CONSTANTS
  NULL = NULL
  Names = {"a", "b"}
  Var = "v"
  EnumTypes = {}
  OtherTypes = {}
  Sublanguages <- MCPrograms
  IntWidth = 3
INVARIANTS FoldedExactly EnumValuesDistinct
CHECK_DEADLOCK FALSE
