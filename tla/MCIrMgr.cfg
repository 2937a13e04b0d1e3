SPECIFICATION Spec
CONSTANTS
  Name <- MCName
  Sublanguages <- MCPrograms
  NULL = NULL
  WILD = WILD
INVARIANTS
  NamesUnique
  JumpsLand
  JumpsInnermost
  LocalsOwned
  SlotsExact
  FuncIndexExact
