SPECIFICATION Spec
CONSTANTS
  Name <- MCName
  Sublanguages <- MCFewPrograms
  NULL = NULL
  WILD = WILD
INVARIANTS
  NullOnError
