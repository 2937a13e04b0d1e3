SPECIFICATION Spec
CONSTANTS
  Handle <- MCHandle
  Name <- MCName
  NameOf <- MCNameOf
  HashOf <- MCHashOf
  Checked <- MCChecked
  InitSize = 2
  NULL = NULL
INVARIANTS
  TypeOK
  LookupSound
  CheckedUnique
  LinkedOnce
  LoadBounded
PROPERTIES
  ImplementsDict
  AddCompletes
CHECK_DEADLOCK FALSE
