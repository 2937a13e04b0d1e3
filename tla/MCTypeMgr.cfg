SPECIFICATION Spec
CONSTANTS
  HashReq <- MCHashReq
  HashType <- MCHashType
  EnumName = {"E"}
  InitSize = 1
  MaxTypes = 9
  ReqArgs = {2, 5}
  MaxInputs = 1
  NULL = NULL
INVARIANTS
  TypesUnique
  EveryTypeFound
  CountExact
PROPERTIES
  ImplementsIntern
CHECK_DEADLOCK FALSE
