SPECIFICATION Spec
CONSTANTS
  IntWidth = 7
  LocalStackSize = 4
  GlobalHeapSize = 1
  Tables <- MCTables
  Bodies <- MCBodies
INVARIANTS OperandsTyped ResultExact FaultsExplained
PROPERTIES CallersKept ExecutionEnds
