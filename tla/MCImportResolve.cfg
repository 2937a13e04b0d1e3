CONSTANTS
  main = main
  a = a
  b = b
  c = c
  NULL = NULL
  Module <- MCModule
  Symbol <- MCSymbol
  Main = main
  Programs <- AcyclicPrograms
  MaxDepth = 4
SPECIFICATION Spec
INVARIANT ImportsResolve
