SPECIFICATION Spec
CONSTANTS
  NULL = NULL
  Garbage = Garbage
  x = x
  y = y
  NameE = NameE
  i1 = i1
  s1 = s1
  Trees <- MCTrees
  Broken <- MCBroken
  Texts <- MCTexts
INVARIANTS TypeOK PrintedReadsBack WordsKept FactorsBindTighter ErrorStaysLocal
PROPERTIES ParseEnds
