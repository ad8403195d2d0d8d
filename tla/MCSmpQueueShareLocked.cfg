CONSTANTS
  Threads = {t1, t2, t3}
  Serialised = TRUE
  NodeCount = 2
  UIntMod = 8
  NONE = NONE
SPECIFICATION Spec
INVARIANTS
  QuotesIsAmount
  FreedByLast
  NoneLeft
PROPERTIES
  DestoryEnds
