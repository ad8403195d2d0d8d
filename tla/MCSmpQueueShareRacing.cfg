CONSTANTS
  Threads = {t1, t2, t3}
  Serialised = FALSE
  NodeCount = 2
  UIntMod = 8
  NONE = NONE
SPECIFICATION Spec
INVARIANTS
  FreedByLast
