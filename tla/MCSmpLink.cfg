CONSTANTS
  Nodes = {n1, n2, n3, n4, n5}
  Data = {x1, x2}
  Dirty = FALSE
  WILD = WILD
  NIL = NIL
SYMMETRY NodeDataSymmetry
SPECIFICATION Spec
INVARIANTS
  Linked
  SparesApart
  UsesPeak
PROPERTIES
  VisitsAll
  DequeRefined
  CallsTakeTheirs
