CONSTANTS
  Nodes = {n1, n2, n3, n4, n5}
  NIL = NIL
SYMMETRY NodeSymmetry
SPECIFICATION Spec
INVARIANTS
  Linked
  NodesAccounted
  TraversalInOrder
PROPERTIES
  VisitsAll
  FifoRefined
