CONSTANTS
  Nodes = {n1, n2, n3, n4, n5}
  Keys = {1, 2}
  QnodeFails = TRUE
  NIL = NIL
  NULL = NULL
VIEW ShapeView
SPECIFICATION Spec
INVARIANTS
  DestoryFreesAll
