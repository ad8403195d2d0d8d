CONSTANTS
  Nodes = {n1, n2, n3, n4, n5, n6, n7, n8, n9}
  Keys = {1, 2}
  QnodeFails = FALSE
  NIL = NIL
  NULL = NULL
VIEW ShapeView
SPECIFICATION Spec
INVARIANTS
  Ordered
  Accounted
  BlackBalanced
  RedsApart
  FindsAll
  DestoryFreesAll
PROPERTIES
  OrderKept
  FixupsClimb
