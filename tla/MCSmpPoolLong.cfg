CONSTANTS
  PSize = 88
  PageSize = 4096
  SizeMod = 65536
  Sizes = {32, 40}
  MaxBlocks = 9
  BigIds = {g1, g2, g3, g4, g5}
  NULL = NULL
SYMMETRY BigSymmetry
SPECIFICATION Spec
INVARIANTS
  RetiredUsedOut
  NoFault
  NothingLeft
