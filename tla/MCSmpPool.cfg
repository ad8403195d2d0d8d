CONSTANTS
  PSize = 96
  PageSize = 32
  SizeMod = 65536
  Sizes = {0, 20, 40}
  MaxBlocks = 3
  BigIds = {g1, g2, g3, g4, g5, g6}
  NULL = NULL
SYMMETRY BigSymmetry
SPECIFICATION Spec
INVARIANTS
  TypeOK
  RegionsInBlock
  RegionsDisjoint
  BigsRecorded
PROPERTIES
  ArenaRefined
