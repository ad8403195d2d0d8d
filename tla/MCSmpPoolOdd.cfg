CONSTANTS
  PSize = 4098
  PageSize = 4096
  SizeMod = 1000000
  Sizes = {15, 4042}
  MaxBlocks = 2
  BigIds = {}
  NULL = NULL
SPECIFICATION Spec
INVARIANTS
  RegionsInBlock
