CONSTANTS
  UnitElemAmt = 2
  IndexAmt = 1
  IndexInc = 2
  UIntMod = 32
  MaxUnits = 4
  PartElemMaxmnt = 2
  ElemInts = 1
  MaxParts = 4
  Data = {x1, x2}
  BLANK = BLANK
  MaxStackNodes = 4
  MaxStackSize = 3
  Letters = {1, 2}
  High = {3}
  Stray = {0, 2, 5}
  MaxSubstr = 4
  MaxText = 6
  MaxLimit = 3
  MaxArgc = 3
  MaxEnv = 2
  MaxChars = 2
SPECIFICATION Spec
INVARIANTS
  ArrayKept
  ElemSound
  StackApart
  NoneSkipped
  SplitCovers
  TitleKept
PROPERTIES
  ArrayVisits
  ListVisits
  StackRefined
