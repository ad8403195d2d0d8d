CONSTANTS
  UnitElemAmt = 10
  IndexAmt = 32
  IndexInc = 4
  UIntMod = 1024
  MaxUnits = 3
SPECIFICATION ArraySpec
INVARIANT ElemFound
