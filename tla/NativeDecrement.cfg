CONSTANTS
  Locals <- MCLocals
  Cached <- MCCached
  Globals <- MCGlobals
  Pointer = "p"
  Statements <- Decrements
  Starts <- MCStarts
  Cells <- MCCells
  MaxTemp = 4
SPECIFICATION Spec
CHECK_DEADLOCK FALSE
INVARIANT
  ResultIsMeant
