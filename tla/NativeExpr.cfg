CONSTANTS
  Locals <- MCLocals
  Cached <- MCCached
  Globals <- MCGlobals
  Pointer = "p"
  Statements <- MCStatements
  Starts <- MCStarts
  Cells <- MCCells
  MaxTemp = 4
SPECIFICATION Spec
CHECK_DEADLOCK FALSE
INVARIANT
  ResultIsMeant
PROPERTY
  TempsApart
