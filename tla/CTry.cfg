CONSTANTS
  mem = mem
  ip = ip
  Any = any
  NoTry = NoTry
  NoCode = NoCode
  Codes <- MCCodes
  Clauses <- MCClauses
  MaxTries = 3
  MaxOpen = 5
SPECIFICATION Spec
CHECK_DEADLOCK FALSE
INVARIANTS
  HandlersLive
  FirstMatchingClause
  ExceptionKept
PROPERTY
  FinallyBeforeLeaving
