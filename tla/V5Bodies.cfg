CONSTANTS
  Name = {"p", "n", "i", "a"}
  Pointers = {"p"}
  Tokens <- BodyTokens
  MaxTokens = 8
  SavedBlocks = 256
  Backend = "native"
  Starts = {1}
  Counts = {0, 2}
SPECIFICATION RunSpec
CONSTRAINT OneKind
CHECK_DEADLOCK FALSE
INVARIANTS
  ReturnsOnEveryPath
  ScopesAgree
  RangeVariableAdvances
  UseAfterDelNeedsLoop
PROPERTY
  LoopRunsCount
