CONSTANTS
  Name = {"p", "n", "i", "a"}
  Pointers = {"p"}
  Tokens <- NameTokens
  MaxTokens = 6
  SavedBlocks = 256
  Backend = "C"
  Starts = {1}
  Counts = {0, 2}
SPECIFICATION RunSpec
CHECK_DEADLOCK FALSE
PROPERTY
  LoopRunsCount
