CONSTANTS
  Name = {"a"}
  Pointers = {}
  Tokens <- HoistTokens
  MaxTokens = 6
  SavedBlocks = 256
  Backend = "native"
  Starts = {}
  Counts = {0}
SPECIFICATION RunSpec
CHECK_DEADLOCK FALSE
PROPERTY
  WhileTestsAgain
