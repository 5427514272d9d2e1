CONSTANTS
  Name = {"p", "n", "i", "a"}
  Pointers = {"p"}
  Tokens <- NameTokens
  MaxTokens = 5
  SavedBlocks = 256
  Backend = "native"
  Starts = {1}
  Counts = {0, 2}
SPECIFICATION RunSpec
CHECK_DEADLOCK FALSE
INVARIANT
  SecondDelRefused
