CONSTANTS
  Path <- TreePath
  NoPath <- Nowhere
  Name <- TreeName
  Text <- TreeText
  Main <- main
  RealPath <- TreeRealPath
  Resolve <- TreeResolve
  Bodies <- TreeBodies
  Strict <- MCStrict
SPECIFICATION FairSpec
INVARIANTS
  EmitsWhatWasScanned
PROPERTIES
  ImplementsIncludeOnce
  Terminates
CHECK_DEADLOCK FALSE
