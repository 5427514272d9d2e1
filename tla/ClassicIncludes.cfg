CONSTANTS
  Path <- TreePath
  NoPath <- Nowhere
  Name <- TreeName
  Text <- TreeText
  Main <- main
  RealPath <- TreeRealPath
  Resolve <- TreeResolve
  Bodies <- TreeBodies
  Strict <- MCStrict
  MaxDepth = 2
SPECIFICATION FairSpec
INVARIANTS
  OncePerFile
  DepthErrorIsNoCycle
PROPERTIES
  ImplementsIncludeOnce
  Terminates
CHECK_DEADLOCK FALSE
