CONSTANTS
  Half = 128
  MaxDivisor = 64
SPECIFICATION Spec
CHECK_DEADLOCK FALSE
INVARIANTS
  Exact
  NeverFails
