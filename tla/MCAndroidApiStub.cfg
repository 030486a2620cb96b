SPECIFICATION Spec
CHECK_DEADLOCK FALSE
CONSTANTS
  c1 = c1
  c2 = c2
  Callers <- MCCallers
  MaxCalls = 2
  MaxLinks = 2
SYMMETRY Symm
INVARIANTS CompletedOnce
PROPERTY TimeoutIsReal
