CONSTANTS
  Wins = {w1, w2, w3, w4}
  NULL = NULL
SPECIFICATION Spec
INVARIANTS
  CloseInvalidates
CHECK_DEADLOCK FALSE
