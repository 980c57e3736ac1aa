CONSTANTS
  Wins = {w1, w2, w3, w4}
  NULL = NULL
SPECIFICATION Spec
INVARIANTS
  PointersLive
  NothingElseLost
SYMMETRY Symmetry
CHECK_DEADLOCK FALSE
