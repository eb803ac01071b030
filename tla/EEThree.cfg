SPECIFICATION Spec
CONSTANTS
  N = 3
  QSize = 1
  MaxMoves = 3
  MaxSurplus = 0
CHECK_DEADLOCK FALSE
INVARIANTS
  AlwaysComplete
