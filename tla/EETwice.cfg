SPECIFICATION Spec
CONSTANTS
  N = 2
  QSize = 1
  MaxMoves = 2
  MaxSurplus = 1
CHECK_DEADLOCK FALSE
INVARIANTS
  FreeAssertHolds
