SPECIFICATION Spec
CONSTANTS
  N = 3
  QSize = 1
  MaxMoves = 3
  MaxSurplus = 1
CHECK_DEADLOCK FALSE
INVARIANTS
  TypeOK
  FreedOnce
  RoundComplete
PROPERTIES
  RefinesEviction
