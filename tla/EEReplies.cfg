SPECIFICATION FairSpec
CONSTANTS
  N = 2
  QSize = 1
  MaxMoves = 2
  MaxSurplus = 0
CHECK_DEADLOCK FALSE
PROPERTIES
  KeepsTrying
