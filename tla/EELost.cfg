SPECIFICATION ReliableSpec
CONSTANTS
  N = 1
  QSize = 1
  MaxMoves = 1
  MaxSurplus = 0
CHECK_DEADLOCK FALSE
PROPERTIES
  EvictionReturns
