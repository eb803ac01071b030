SPECIFICATION TableSpec
CONSTANTS
  MaxNbEles = 4
  MaxChunks = 3
CHECK_DEADLOCK FALSE
INVARIANTS
  PoolNeverEmpty
