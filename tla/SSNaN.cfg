SPECIFICATION SampleSpec
CONSTANTS
  SampleSize = 5
  MaxPrio = 3
CHECK_DEADLOCK FALSE
INVARIANTS
  SortTotal
