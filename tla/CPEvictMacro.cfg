SPECIFICATION Spec
CONSTANTS
  a = a
  b = b
  c = c
  r1 = r1
  r2 = r2
  NoItem = NoItem
  Items <- OneItem
  Requests <- NoRequests
  Size <- SmallSize
  BlockSize = 4
  TotBlocks = 2
  NbOffloads = 1
  RunCacheOptimization = FALSE
  OffloadingEvictionTest = TRUE
  MaxTestCount = 2
  OffloadedType = "HOST_CACHE"
  UnoffloadedType = "NIC_CACHE"
  WrongHv = FALSE
CHECK_DEADLOCK FALSE
INVARIANTS
  EvictAssertHolds
