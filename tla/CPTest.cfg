SPECIFICATION Spec
CONSTANTS
  a = a
  b = b
  c = c
  r1 = r1
  r2 = r2
  NoItem = NoItem
  Items <- ThreeItems
  Requests <- NoRequests
  Size <- MixedSizes
  BlockSize = 2
  TotBlocks = 3
  NbOffloads = 1
  RunCacheOptimization = FALSE
  OffloadingEvictionTest = TRUE
  MaxTestCount = 2
  OffloadedType = "HOST_CACHE"
  UnoffloadedType = "NIC_CACHE"
  WrongHv = FALSE
CHECK_DEADLOCK FALSE
INVARIANTS
  TestAssertHolds
  BlockAccounting
