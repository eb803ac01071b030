SPECIFICATION Spec
CONSTANTS
  a = a
  b = b
  c = c
  r1 = r1
  r2 = r2
  NoItem = NoItem
  Items <- TwoItems
  Requests <- NoRequests
  Size <- PairSizes
  BlockSize = 2
  TotBlocks = 2
  NbOffloads = 1
  RunCacheOptimization = TRUE
  OffloadingEvictionTest = FALSE
  MaxTestCount = 3
  OffloadedType = "HOST_CACHE"
  UnoffloadedType = "NIC_CACHE"
  WrongHv = FALSE
CHECK_DEADLOCK FALSE
INVARIANTS
  NoNullCall
