SPECIFICATION FairSpec
CONSTANTS
  a = a
  b = b
  c = c
  r1 = r1
  r2 = r2
  NoItem = NoItem
  Items <- TwoItems
  Requests <- OneRequest
  Size <- PairSizes
  BlockSize = 2
  TotBlocks = 2
  NbOffloads = 1
  RunCacheOptimization = TRUE
  OffloadingEvictionTest = FALSE
  MaxTestCount = 3
  OffloadedType = "NIC_CACHE"
  UnoffloadedType = "HOST_CACHE"
  WrongHv = FALSE
CHECK_DEADLOCK FALSE
PROPERTIES
  EvictionCompletes
