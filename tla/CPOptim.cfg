SPECIFICATION Spec
CONSTANTS
  a = a
  b = b
  c = c
  r1 = r1
  r2 = r2
  NoItem = NoItem
  Items <- ThreeItems
  Requests <- OneRequest
  Size <- WholeSizes
  BlockSize = 2
  TotBlocks = 3
  NbOffloads = 1
  RunCacheOptimization = TRUE
  OffloadingEvictionTest = FALSE
  MaxTestCount = 3
  OffloadedType = "NIC_CACHE"
  UnoffloadedType = "HOST_CACHE"
  WrongHv = TRUE
CHECK_DEADLOCK FALSE
INVARIANTS
  BlockAccounting
  VisibleImpliesResident
  OneHome
  CandidatesReady
