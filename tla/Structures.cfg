SPECIFICATION MCSpec
CONSTANTS
  MaxNbEles = 8
  MaxChunks = 9
  N = 9
  NbItems = 6
  SampleSize = 5
  MaxPrio = 3
VIEW MCView
CHECK_DEADLOCK FALSE
INVARIANTS
  StructuresTypeOK
  FreeNotLinked
  CountExact
  ShortBuckets
  HoldsMembers
  SearchTree
  ParentsMirror
  RedBlack
  EveryItemSampled
  NothingBelow
  CacheParentsMirror
  CacheNeverCrashes
  SortKeepsAll
  SortAscending
PROPERTIES
  RefinesPending
