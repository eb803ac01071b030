SPECIFICATION Spec
CONSTANTS
  o1 = o1
  o2 = o2
  NoObject = NoObject
  Objects <- OneObject
  NbChunks <- TwoChunks
  QSize = 2
  Lossy = FALSE
CHECK_DEADLOCK FALSE
INVARIANTS
  FlushSendsAll
