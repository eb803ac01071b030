SPECIFICATION FairSpec
CONSTANTS
  o1 = o1
  o2 = o2
  NoObject = NoObject
  Objects <- OneObject
  NbChunks <- OneChunk
  QSize = 2
  Lossy = TRUE
CHECK_DEADLOCK FALSE
PROPERTIES
  RepliesProcessed
