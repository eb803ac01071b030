SPECIFICATION FairSpec
CONSTANTS
  o1 = o1
  o2 = o2
  NoObject = NoObject
  Objects <- OneObject
  NbChunks <- EmptyFile
  QSize = 2
  Lossy = FALSE
CHECK_DEADLOCK FALSE
PROPERTIES
  OffloadCompletes
