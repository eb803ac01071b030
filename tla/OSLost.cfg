SPECIFICATION FairSpec
CONSTANTS
  MaxCpus = 1
  Thresh = 2
  Modulus = 16
  SpuriousWakeups = FALSE
  MaxRequests = 3
  MaxRounds = 5
CHECK_DEADLOCK FALSE
PROPERTIES
  TasksRun
