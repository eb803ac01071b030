SPECIFICATION FairSpec
CONSTANTS
  MaxCpus = 1
  Thresh = 2
  Modulus = 16
  SpuriousWakeups = FALSE
  MaxRequests = 9
  MaxRounds = 5
CHECK_DEADLOCK FALSE
INVARIANTS
  TasksNeverWrap
