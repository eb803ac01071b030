SPECIFICATION FairSpec
CONSTANTS
  MaxCpus = 2
  Thresh = 2
  Modulus = 16
  SpuriousWakeups = FALSE
  MaxRequests = 3
  MaxRounds = 3
CHECK_DEADLOCK FALSE
INVARIANTS
  NeverExits
