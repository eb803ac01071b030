SPECIFICATION FairSpec
CONSTANTS
  MaxCpus = 2
  Thresh = 2
  Modulus = 16
  SpuriousWakeups = TRUE
  MaxRequests = 9
  MaxRounds = 5
CHECK_DEADLOCK FALSE
INVARIANTS
  TypeOK
  RequestsConserved
  RoundsDue
  ContextsReady
PROPERTIES
  WaiterRuns
  HeatingStarts
