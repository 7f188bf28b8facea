CONSTANTS
  Scenarios <- MCScenarios
  MaxPods = 3
  MaxBackendEvents = 2
  Volatile = {"class", "pods"}
  Failures = {"Forbidden", "Error"}
  MayExpire = TRUE
SPECIFICATION FairSpec
INVARIANTS
  TypeOK
  EveryFailureBooked
  NeverQuiet
  NoDanglingCause
  WaitingIsNoFault
PROPERTIES
  ContractKept
  ReadsAreOneStep
