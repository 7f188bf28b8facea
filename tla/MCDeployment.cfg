CONSTANTS
  ContainerNames = {"app", "proxy"}
  ConfigMapNames = {}
  SecretNames = {}
  ClaimNames = {}
  Window = 1
  Scenarios <- MCScenarios
  MaxPods = 3
  MaxBackendEvents = 2
  Volatile = {"sets", "pods"}
  Failures = {"Forbidden"}
  MayExpire = TRUE
SPECIFICATION FairSpec
INVARIANTS
  CurrentIsTheRevision
  GapReported
  IntentIsNoFault
PROPERTY
  ContractKept
