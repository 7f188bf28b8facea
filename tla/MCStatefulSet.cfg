CONSTANTS
  ContainerNames = {"app", "proxy"}
  ConfigMapNames = {}
  SecretNames = {}
  ClaimNames = {}
  Window = 1
  Scenarios <- MCScenarios
  MaxPods = 2
  MaxReplicas = 3
  MaxTemplates = 2
  MaxBackendEvents = 1
  Volatile <- MCVolatile
  Failures = {"Forbidden"}
  MayExpire = TRUE
SPECIFICATION FairSpec
INVARIANTS
  BlockerIsLowest
  ReplicaToldOnce
  HeldIsNotStuck
PROPERTY
  ContractKept
