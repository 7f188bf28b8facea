CONSTANTS
  ContainerNames = {"app", "proxy"}
  ConfigMapNames = {}
  SecretNames = {}
  ClaimNames = {}
  Window = 1
  Scenarios <- MCScenarios
  MaxPods = 2
  MaxServices = 2
  MaxPaths = 3
  Ports = {"http", "grpc"}
  MaxBackendEvents = 1
  Volatile <- MCVolatile
  Failures = {"Forbidden"}
  MayExpire = TRUE
SPECIFICATION FairSpec
INVARIANTS
  BrokenBackendToldOnce
  AddressToldOnce
  ServedIsNoIssue
PROPERTY
  ContractKept
