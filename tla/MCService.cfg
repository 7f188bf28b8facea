CONSTANTS
  ContainerNames = {"app", "proxy"}
  ConfigMapNames = {}
  SecretNames = {}
  ClaimNames = {}
  Window = 1
  Scenarios <- MCScenarios
  Ports = {"http", "grpc"}
  MaxPods = 3
  MaxBackendEvents = 2
  Volatile = {"pods"}
  Failures = {"Forbidden"}
  MayExpire = TRUE
SPECIFICATION FairSpec
INVARIANTS
  OutageReported
  RoutingIsNotBroken
  NothingLost
  NoPodForgotten
  NoDanglingCause
  WidespreadFirst
PROPERTY
  ContractKept
