CONSTANTS
  ContainerNames = {"app"}
  ConfigMapNames = {"cm"}
  SecretNames = {"sec"}
  ClaimNames = {"pvc", "data"}
  Window = 1
  Scenarios <- DocsScenarios
  Owners = {"rs", "loop", "job", "dep"}
  OwnerKind <- MCOwnerKind
  Parent <- MCParent
  MaxOwnerDepth = 4
  Volatile = {}
  Failures = {"Forbidden"}
  MayExpire = TRUE
SPECIFICATION Spec
INVARIANT
  NotReadyIsNotHealthy
