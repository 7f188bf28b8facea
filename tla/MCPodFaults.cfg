CONSTANTS
  ContainerNames = {"app"}
  ConfigMapNames = {"cm"}
  SecretNames = {"sec"}
  ClaimNames = {"pvc", "data"}
  Window = 1
  Scenarios <- MCScenarios
  Owners = {"rs", "loop", "job", "dep"}
  OwnerKind <- MCOwnerKind
  Parent <- MCParent
  MaxOwnerDepth = 4
  Volatile <- MCVolatile
  Failures = {"Forbidden", "Error"}
  MayExpire = TRUE
SPECIFICATION FairSpec
INVARIANTS
  TypeOK
  NoFalseAbsence
  HealthyMeansLooked
  ExitContract
  NeverQuiet
PROPERTY
  ContractKept
