CONSTANTS
  ContainerNames = {"c", "main"}
  ConfigMapNames = {"cm"}
  SecretNames = {"sec"}
  ClaimNames = {"pvc", "data"}
  Window = 1
  Scenarios <- MCScenarios
  Owners = {}
  OwnerKind <- MCNone
  Parent <- MCNone
  MaxOwnerDepth = 4
  Volatile = {}
  Failures = {}
  MayExpire = FALSE
SPECIFICATION Spec
INVARIANTS
  FailuresClaimed
  OneRulePerStop
  NoDanglingCause
  HistoryIsNoVerdict
