CONSTANTS
  RuleCount = 2
  Findings <- MCFindings
  MaxPerRule = 2
SPECIFICATION EngineSpec
INVARIANTS
  NothingLost
  OrderInTier
