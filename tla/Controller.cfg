CONSTANTS
  consecutive_limit = 2
  total_limit = 3
  base_cooldown = 1
  max_cooldown = 2
  base_backoff = 1
  max_backoff = 2
  cycle_cap = 2
  ChainLength = 2
  ProducesResult = TRUE
  MaxVisits = 1
SPECIFICATION ControllerFairSpec
INVARIANTS
  ControllerTypeOK
  DemotionIsEarned
  RecoveryIsBounded
  RunningAgentIsEligible
PROPERTIES
  SpentIsForGood
  FailingPhaseIsGivenUp
