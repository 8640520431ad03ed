\* The bandit reaches credential recovery; a try that failed takes no further step.
SPECIFICATION FairSpec
CONSTANTS
  MaxAttempts = 2
  MaxTries = 2
  Backoffs = {2}
  RetryCap = 2
  NetworkCap = 2
  MinInterval = 1
  Policies = {"cost_aware", "bandit"}
  Zombies = FALSE
INVARIANTS
  RecoveredIsBacked
  ChargeIsPlannedAndLawful
PROPERTY SagaEnds
CHECK_DEADLOCK FALSE
