\* Credential recovery, with one try dying after a fresh card was charged.
SPECIFICATION Spec
CONSTANTS
  MaxAttempts = 2
  MaxTries = 2
  Backoffs = {2}
  RetryCap = 2
  NetworkCap = 2
  MinInterval = 1
  Policies = {"bandit"}
  Zombies = FALSE
INVARIANT CollectedOnce
CHECK_DEADLOCK FALSE
