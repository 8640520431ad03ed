\* The default policy, late tries included.
SPECIFICATION Spec
CONSTANTS
  MaxAttempts = 3
  MaxTries = 2
  Backoffs = {0, 2}
  RetryCap = 3
  NetworkCap = 2
  MinInterval = 1
  Policies = {"cost_aware"}
  Zombies = TRUE
INVARIANTS
  TypeOK
  ChargedOnce
  NetworkCapRespected
CHECK_DEADLOCK FALSE
