\* Two processes, two calls each, with and without the advisory lock.
SPECIFICATION FairSpec
CONSTANTS
  Writers = {api, worker}
  Calls = 2
  MaxAppendRetries = 2
INVARIANTS
  TypeOK
  ChainVerifies
  AckedIsStored
PROPERTIES
  ImplementsLog
  AppendsSettle
CHECK_DEADLOCK FALSE
