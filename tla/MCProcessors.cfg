\* Every adapter, each in behaviours of its own.
SPECIFICATION Spec
CONSTANTS
  Served <- EveryAdapter
  Bills = {1, 2}
  Dying = {1}
  MaxAttempts = 2
  MaxTries = 2
  MaxPayments = 3
  MaxReturns = 2
  MaxWire = 2
INVARIANTS
  TypeOK
  OncePerKey
  CollectedOnce
  EventsJoinTheCase
  BillsAreToldApart
  ReversedIsReturned
  AckedIsSeen
  FailedIsFailed
  CollectedIsKnown
  DeadCardIsSpared
CHECK_DEADLOCK FALSE
