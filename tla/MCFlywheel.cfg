\* The API and the worker learn six outcomes, and flush after every second.
SPECIFICATION Spec
CONSTANTS
  api = api
  worker = worker
  o1 = o1
  o2 = o2
  o3 = o3
  o4 = o4
  o5 = o5
  o6 = o6
  Procs <- MCProcs
  Outcomes <- MCOutcomes
  FlushEvery = 2
  MaxRestarts = 1
INVARIANTS
  NeverCountedTwice
  NothingIsLost
SYMMETRY Alike
CHECK_DEADLOCK FALSE
