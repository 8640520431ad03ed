\* Three webhooks about an invoice of three units, ledgered as recovered up to twice.
SPECIFICATION Spec
CONSTANTS
  Deliveries = {d1, d2, d3}
  Total = 3
  Recoveries = 2
SYMMETRY Symmetry
INVARIANTS
  TypeOK
  CapsHold
  RefundsAreExact
CHECK_DEADLOCK FALSE
