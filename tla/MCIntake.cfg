\* Two invoices of a customer, two webhooks, one restart.
SPECIFICATION Spec
CONSTANTS
  i1 = i1
  i2 = i2
  c1 = c1
  Invoices = {i1, i2}
  MinFailures = 1
  Deliveries = {d1, d2}
  Customers = {c1}
  Guest = guest
  CustomerOf <- Owner
  Strata = {s1, s2}
  Restarts = 1
  MaxSagas = 2
SYMMETRY Symmetry
INVARIANTS
  TypeOK
  ControlIsUntouched
  AssignedOncePerLife
  AckedIsDispatched
  ActivationIsMeasured
CHECK_DEADLOCK FALSE
