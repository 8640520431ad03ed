\* Two handlers of one refund at the same time.
SPECIFICATION Spec
CONSTANTS
  Deliveries = {d1, d2, d3}
  Total = 2
  Recoveries = 2
SYMMETRY Symmetry
INVARIANT NeverOverReversed
CHECK_DEADLOCK FALSE
