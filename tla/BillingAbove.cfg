\* A month that proves less, between two that prove as much.
SPECIFICATION Spec
CONSTANTS
  Jobs = {j1, j2, j3}
  Periods = 2
  MaxLift = 1
  Changes = 2
SYMMETRY Symmetry
INVARIANT NeverAboveCumulative
CHECK_DEADLOCK FALSE
