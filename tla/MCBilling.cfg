\* Three runs over two months, and two movements of what the cohorts prove.
SPECIFICATION Spec
CONSTANTS
  Jobs = {j1, j2, j3}
  Periods = 2
  MaxLift = 1
  Changes = 2
SYMMETRY Symmetry
INVARIANTS
  TypeOK
  IncrementsAddUp
  CollectedIsProven
  MoneyIsOnRecord
CHECK_DEADLOCK FALSE
