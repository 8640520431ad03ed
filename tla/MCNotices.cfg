\* Two processes: jobs, sweeps and tries of the activity.
SPECIFICATION Spec
CONSTANTS
  September = September
  p1 = p1
  p2 = p2
  Procs <- MCProcs
  Periods <- MCPeriods
  Reminders <- MCReminders
  Keys <- MCKeys
  Customers <- MCCustomers
  channel = "email"
  Hours = {7, 12}
  MaxTries = 2
  Days = {0, 24, 35}
  Deployments <- MCDeployments
  Templates <- MCTemplates
  Amounts = {10000}
  Reissues = 1
INVARIANTS
  NoticesTypeOK
  SentOnceOrForCause
  OnlyWithConsent
  ChargedIsAgreed
PROPERTIES
  NoticesEscalate
SYMMETRY Either
CHECK_DEADLOCK FALSE
