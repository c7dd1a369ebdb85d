SPECIFICATION Spec
CONSTANTS
  Timeout = 30
  IdleAction = "destroy"
  Ceiling = 34
  BudgetAction = "destroy"
  Accrued = {0}
  Lead = 12
  Poll = 1
  HealthEvery = 3
  ProbeMax = 6
  AskMax = 4
  MaxOpen = 2
  MaxStream = 2
  Faults = {}
CHECK_DEADLOCK FALSE
INVARIANTS
  ReclaimedInTime
  SilentSinceArrival
  WarnedBeforeReclaim
  SpendBounded
