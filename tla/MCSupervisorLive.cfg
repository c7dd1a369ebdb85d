SPECIFICATION FairSpec
CONSTANTS
  Timeout = 3
  IdleAction = "warn"
  Ceiling = 0
  BudgetAction = "destroy"
  Accrued = {0}
  Lead = 5
  Poll = 1
  HealthEvery = 2
  ProbeMax = 2
  AskMax = 2
  MaxOpen = 1
  MaxStream = 2
  Faults = {"store", "journal", "write"}
CHECK_DEADLOCK FALSE
PROPERTIES
  EndNoticed
