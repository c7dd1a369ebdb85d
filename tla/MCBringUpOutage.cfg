SPECIFICATION FairSpec
CONSTANTS
  Deadline = 5
  BootStall = 1
  BootCap = 4
  Unreachable = 1
  Grace = 1
  AuthStall = 1
  AuthCap = 2
  ColdLimit = 1
  WarmLimit = 1
  ReadyCap = 3
  DeadPolls = 2
  Offers = {"one", "twin", "second", "listing"}
  MachineOf <- MCMachineOf
  ModelOf <- MCModelOf
  Fitting = {"one", "twin", "second", "listing"}
  MaxHostAttempts = 3
  NoMachine = "none"
  NoOffer = "none"
CHECK_DEADLOCK FALSE
INVARIANTS
  OutageSurvived
