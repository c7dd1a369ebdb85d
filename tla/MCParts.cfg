SPECIFICATION PartsSpec
CONSTANTS
  GiB = 10
  Bits <- MCBits
  MinContext = 1
  RuntimeImage = 80
  DefaultDisk = 600
  ReliabilityFloor = 90
  OutlierFactor = 3
  MinClassSample = 3
  SessionHours = 1
  Hour = 8
  Requests <- MCRequests
  Listing <- MCListing
  Hosts <- MCHosts
  Quantizations <- MCQuantizations
  Contexts <- MCContexts
  Quoted = 2
  Billed = 3
  Stored = 12
  MaxClock = 2
  MaxEntries = 4
  Kind = "vastai"
  Rigs = {r1}
  Lost = Lost
  Machines = 3
  Details <- MCDetails
  PageMax = 1
  LateAfter = {"transport", "cut", "unsuccessful", "gateway"}
  Repositories <- MCRepositories
  Orders <- MCOrders
  DefaultQuant = "q4_k_m"
  Spaces = {4, 6}
  Deadline = 3
  MaxGrace = 2
  BeatEvery = 2
  w1 = w1
  w2 = w2
  Slots = {w1, w2}
  Faults = {"kill", "arm"}
CHECK_DEADLOCK FALSE
SYMMETRY MCSymmetry
INVARIANTS
  RentalServes
  AdviceWorks
  LaunchHolds
  SpendMatchesMeter
  EndedHasNoMachine
  SweepTellsOrphans
  ServesWhatWasAsked
  SparedWhileBeating
  AbandonedStops
