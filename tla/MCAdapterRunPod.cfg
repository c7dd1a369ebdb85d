SPECIFICATION AdapterSpec
CONSTANTS
  Kind = "runpod"
  Rigs = {r1}
  Lost = Lost
  Machines = 3
  Details <- MCDetails
  PageMax = 1
  LateAfter = {"transport", "cut", "unsuccessful", "gateway"}
CHECK_DEADLOCK FALSE
INVARIANTS TrackedIsNoOrphan
