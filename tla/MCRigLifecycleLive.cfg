SPECIFICATION FairSpec
CONSTANTS
  Owner = Owner
  Downers = {}
  Resumers = {r1, r2}
  Sweepers = {w1}
  Nobody = Nobody
  LateGateway = FALSE
CHECK_DEADLOCK FALSE
INVARIANTS
  NothingCreatedIsTrue
PROPERTIES
  BringUpSettles
  EndedRigReleased
