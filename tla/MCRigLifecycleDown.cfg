SPECIFICATION Spec
CONSTANTS
  Owner = Owner
  Downers = {d1}
  Resumers = {}
  Sweepers = {}
  Nobody = Nobody
  LateGateway = FALSE
CHECK_DEADLOCK FALSE
INVARIANTS
  NothingCreatedIsTrue
