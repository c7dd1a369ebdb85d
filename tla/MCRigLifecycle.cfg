SPECIFICATION Spec
CONSTANTS
  Owner = Owner
  Downers = {d1, d2}
  Resumers = {r1}
  Sweepers = {w1}
  Nobody = Nobody
  LateGateway = TRUE
SYMMETRY MCSymmetry
CHECK_DEADLOCK FALSE
INVARIANTS
  SpendIsOnRecord
  ConfirmedEndIsReal
  NoRivalServer
PROPERTIES
  SweepKillsOnlySelected
