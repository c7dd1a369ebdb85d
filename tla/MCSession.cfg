SPECIFICATION FairSpec
CONSTANTS
  g1 = g1
  g2 = g2
  Gens = {g1, g2}
  Other = Other
  Nobody = Nobody
  Strangers = TRUE
CHECK_DEADLOCK FALSE
INVARIANTS
  TeardownHeld
  LeftOnlyIfAsked
PROPERTIES
  StoppedEnds
