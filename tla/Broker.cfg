SPECIFICATION FairSpec
CONSTANTS
  p1 = p1
  p2 = p2
  Producer = {p1, p2}
  Plan <- MixedPlans
  Late = {p2}
  Mortal = {p1}
  Capacity = 1
  Modes <- AllModes
CHECK_DEADLOCK FALSE
INVARIANTS InOrderToDone LossAccounted
PROPERTIES CriticalKept StreamEnds
