SPECIFICATION FairSpec
CONSTANTS
  r1 = r1  r2 = r2  c1 = c1  c2 = c2
  Run = {r1, r2}
  Closer = {c1, c2}
  Impatient = {c1}
  HasProcesses = TRUE
  MaxFaults = 1
CHECK_DEADLOCK FALSE
INVARIANTS QuietWhenRevoked
PROPERTIES CloseCompletes
