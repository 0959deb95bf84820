SPECIFICATION Spec
CONSTANTS
  main = main  fork = fork
  Thread = {main, fork}
  ParentOf <- MCParentOf
  MaxProcs = 2
  MaxSessions = 2
  Bounds <- CodexCloses
CHECK_DEADLOCK FALSE
INVARIANTS ClosedMeansGone
