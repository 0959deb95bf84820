SPECIFICATION FairSpec
CONSTANTS
  main = main  fork = fork
  Thread = {main, fork}
  ParentOf <- MCParentOf
  MaxProcs = 2
  MaxSessions = 2
  Bounds <- ForksAndCloses
CHECK_DEADLOCK FALSE
INVARIANTS SoleWriter PromptOnce TurnUndisturbed
PROPERTIES ImplementsLifecycle PoolCloses
