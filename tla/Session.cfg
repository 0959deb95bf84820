SPECIFICATION FairSpec
CONSTANTS
  Key = {"k", "f"}
  Home = "k"
  FreshOf <- MCFreshOf
  Run = {"r1", "r2"}
  Call = {"c1", "c2"}
  IdOf <- MCIdOf
  RetryOf <- MCRetryOf
  Follower = {"o"}
  Snapshot = {"s"}
  Canceller = {"x"}
  Casts <- MCCasts
  MaxConcurrentRuns = 1
  MaxEvents = 1
  MaxFaults = 1
  MaxCrashes = 1
CHECK_DEADLOCK FALSE
INVARIANTS HistoryInOrder AcceptedRecorded DiagnosisFinal ReadersTold StopSettles
PROPERTIES CallsReturn
