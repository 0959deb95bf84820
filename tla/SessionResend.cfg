SPECIFICATION Spec
CONSTANTS
  Key = {"k", "f"}
  Home = "k"
  FreshOf <- MCFreshOf
  Run = {"r1", "r2"}
  Call = {"c1", "c2"}
  IdOf <- MCIdOf
  RetryOf <- NoRetry
  Follower = {"o"}
  Snapshot = {"s"}
  Canceller = {"x"}
  Casts <- Supplements
  MaxConcurrentRuns = 1
  MaxEvents = 1
  MaxFaults = 1
  MaxCrashes = 1
CHECK_DEADLOCK FALSE
INVARIANTS RecordedOnce

