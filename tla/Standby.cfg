SPECIFICATION FairSpec
CONSTANTS
  a = a
  b = b
  s1 = s1
  s2 = s2
  s3 = s3
  Msg = {a, b}
  Sender = {s1, s2, s3}
  MsgOf <- MCMsgOf
  Configures = {s3}
  Impatient = {s2}
  MaxPending = 1
  MaxCancels = 1
CHECK_DEADLOCK FALSE
INVARIANTS NothingLost RetriedOnce CancelWithdraws
PROPERTIES StandbyServes
