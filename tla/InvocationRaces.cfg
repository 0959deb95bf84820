SPECIFICATION InvSpec
CONSTANTS
  p = p  a = a  b = b  c = c  w = w  s1 = s1  s2 = s2  s3 = s3
  WrapUnits = 20
  Msg = {p, a, b, c}
  Start = p
  Carried = {c}
  Wrap = w
  Sender = {s1, s2, s3}
  Mortal <- Caller1AndRun
  Doubt = {FALSE}
  MsgOf <- MCMsgOf
  TimingOf <- Mixed
  UnitsOf <- MCUnitsOf
  Durable = {}
  MaxPending = 1
  MaxTurns = 2
  Resume = TRUE
  DescriptorCap <- NoWrap
  ResolvedCaps <- MayInterrupt
CONSTRAINT TwoCalls
CHECK_DEADLOCK FALSE
INVARIANTS NoMessageLost
 
