SPECIFICATION FairSpec
CONSTANTS
  p = p  a = a  b = b  c = c  w = w  s1 = s1  s2 = s2  s3 = s3
  WrapUnits = 1
  Msg = {p, a, b}
  Start = p
  Carried = {}
  Wrap = w
  Sender = {s1, s2}
  Mortal <- Nobody
  Doubt = {TRUE}
  MsgOf <- MCMsgOf
  TimingOf <- AllSoon
  UnitsOf <- MCUnitsOf
  Durable = {p, a}
  MaxPending = 1
  MaxTurns = 2
  Resume = TRUE
  DescriptorCap <- Wide
  ResolvedCaps <- Resolved
CHECK_DEADLOCK FALSE
INVARIANTS DeliveredOnce
PROPERTIES  ClaimsFitBudget ExecutionEnds
