SPECIFICATION FairSpec
CONSTANTS
  d1 = d1  d2 = d2
  Call = {d1, d2}
  KindOf <- MCKindOf
  Policies <- MCPolicies
  MaxReqs = 4
CHECK_DEADLOCK FALSE
INVARIANTS  ReturnsJustified
PROPERTIES RequestsReturn
