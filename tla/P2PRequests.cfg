SPECIFICATION Spec
CONSTANTS
  k1 = k1
  k2 = k2
  k3 = k3
  k4 = k4
  p1 = p1
  p2 = p2
  z1 = z1
  z2 = z2
  a = a
  b = b
  NoRequest = NoRequest
  Call = {k1, k2, k3}
  Request <- MCMixed
  Ends <- MCEnds
INVARIANTS RightContent AnsweredReturns NoStaleIds
CHECK_DEADLOCK FALSE
