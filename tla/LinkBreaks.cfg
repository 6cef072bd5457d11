SPECIFICATION Spec
CONSTANTS
  n1 = n1 n2 = n2 x1 = x1 x2 = x2 x3 = x3 None = None
  Nodes = {n1, n2}
  Calls = {x1, x2}
  MaxConns = 2
  MaxTroubles = 1
CHECK_DEADLOCK FALSE
INVARIANT PendingReachable
INVARIANT TakeoverAgrees
PROPERTY CallsSettle
