SPECIFICATION Spec
CONSTANTS
  c1 = c1 c2 = c2 r1 = r1 r2 = r2 None = None
  Slots = {c1, c2}
  Runs = {r1, r2}
  MaxTabs = 2
  MaxCalls = 5
  MaxRestarts = 1
SYMMETRY Symmetry
CHECK_DEADLOCK FALSE
INVARIANT TypeOK
INVARIANT LockReleased
PROPERTY TakeoverHolds
