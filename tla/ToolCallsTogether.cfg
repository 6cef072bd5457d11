SPECIFICATION Spec
CONSTANTS
  c1 = c1 c2 = c2 e1 = e1 e2 = e2 None = None
  Calls = {c1, c2}
  Entities = {e1, e2}
  Hosts = {"chat", "job"}
  MaxSpare = 2
  MaxBegun = 3
  MaxMoves = 1
  MaxRestarts = 1
SYMMETRY Symmetry
CHECK_DEADLOCK FALSE
INVARIANT TabsAccounted
PROPERTY FiredWithConsent
PROPERTY FiredOnce
PROPERTY AskedOnce
PROPERTY RestoresOwnPage
PROPERTY HaltHolds
