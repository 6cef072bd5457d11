SPECIFICATION Spec
CONSTANTS
  None = None
  Families = {"harvest", "compose", "other"}
  Tasks <- Jobs
  Slices = {2, 7}
  Cap = 5
  Wait = 1
  Silence = 1
  Grace = 1
  MaxExtensions = 2
  MaxFailures = 2
  MaxStagnant = 2
  MaxCalls = 3
  MaxWrites = 1
  MaxRestarts = 1
CHECK_DEADLOCK FALSE
INVARIANT RunIsBounded
INVARIANT FailuresStop
PROPERTY ExtendedSpoke
PROPERTY CallsEnd
