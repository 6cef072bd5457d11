SPECIFICATION Spec
CONSTANTS
  k1 = k1 k2 = k2 None = None
  Ticks = {k1, k2}
  Hosted = {k1}
  N = 2
  Needs <- SecondNeedsFirst
  Finds = {2}
  Commits = {1}
  Cap = 2
  Limit = 1
  MaxTroubles = 1
CHECK_DEADLOCK FALSE
INVARIANT TypeOK
INVARIANT LeaseExcludes
INVARIANT AttemptsBounded
INVARIANT StartedAfterDeps
PROPERTY CommitOnce
PROPERTY DoneStays
PROPERTY WorkEnds
