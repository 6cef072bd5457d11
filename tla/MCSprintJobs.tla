---- MODULE MCSprintJobs ----
EXTENDS SprintJobs

CONSTANTS k1, k2

\* The second task needs the first.
SecondNeedsFirst == [t \in Tasks |-> IF t = 2 THEN {1} ELSE {}]
====
