---- MODULE MCCoderRuns ----
EXTENDS CoderRuns

Harvest == [family |-> "harvest", deliverable |-> "research", step |-> 1, blockers |-> 1,
            counts |-> {"draft"}]
\* The same plan, a step on and past a blocker.
HarvestOn == [Harvest EXCEPT !.step = 2, !.blockers = 0]
Compose == [family |-> "compose", deliverable |-> "pitches", step |-> 0, blockers |-> 0,
            counts |-> {"draft"}]

Jobs == {Harvest, HarvestOn, Compose}
====
