---- MODULE MCDurableSpecs ----
EXTENDS DurableSpecs, TLC

CONSTANTS c1, c2, w1, sb1, sb2, cb1, cb2, cb3, cb4

OneSeed == <<"seed">>

\* The second template of the pipeline comes first in the draft.
Pipeline == <<"write", "read">>
PipelineDeps == [t \in {"seed", "read", "write"} |->
                    IF t = "write" THEN {"read"} ELSE {}]

Single == <<"read">>
SingleDeps == [t \in {"seed", "read"} |-> {}]

BatchSymmetry == Permutations(SeedBatches) \cup Permutations(CaseBatches)
CallerSymmetry == BatchSymmetry \cup Permutations(Callers)
====
