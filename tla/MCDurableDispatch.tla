---- MODULE MCDurableDispatch ----
EXTENDS DurableDispatch, TLC

CONSTANTS a1, a2, a3, h1, h2, w1, w2, k1

\* Item 3 waits for item 1.
ForkDeps == (1 :> {}) @@ (2 :> {}) @@ (3 :> {1})

\* Item 2 waits for item 1.
ChainDeps == (1 :> {}) @@ (2 :> {1})

\* Two independent items of the same template, both on the resource.
FlatDeps == [i \in Items |-> {}]
NoResource == [i \in Items |-> None]
SharedResource == [i \in Items |-> k1]

OneTemplate == [i \in Items |-> "work"]

AttemptSymmetry == Permutations(Attempts)
ProcessSymmetry == AttemptSymmetry \cup Permutations(Workers) \cup Permutations(Requests)
====
