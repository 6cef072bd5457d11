---- MODULE MCToolCalls ----
EXTENDS ToolCalls, TLC

CONSTANTS c1, c2, e1, e2

Symmetry == Permutations(Calls) \cup Permutations(Entities)
====
