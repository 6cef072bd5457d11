---- MODULE MCBrowserRuns ----
EXTENDS BrowserRuns, TLC

CONSTANTS c1, c2, r1, r2

Symmetry == Permutations(Slots) \cup Permutations(Runs)
====
