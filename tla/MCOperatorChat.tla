--------------------------- MODULE MCOperatorChat ---------------------------
(* The instance for TLC: two tasks, which are interchangeable, and a         *)
(* calibration plan with a file to deliver and a report at its end.          *)
EXTENDS OperatorChat, TLC
CONSTANTS t1, t2
MCPlans == {Roles}
Anyone == Permutations(Tasks)
=============================================================================
