---- MODULE JobLifecycle ----
(***************************************************************************)
(* The durable job's lifecycle: the transition matrix of                   *)
(* domain/job-lifecycle.ts.  Only the lifecycle itself is data here; the   *)
(* rest of the job row (spec version, hash, timestamps) belongs to the     *)
(* modules that write it.                                                  *)
(***************************************************************************)

Lifecycles == {"planning", "awaiting_plan_approval", "active", "paused",
               "completed", "failed", "cancelled", "archived"}

\* The lifecycles a job may move to from each lifecycle.
Transitions ==
    [l \in Lifecycles |->
        CASE l = "planning"               -> {"awaiting_plan_approval", "cancelled"}
          [] l = "awaiting_plan_approval" -> {"planning", "active", "cancelled"}
          [] l = "active"    -> {"paused", "completed", "failed", "cancelled", "planning"}
          [] l = "paused"    -> {"active", "cancelled"}
          [] l = "failed"    -> {"planning", "cancelled", "archived"}
          [] l = "completed" -> {"archived"}
          [] l = "cancelled" -> {"archived"}
          [] OTHER           -> {}]

\* transitionJobLifecycle throws unless the move is in the matrix.
CanTransition(from, to) == to \in Transitions[from]

\* cancelJob refuses a job that is over, then asks the matrix.
CanCancel(from) ==
    /\ from \notin {"cancelled", "archived", "completed"}
    /\ CanTransition(from, "cancelled")
====
