---- MODULE WorkItems ----
(***************************************************************************)
(* The work-item reducer of domain/work-item.ts: the statuses, and for     *)
(* each command the statuses it may be applied in (FROM) and the one it    *)
(* produces (TO).  A work item is abstracted to its status and to what its *)
(* checkpoint says of the block that was last recorded on it.              *)
(***************************************************************************)

Statuses == {"pending", "ready", "leased", "blocked", "done", "failed",
             "cancelled", "abandoned"}

Commands == {"mark_ready", "claim", "complete", "fail", "block", "unblock",
             "cancel", "abandon", "retry"}

From ==
    [c \in Commands |->
        CASE c = "mark_ready" -> {"pending"}
          [] c = "claim"      -> {"ready"}
          [] c \in {"complete", "fail"} -> {"leased"}
          [] c = "block"      -> {"ready", "leased"}
          [] c = "unblock"    -> {"blocked"}
          [] c = "cancel"     -> {"pending", "ready", "leased", "blocked", "failed"}
          [] c = "abandon"    -> {"blocked", "failed"}
          [] c = "retry"      -> {"failed", "blocked"}]

\* Variant: an unblocked item counts as done.
ToDoneWhenUnblocked ==
    [c \in Commands |->
        CASE c \in {"mark_ready", "retry"} -> "ready"
          [] c = "claim"    -> "leased"
          [] c \in {"complete", "unblock"} -> "done"
          [] c = "fail"     -> "failed"
          [] c = "block"    -> "blocked"
          [] c = "cancel"   -> "cancelled"
          [] c = "abandon"  -> "abandoned"]

To ==
    [c \in Commands |->
        CASE c \in {"mark_ready", "unblock", "retry"} -> "ready"
          [] c = "claim"    -> "leased"
          [] c = "complete" -> "done"
          [] c = "fail"     -> "failed"
          [] c = "block"    -> "blocked"
          [] c = "cancel"   -> "cancelled"
          [] c = "abandon"  -> "abandoned"]

\* What the stored checkpoint records: nothing, a challenge, another block.
Checkpoints == {"none", "challenge", "other"}

Rows == [status : Statuses, checkpoint : Checkpoints]

\* reduceWorkItem throws unless the command is allowed in the row's status.
Allowed(row, c) == row.status \in From[c]

\* Variant: block records the checkpoint and leaves the status.
ReducedKeepingLease(row, c, cp) ==
    IF c = "block" THEN [row EXCEPT !.checkpoint = cp]
    ELSE [status |-> To[c], checkpoint |-> row.checkpoint]

\* The row reduceWorkItem returns; only "block" carries a checkpoint, cp.
Reduced(row, c, cp) ==
    [status |-> To[c], checkpoint |-> IF c = "block" THEN cp ELSE row.checkpoint]
====
