---- MODULE ConfirmedWork ----
(***************************************************************************)
(* What approval promises: a person confirms a specification by its hash,  *)
(* only confirmed specifications are approved, and a work item comes into  *)
(* being bound to an approved one and keeps that hash for ever.            *)
(***************************************************************************)
CONSTANTS Hashes, WorkIds, None

VARIABLES
    confirmed,  \* the hashes people confirmed
    approved,   \* the hashes that were approved at some time
    bound       \* bound[i]: the hash work item i was created under, or None

vars == <<confirmed, approved, bound>>

Init ==
    /\ confirmed = {}
    /\ approved = {}
    /\ bound = [i \in WorkIds |-> None]

Confirm(h) ==
    /\ confirmed' = confirmed \cup {h}
    /\ UNCHANGED <<approved, bound>>

Approve(h) ==
    /\ h \in confirmed
    /\ approved' = approved \cup {h}
    /\ UNCHANGED <<confirmed, bound>>

Bind(i, h) ==
    /\ bound[i] = None
    /\ h \in approved
    /\ bound' = [bound EXCEPT ![i] = h]
    /\ UNCHANGED <<confirmed, approved>>

Next ==
    \/ \E h \in Hashes : Confirm(h) \/ Approve(h)
    \/ \E i \in WorkIds, h \in Hashes : Bind(i, h)

Spec == Init /\ [][Next]_vars
====
