---- MODULE DurableDispatchProofs ----
(***************************************************************************)
(* The safety properties of DurableDispatch for every set of items,        *)
(* dependencies, attempts, requests and processes.                         *)
(*                                                                         *)
(* None of the invariants the runs check is inductive: a worker or an      *)
(* operator acts later on what it read earlier.  IInv adds what each of    *)
(* them still knows of the rows behind its local copies.                   *)
(***************************************************************************)
EXTENDS DurableDispatch, TLAPS

\* The dependencies of i were completed by attempts, which never changes back.
DepsCompleted(i) == \A d \in Deps[i] : CompletedOn(d) # {}

\* Some request names i; requests are never deleted or moved to another item.
HasRequest(i) == \E h \in Requests : human[h].status # "unused" /\ human[h].item = i

\* Some attempt committed an output on which the aggregate oracle passed.
Judged == \E a \in Attempts : attempt[a].status = "completed" /\ attempt[a].verdict = "decisive"

\* What worker w knows: in a tick it works on an item whose dependencies are
\* completed, and what it is about to write is backed by what it read.
Informed(w) ==
    /\ worker[w].job.lifecycle = "completed" => Judged
    /\ worker[w].pc = "claim" \/ Executing(w) =>
          worker[w].item \in Items /\ DepsCompleted(worker[w].item)
    /\ worker[w].pc \in {"breaker", "list", "park"} =>
          worker[w].outcome = "challenge" /\ worker[w].verdict = "none"
    /\ worker[w].pc = "commit" => worker[w].outcome # "none"
    /\ worker[w].pc = "commit" /\ worker[w].verdict = "decisive" =>
          worker[w].outcome = "completed"
    /\ worker[w].pc = "park" /\ worker[w].dup # None => HasRequest(worker[w].item)
    /\ worker[w].pc = "commit" /\ worker[w].outcome = "challenge" =>
          HasRequest(worker[w].item)

WorkerKnows == \A w \in Workers : Informed(w)

\* What operator o knows in a call: which item it is about, that the item's
\* dependencies are completed before it makes it anything but cancelled, and
\* that a request names the item before it blocks it.
Entitled(o) ==
    /\ operator[o].pc \in {"read", "write", "create", "breaker"} =>
          /\ operator[o].cmd \in {"cancel", "block", "unblock", "retry"}
          /\ operator[o].item \in Items
    /\ operator[o].pc = "prepare" =>
          operator[o].req \in Requests /\ human[operator[o].req].status # "unused"
    /\ operator[o].pc \in {"create", "breaker"} => operator[o].cmd = "block"
    /\ operator[o].pc = "read" => operator[o].cmd # "cancel"
    /\ operator[o].pc = "write" /\ operator[o].cmd # "cancel" =>
          DepsCompleted(operator[o].item)
    /\ operator[o].pc = "create" /\ operator[o].req # None => HasRequest(operator[o].item)
    /\ operator[o].pc \in {"breaker", "read", "write"} /\ operator[o].cmd = "block" =>
          HasRequest(operator[o].item)

OperatorKnows == \A o \in Operators : Entitled(o)

\* A request that exists names an item.
RequestsNameItems ==
    \A h \in Requests : human[h].status # "unused" => human[h].item \in Items

IInv ==
    /\ TypeOK
    /\ OwnAttempt
    /\ LeaseHasRunner
    /\ DoneHasCompletion
    /\ StartedAfterDeps
    /\ CompletionIsJudged
    /\ ChallengeBlockHasRequest
    /\ RequestsNameItems
    /\ WorkerKnows
    /\ OperatorKnows

\* What every call of an operator begins with.
USE DEF Called

----------------------------------------------------------------------------
(* Which actions write which rows.                                         *)

\* Item rows change only by a claim, a commit, a cancelled job or an operator's write.
LEMMA ItemWriters ==
    ASSUME [Next]_vars
    PROVE  \/ UNCHANGED item
           \/ \E w \in Workers : Claim(w) \/ Commit(w)
           \/ \E o \in Operators : CancelJob(o) \/ WriteItem(o)
<1>1. ASSUME NEW w \in Workers, WorkerStep(w)
      PROVE  Claim(w) \/ Commit(w) \/ UNCHANGED item
  BY <1>1 DEF WorkerStep, TickStart, DecideDispatch, DecideWait, SaveWake, ClaimRejected, Begin,
              Finish, FinishRejected, OpenBreaker, ListHumans, Park
<1>2. ASSUME NEW w \in Workers, Crash(w) \/ Heartbeat(w)
      PROVE  UNCHANGED item
  BY <1>2 DEF Crash, Heartbeat
<1>3. ASSUME NEW o \in Operators, OperatorCall(o) \/ OperatorStep(o)
      PROVE  \/ CancelJob(o)
               \/ WriteItem(o)
               \/ UNCHANGED item
  BY <1>3 DEF OperatorCall, OperatorStep, CancelItem, Settle, SkipHuman, PrepareHuman, OpenChallenge, ReadItem,
              SavePrepared, CreateRequest, SaveBreaker
<1>4. ASSUME Time PROVE UNCHANGED item
  BY <1>4 DEF Time, LeaseLapse, CircuitLapse
<1>5. CASE UNCHANGED vars
  BY <1>5 DEF vars
<1>6. QED BY <1>1, <1>2, <1>3, <1>4, <1>5 DEF Next

\* Attempt rows change only by a claim, a commit, a heartbeat or a lapsing lease.
LEMMA AttemptWriters ==
    ASSUME [Next]_vars
    PROVE  \/ UNCHANGED attempt
           \/ \E w \in Workers : Claim(w) \/ Commit(w) \/ Heartbeat(w)
           \/ \E a \in Attempts : LeaseLapse(a)
<1>1. ASSUME NEW w \in Workers, WorkerStep(w)
      PROVE  Claim(w) \/ Commit(w) \/ UNCHANGED attempt
  BY <1>1 DEF WorkerStep, TickStart, DecideDispatch, DecideWait, SaveWake, ClaimRejected, Begin,
              Finish, FinishRejected, OpenBreaker, ListHumans, Park
<1>2. ASSUME NEW w \in Workers, Crash(w) \/ Heartbeat(w)
      PROVE  Heartbeat(w) \/ UNCHANGED attempt
  BY <1>2 DEF Crash, Heartbeat
<1>3. ASSUME NEW o \in Operators, OperatorCall(o) \/ OperatorStep(o)
      PROVE  UNCHANGED attempt
  BY <1>3 DEF OperatorCall, OperatorStep, CancelJob, CancelItem, Settle, SkipHuman, PrepareHuman, OpenChallenge,
              ReadItem, WriteItem, SavePrepared, CreateRequest, SaveBreaker
<1>4. ASSUME Time PROVE (\E a \in Attempts : LeaseLapse(a)) \/ UNCHANGED attempt
  BY <1>4 DEF Time, LeaseLapse, CircuitLapse
<1>5. CASE UNCHANGED vars
  BY <1>5 DEF vars
<1>6. QED BY <1>1, <1>2, <1>3, <1>4, <1>5 DEF Next

\* Requests change only by a creation, a preparation, a skip or a settlement.
LEMMA HumanWriters ==
    ASSUME [Next]_vars
    PROVE  \/ UNCHANGED human
           \/ \E w \in Workers : Park(w)
           \/ \E o \in Operators :
                 \/ SavePrepared(o) \/ CreateRequest(o)
                 \/ \E h \in Requests :
                       SkipHuman(o, h) \/ \E cmd \in {"unblock", "retry"} : Settle(o, h, cmd)
<1>1. ASSUME NEW w \in Workers, WorkerStep(w)
      PROVE  Park(w) \/ UNCHANGED human
  BY <1>1 DEF WorkerStep, TickStart, DecideDispatch, DecideWait, SaveWake, Claim, ClaimRejected,
              Begin, Finish, FinishRejected, OpenBreaker, ListHumans, Commit
<1>2. ASSUME NEW w \in Workers, Crash(w) \/ Heartbeat(w)
      PROVE  UNCHANGED human
  BY <1>2 DEF Crash, Heartbeat
<1>3. ASSUME NEW o \in Operators, OperatorCall(o) \/ OperatorStep(o)
      PROVE  \/ (\E h \in Requests : \E cmd \in {"unblock", "retry"} : Settle(o, h, cmd))
               \/ (\E h \in Requests : SkipHuman(o, h))
               \/ SavePrepared(o)
               \/ CreateRequest(o)
               \/ UNCHANGED human
  BY <1>3 DEF OperatorCall, OperatorStep, CancelJob, CancelItem, PrepareHuman, OpenChallenge, ReadItem, WriteItem,
              SaveBreaker
<1>4. ASSUME Time PROVE UNCHANGED human
  BY <1>4 DEF Time, LeaseLapse, CircuitLapse
<1>5. CASE UNCHANGED vars
  BY <1>5 DEF vars
<1>6. QED BY <1>1, <1>2, <1>3, <1>4, <1>5 DEF Next

\* The job row changes only by a saved wake time, a commit or a cancel.
LEMMA JobWriters ==
    ASSUME [Next]_vars
    PROVE  \/ UNCHANGED job
           \/ \E w \in Workers : SaveWake(w) \/ Commit(w)
           \/ \E o \in Operators : CancelJob(o)
<1>1. ASSUME NEW w \in Workers, WorkerStep(w)
      PROVE  SaveWake(w) \/ Commit(w) \/ UNCHANGED job
  BY <1>1 DEF WorkerStep, TickStart, DecideDispatch, DecideWait, Claim, ClaimRejected, Begin,
              Finish, FinishRejected, OpenBreaker, ListHumans, Park
<1>2. ASSUME NEW w \in Workers, Crash(w) \/ Heartbeat(w)
      PROVE  UNCHANGED job
  BY <1>2 DEF Crash, Heartbeat
<1>3. ASSUME NEW o \in Operators, OperatorCall(o) \/ OperatorStep(o)
      PROVE  \/ CancelJob(o)
               \/ UNCHANGED job
  BY <1>3 DEF OperatorCall, OperatorStep, CancelItem, Settle, SkipHuman, PrepareHuman, OpenChallenge, ReadItem,
              WriteItem, SavePrepared, CreateRequest, SaveBreaker
<1>4. ASSUME Time PROVE UNCHANGED job
  BY <1>4 DEF Time, LeaseLapse, CircuitLapse
<1>5. CASE UNCHANGED vars
  BY <1>5 DEF vars
<1>6. QED BY <1>1, <1>2, <1>3, <1>4, <1>5 DEF Next

----------------------------------------------------------------------------
(* Type correctness.                                                       *)

\* A process between two calls is in a state of its type.
LEMMA RestingStates == Idle \in WorkerStates /\ AtRest \in OperatorStates
  BY DEF Idle, AtRest, WorkerStates, OperatorStates, NoJob, NoRow, JobRows, Lifecycles,
         Wakes, Rows, Statuses, Checkpoints, Outcomes, Verdicts, Commands

\* The reducer returns a row.
LEMMA ReducedIsRow ==
    ASSUME NEW row \in Rows, NEW c \in Commands, NEW cp \in Checkpoints
    PROVE  Reduced(row, c, cp) \in Rows
  BY DEF Reduced, Rows, Commands, Checkpoints, Statuses, To

\* The initial rows have their types.
LEMMA InitType == Init => TypeOK
  BY RestingStates, CallsAreCounted
  DEF Init, TypeOK, NoJob, JobRows, Lifecycles, Wakes, Rows, Statuses, Checkpoints,
      AttemptRows, Verdicts, HumanRows, OpenStatuses, Intents

\* Assigning a value of its type to one field of a process's state or of a row
\* keeps the type.
LEMMA WorkerField ==
    ASSUME NEW s \in WorkerStates
    PROVE  /\ \A pc \in {"idle", "decide", "wake", "claim", "begin", "run",
                         "breaker", "list", "park", "commit"} :
                 [s EXCEPT !.pc = pc] \in WorkerStates
           /\ \A i \in Items : [s EXCEPT !.item = i] \in WorkerStates
           /\ \A a \in Attempts : [s EXCEPT !.att = a] \in WorkerStates
           /\ \A j \in JobRows : [s EXCEPT !.job = j] \in WorkerStates
           /\ \A n \in Wakes : [s EXCEPT !.wake = n] \in WorkerStates
           /\ \A r \in Rows : [s EXCEPT !.row = r] \in WorkerStates
           /\ \A d \in Requests \cup {None} : [s EXCEPT !.dup = d] \in WorkerStates
           /\ \A c \in Outcomes : [s EXCEPT !.outcome = c] \in WorkerStates
           /\ \A k \in Resources \cup {None} : [s EXCEPT !.key = k] \in WorkerStates
           /\ \A v \in Verdicts : [s EXCEPT !.verdict = v] \in WorkerStates
  BY DEF WorkerStates

\* The same for an operator's state.
LEMMA OperatorField ==
    ASSUME NEW s \in OperatorStates
    PROVE  /\ \A pc \in {"idle", "read", "write", "create", "breaker", "prepare"} :
                 [s EXCEPT !.pc = pc] \in OperatorStates
           /\ \A c \in Commands : [s EXCEPT !.cmd = c] \in OperatorStates
           /\ \A i \in Items \cup {None} : [s EXCEPT !.item = i] \in OperatorStates
           /\ \A r \in Rows : [s EXCEPT !.row = r] \in OperatorStates
           /\ \A k \in Resources \cup {None} : [s EXCEPT !.key = k] \in OperatorStates
           /\ \A h \in Requests \cup {None} : [s EXCEPT !.req = h] \in OperatorStates
  BY DEF OperatorStates

\* The same for the status of a request.
LEMMA HumanField ==
    ASSUME NEW row \in HumanRows,
           NEW st \in {"unused", "resolved", "expired", "skipped"} \cup OpenStatuses
    PROVE  [row EXCEPT !.status = st] \in HumanRows
  BY DEF HumanRows

\* Every step keeps the types; a commit and an operator's write need to know
\* what the process is writing.
LEMMA TypeStep ==
    ASSUME TypeOK, OwnAttempt, RequestsNameItems, OperatorKnows, WorkerKnows, [Next]_vars
    PROVE  TypeOK'
<1>. USE DEF TypeOK
<1>1. ASSUME NEW w \in Workers, TickStart(w) PROVE TypeOK'
  <2>1. [worker[w] EXCEPT !.pc = "decide", !.job = job] \in WorkerStates
    BY WorkerField
  <2>2. worker' = [worker EXCEPT ![w] = [worker[w] EXCEPT !.pc = "decide", !.job = job]]
    BY <1>1 DEF TickStart
  <2>3. QED BY <1>1, <2>1, <2>2 DEF TickStart
<1>2. ASSUME NEW w \in Workers, DecideDispatch(w) PROVE TypeOK'
  <2>1. PICK i \in Items :
           worker' = [worker EXCEPT ![w] = [worker[w] EXCEPT !.pc = "claim", !.item = i]]
    BY <1>2 DEF DecideDispatch
  <2>2. [worker[w] EXCEPT !.pc = "claim", !.item = i] \in WorkerStates
    BY WorkerField
  <2>3. QED BY <1>2, <2>1, <2>2 DEF DecideDispatch
<1>3. ASSUME NEW w \in Workers, DecideWait(w) PROVE TypeOK'
  <2>1. NextWake(worker[w].job) \in Wakes
    BY DEF NextWake, Wakes
  <2>2. [worker[w] EXCEPT !.pc = "wake", !.wake = NextWake(worker[w].job)] \in WorkerStates
    BY <2>1, WorkerField
  <2>3. worker' \in [Workers -> WorkerStates]
    BY <1>3, <2>2, RestingStates DEF DecideWait
  <2>4. QED BY <1>3, <2>3 DEF DecideWait
<1>4. ASSUME NEW w \in Workers, SaveWake(w) PROVE TypeOK'
  BY <1>4, RestingStates DEF SaveWake, WorkerStates, JobRows
<1>5. ASSUME NEW w \in Workers, Claim(w) PROVE TypeOK'
  <2>1. PICK a \in Attempts :
           /\ attempt' = [attempt EXCEPT ![a] = [status |-> "running", item |-> worker[w].item,
                                                live |-> TRUE, verdict |-> "none"]]
           /\ worker' = [worker EXCEPT ![w] = [worker[w] EXCEPT !.pc = "begin", !.att = a]]
    BY <1>5 DEF Claim
  <2>2. [worker[w] EXCEPT !.pc = "begin", !.att = a] \in WorkerStates
    BY WorkerField
  <2>3. attempt' \in [Attempts -> AttemptRows]
    BY <2>1 DEF AttemptRows, Verdicts, WorkerStates
  <2>4. item' \in [Items -> Rows]
    <3>1. \A i \in Items : [item[i] EXCEPT !.status = "leased"] \in Rows
      BY DEF Rows, Statuses
    <3>2. item' = [item EXCEPT ![worker[w].item] = [@ EXCEPT !.status = "leased"]]
      BY <1>5 DEF Claim
    <3>3. QED BY <3>1, <3>2
  <2>5. QED BY <1>5, <2>1, <2>2, <2>3, <2>4 DEF Claim
<1>6. ASSUME NEW w \in Workers, ClaimRejected(w) PROVE TypeOK'
  BY <1>6, RestingStates DEF ClaimRejected
<1>7. ASSUME NEW w \in Workers, Begin(w) PROVE TypeOK'
  <2>1. worker[w].item \in Items
    BY <1>7 DEF Begin, WorkerKnows, Informed, Executing
  <2>2. [worker[w] EXCEPT !.pc = "run", !.row = item[worker[w].item]] \in WorkerStates
    BY <2>1, WorkerField
  <2>3. worker' = [worker EXCEPT ![w] = [worker[w] EXCEPT !.pc = "run", !.row = item[worker[w].item]]]
    BY <1>7 DEF Begin
  <2>4. QED BY <1>7, <2>2, <2>3 DEF Begin
<1>8. ASSUME NEW w \in Workers, NEW outcome \in Outcomes \ {"none"},
             NEW key \in Resources \cup {None}, NEW verdict \in Verdicts,
             Finish(w, outcome, key, verdict)
      PROVE TypeOK'
  <2>1. ASSUME NEW pc \in {"commit", "breaker", "list"}
        PROVE  [worker[w] EXCEPT !.pc = pc, !.outcome = outcome, !.key = key,
                                 !.verdict = verdict] \in WorkerStates
    <3>1. [worker[w] EXCEPT !.pc = pc] \in WorkerStates
      BY WorkerField
    <3>2. [worker[w] EXCEPT !.pc = pc, !.outcome = outcome] \in WorkerStates
      BY <3>1, WorkerField
    <3>3. [worker[w] EXCEPT !.pc = pc, !.outcome = outcome, !.key = key] \in WorkerStates
      BY <3>2, WorkerField
    <3>4. QED BY <3>3, WorkerField
  <2>2. worker' \in [Workers -> WorkerStates]
    BY <1>8, <2>1 DEF Finish
  <2>3. QED BY <1>8, <2>2 DEF Finish
<1>9. ASSUME NEW w \in Workers, NEW outcome \in Outcomes, FinishRejected(w, outcome)
      PROVE TypeOK'
  BY <1>9, RestingStates DEF FinishRejected
<1>10. ASSUME NEW w \in Workers, OpenBreaker(w) PROVE TypeOK'
  <2>1. [worker[w] EXCEPT !.pc = "list"] \in WorkerStates
    BY WorkerField
  <2>2. QED BY <1>10, <2>1 DEF OpenBreaker, SaveOpenBreaker
<1>11. ASSUME NEW w \in Workers, ListHumans(w) PROVE TypeOK'
  <2>1. PICK d \in Requests \cup {None} :
           worker' = [worker EXCEPT ![w] = [worker[w] EXCEPT !.pc = "park", !.dup = d]]
    BY <1>11 DEF ListHumans
  <2>2. [worker[w] EXCEPT !.pc = "park", !.dup = d] \in WorkerStates
    BY WorkerField
  <2>3. QED BY <1>11, <2>1, <2>2 DEF ListHumans
<1>12. ASSUME NEW w \in Workers, Park(w) PROVE TypeOK'
  <2>1. worker[w].item \in Items
    BY <1>12 DEF Park, WorkerKnows, Informed, Executing
  <2>2. human' \in [Requests -> HumanRows]
    <3>1. /\ IntentOf[worker[w].item] \in Intents
          /\ worker[w].key \in Resources \cup {None}
      BY <2>1 DEF Intents, WorkerStates
    <3>2. [status |-> "waiting", item |-> worker[w].item, key |-> worker[w].key,
           intent |-> IntentOf[worker[w].item]] \in HumanRows
      BY <2>1, <3>1 DEF HumanRows, OpenStatuses
    <3>3. QED BY <1>12, <3>2 DEF Park, CreateUnlessListed
  <2>3. [worker[w] EXCEPT !.pc = "commit"] \in WorkerStates
    BY WorkerField
  <2>4. QED BY <1>12, <2>2, <2>3 DEF Park
<1>13. ASSUME NEW w \in Workers, Commit(w) PROVE TypeOK'
  <2>. DEFINE o == worker[w].outcome
  <2>1. o \in Outcomes \ {"none"} /\ worker[w].row \in Rows
    BY <1>13 DEF Commit, WorkerKnows, Informed, WorkerStates
  <2>2. CommandOf(o) \in Commands /\ CheckpointOf(o) \in Checkpoints
    BY <2>1 DEF CommandOf, CheckpointOf, Commands, Checkpoints, Outcomes
  <2>3. item' \in [Items -> Rows]
    BY <1>13, <2>1, <2>2, ReducedIsRow DEF Commit
  <2>4. attempt' \in [Attempts -> AttemptRows]
    <3>1. AttemptStatusOf(o) \in {"completed", "failed", "cancelled", "blocked"}
      BY <2>1 DEF AttemptStatusOf, Outcomes
    <3>2. worker[w].verdict \in Verdicts
      BY DEF WorkerStates
    <3>3. attempt' = [attempt EXCEPT ![worker[w].att] =
                        [@ EXCEPT !.status = AttemptStatusOf(o), !.verdict = worker[w].verdict]]
      BY <1>13 DEF Commit
    <3>4. \A a \in Attempts :
             [attempt[a] EXCEPT !.status = AttemptStatusOf(o), !.verdict = worker[w].verdict]
                \in AttemptRows
      BY <3>1, <3>2 DEF AttemptRows
    <3>5. QED BY <3>3, <3>4
  <2>5. job' \in JobRows
    BY <1>13 DEF Commit, CommittedJob, WorkerStates, JobRows, Lifecycles
  <2>6. worker' \in [Workers -> WorkerStates]
    BY <1>13, RestingStates DEF Commit
  <2>7. QED BY <1>13, <2>3, <2>4, <2>5, <2>6 DEF Commit
<1>14. ASSUME NEW w \in Workers, Crash(w) PROVE TypeOK'
  BY <1>14, RestingStates DEF Crash
<1>15. ASSUME NEW w \in Workers, Heartbeat(w) PROVE TypeOK'
  BY <1>15 DEF Heartbeat, AttemptRows
<1>16. ASSUME NEW a \in Attempts, LeaseLapse(a) PROVE TypeOK'
  BY <1>16 DEF LeaseLapse, AttemptRows
<1>17. ASSUME NEW k \in Resources, CircuitLapse(k) PROVE TypeOK'
  BY <1>17 DEF CircuitLapse
<1>18. ASSUME NEW o \in Operators, CancelJob(o) PROVE TypeOK'
  BY <1>18 DEF CancelJob, JobRows, Lifecycles, Rows, Statuses
<1>19. ASSUME NEW o \in Operators, NEW i \in Items, CancelItem(o, i) PROVE TypeOK'
  <2>1. "cancel" \in Commands
    BY DEF Commands
  <2>2. [AtRest EXCEPT !.pc = "write", !.cmd = "cancel"] \in OperatorStates
    BY <2>1, RestingStates, OperatorField
  <2>3. [AtRest EXCEPT !.pc = "write", !.cmd = "cancel", !.item = i, !.row = item[i]]
           \in OperatorStates
    BY <2>2, OperatorField
  <2>4. QED BY <1>19, <2>3 DEF CancelItem
<1>20. ASSUME NEW o \in Operators, NEW h \in Requests, NEW cmd \in {"unblock", "retry"},
              Settle(o, h, cmd)
       PROVE TypeOK'
  <2>1. operator' \in [Operators -> OperatorStates]
    <3>1. human[h].item \in Items \cup {None} /\ cmd \in Commands
      BY DEF HumanRows, Commands
    <3>2. [AtRest EXCEPT !.pc = "read", !.cmd = cmd, !.item = human[h].item] \in OperatorStates
      BY <3>1, RestingStates, OperatorField
    <3>3. QED BY <1>20, <3>2 DEF Settle
  <2>2. human' \in [Requests -> HumanRows]
    <3>1. [human[h] EXCEPT !.status = "resolved"] \in HumanRows
      BY HumanField
    <3>2. QED BY <1>20, <3>1 DEF Settle
  <2>3. QED BY <1>20, <2>1, <2>2 DEF Settle
<1>21. ASSUME NEW o \in Operators, ReadItem(o) PROVE TypeOK'
  <2>1. operator[o].item \in Items
    BY <1>21 DEF ReadItem, OperatorKnows, Entitled
  <2>2. [operator[o] EXCEPT !.pc = "write", !.row = item[operator[o].item]] \in OperatorStates
    BY <2>1, OperatorField
  <2>3. operator' \in [Operators -> OperatorStates]
    BY <1>21, <2>2, RestingStates DEF ReadItem
  <2>4. QED BY <1>21, <2>3 DEF ReadItem
<1>22. ASSUME NEW o \in Operators, WriteItem(o) PROVE TypeOK'
  <2>1. /\ operator[o].item \in Items
        /\ operator[o].row \in Rows
        /\ operator[o].cmd \in Commands
    BY <1>22 DEF WriteItem, OperatorKnows, Entitled, OperatorStates, Commands
  <2>2. "challenge" \in Checkpoints
    BY DEF Checkpoints
  <2>3. item' \in [Items -> Rows]
    BY <1>22, <2>1, <2>2, ReducedIsRow DEF WriteItem
  <2>4. QED BY <1>22, <2>3, RestingStates DEF WriteItem
<1>23. ASSUME NEW o \in Operators, NEW h \in Requests, SkipHuman(o, h) PROVE TypeOK'
  <2>1. [human[h] EXCEPT !.status = "skipped"] \in HumanRows
    BY HumanField
  <2>2. human' \in [Requests -> HumanRows]
    BY <1>23, <2>1 DEF SkipHuman
  <2>3. calls' \in Nat
    BY <1>23 DEF SkipHuman
  <2>4. QED BY <1>23, <2>2, <2>3 DEF SkipHuman
<1>24. ASSUME NEW o \in Operators, NEW h \in Requests, PrepareHuman(o, h) PROVE TypeOK'
  <2>1. [AtRest EXCEPT !.pc = "prepare", !.req = h] \in OperatorStates
    BY RestingStates, OperatorField
  <2>2. QED BY <1>24, <2>1 DEF PrepareHuman
<1>25. ASSUME NEW o \in Operators, SavePrepared(o) PROVE TypeOK'
  BY <1>25, RestingStates, HumanField DEF SavePrepared, OpenStatuses
<1>26. ASSUME NEW o \in Operators, NEW i \in Items, NEW k \in Resources, OpenChallenge(o, i, k)
       PROVE TypeOK'
  <2>1. PICK d \in Requests \cup {None} :
           operator' = [operator EXCEPT ![o] =
                          [AtRest EXCEPT !.pc = "create", !.cmd = "block", !.item = i,
                                         !.key = k, !.req = d]]
    BY <1>26 DEF OpenChallenge
  <2>2. [AtRest EXCEPT !.pc = "create", !.cmd = "block", !.item = i, !.key = k, !.req = d]
           \in OperatorStates
    <3>1. "block" \in Commands
      BY DEF Commands
    <3>2. [AtRest EXCEPT !.pc = "create", !.cmd = "block", !.item = i] \in OperatorStates
      BY <3>1, RestingStates, OperatorField
    <3>3. QED BY <3>2, OperatorField
  <2>3. QED BY <1>26, <2>1, <2>2 DEF OpenChallenge
<1>27. ASSUME NEW o \in Operators, CreateRequest(o) PROVE TypeOK'
  <2>1. human' \in [Requests -> HumanRows]
    <3>1. /\ operator[o].item \in Items \cup {None}
          /\ operator[o].key \in Resources \cup {None}
          /\ "none" \in Intents
      BY DEF OperatorStates, Intents
    <3>2. [status |-> "waiting", item |-> operator[o].item, key |-> operator[o].key,
           intent |-> "none"] \in HumanRows
      BY <3>1 DEF HumanRows, OpenStatuses
    <3>3. QED BY <1>27, <3>2 DEF CreateRequest, CreateUnlessListed
  <2>2. /\ [operator[o] EXCEPT !.pc = "breaker"] \in OperatorStates
        /\ [operator[o] EXCEPT !.pc = "read"] \in OperatorStates
    BY OperatorField
  <2>3. operator' \in [Operators -> OperatorStates]
    BY <1>27, <2>2 DEF CreateRequest
  <2>4. QED BY <1>27, <2>1, <2>3 DEF CreateRequest
<1>28. ASSUME NEW o \in Operators, SaveBreaker(o) PROVE TypeOK'
  BY <1>28, OperatorField DEF SaveBreaker, SaveOpenBreaker
<1>29. CASE UNCHANGED vars
  BY <1>29 DEF vars
<1>30. ASSUME NEW w \in Workers, WorkerStep(w) PROVE TypeOK'
  BY <1>1, <1>2, <1>3, <1>4, <1>5, <1>6, <1>7, <1>8, <1>9, <1>10, <1>11, <1>12, <1>13, <1>30
  DEF WorkerStep
<1>31. ASSUME NEW o \in Operators, OperatorCall(o) \/ OperatorStep(o) PROVE TypeOK'
  BY <1>18, <1>19, <1>20, <1>21, <1>22, <1>23, <1>24, <1>25, <1>26, <1>27, <1>28, <1>31
  DEF OperatorCall, OperatorStep
<1>32. QED
  BY <1>14, <1>15, <1>16, <1>17, <1>29, <1>30, <1>31 DEF Next, Time

----------------------------------------------------------------------------
(* Evidence never goes away.                                               *)

\* A committed attempt keeps its row.
LEMMA FinalAttempts ==
    ASSUME TypeOK, OwnAttempt, [Next]_vars,
           NEW a \in Attempts, attempt[a].status \notin {"unused", "running"}
    PROVE  attempt'[a] = attempt[a]
<1>1. CASE UNCHANGED attempt
  BY <1>1
<1>2. ASSUME NEW w \in Workers, Claim(w) PROVE attempt'[a] = attempt[a]
  BY <1>2 DEF Claim, Fresh, TypeOK
<1>3. ASSUME NEW w \in Workers, Commit(w) PROVE attempt'[a] = attempt[a]
  BY <1>3 DEF Commit, TypeOK
<1>4. ASSUME NEW w \in Workers, Heartbeat(w) PROVE attempt'[a] = attempt[a]
  BY <1>4 DEF Heartbeat, TypeOK
<1>5. ASSUME NEW b \in Attempts, LeaseLapse(b) PROVE attempt'[a] = attempt[a]
  BY <1>5 DEF LeaseLapse, TypeOK
<1>6. QED BY <1>1, <1>2, <1>3, <1>4, <1>5, AttemptWriters

\* Once an item was completed by an attempt it stays so, and so does a verdict.
LEMMA EvidenceStays ==
    ASSUME TypeOK, OwnAttempt, [Next]_vars
    PROVE  /\ \A i \in Items : CompletedOn(i) # {} => CompletedOn(i)' # {}
           /\ \A i \in Items : DepsCompleted(i) => DepsCompleted(i)'
           /\ Judged => Judged'
<1>1. \A i \in Items : CompletedOn(i) # {} => CompletedOn(i)' # {}
  BY FinalAttempts DEF CompletedOn
<1>2. \A i \in Items : Deps[i] \subseteq Items
  BY DepsAreItems
<1>3. QED BY <1>1, <1>2, FinalAttempts DEF DepsCompleted, Judged

\* A request that exists goes on naming its item.
LEMMA RequestsStay ==
    ASSUME TypeOK, WorkerKnows, OperatorKnows, RequestsNameItems, [Next]_vars
    PROVE  /\ \A h \in Requests : human[h].status # "unused" =>
                 human'[h].status # "unused" /\ human'[h].item = human[h].item
           /\ RequestsNameItems'
<1>. DEFINE Stays ==
       /\ \A h \in Requests : human[h].status # "unused" =>
             human'[h].status # "unused" /\ human'[h].item = human[h].item
       /\ RequestsNameItems'
<1>1. CASE UNCHANGED human
  BY <1>1 DEF RequestsNameItems
<1>2. ASSUME NEW w \in Workers, Park(w) PROVE Stays
  BY <1>2 DEF Park, CreateUnlessListed, TypeOK, RequestsNameItems, WorkerKnows, Informed, Executing
<1>3. ASSUME NEW o \in Operators, CreateRequest(o) PROVE Stays
  BY <1>3 DEF CreateRequest, CreateUnlessListed, TypeOK, RequestsNameItems, OperatorKnows, Entitled
<1>4. ASSUME NEW o \in Operators, SavePrepared(o) PROVE Stays
  BY <1>4 DEF SavePrepared, TypeOK, HumanRows, RequestsNameItems, OperatorKnows, Entitled
<1>5. ASSUME NEW o \in Operators, NEW h \in Requests, SkipHuman(o, h) PROVE Stays
  BY <1>5 DEF SkipHuman, TypeOK, HumanRows, RequestsNameItems
<1>6. ASSUME NEW o \in Operators, NEW h \in Requests, NEW cmd \in {"unblock", "retry"},
             Settle(o, h, cmd)
      PROVE Stays
  BY <1>6 DEF Settle, TypeOK, HumanRows, RequestsNameItems
<1>7. QED BY <1>1, <1>2, <1>3, <1>4, <1>5, <1>6, HumanWriters

\* An item that some request names goes on being named.
LEMMA HasRequestStays ==
    ASSUME TypeOK, WorkerKnows, OperatorKnows, RequestsNameItems, [Next]_vars,
           NEW i \in Items, HasRequest(i)
    PROVE  HasRequest(i)'
  BY RequestsStay DEF HasRequest

----------------------------------------------------------------------------
(* Leases and attempts.                                                    *)

\* A step of one worker leaves the other workers' states alone.
LEMMA OneWorkerAtATime ==
    ASSUME TypeOK, NEW u \in Workers, NEW v \in Workers, u # v, WorkerStep(u) \/ Crash(u)
    PROVE  worker'[v] = worker[v]
<1>1. CASE Crash(u)
  BY <1>1 DEF Crash, TypeOK
<1>2. CASE TickStart(u) \/ DecideDispatch(u) \/ DecideWait(u) \/ SaveWake(u) \/ Claim(u)
  BY <1>2 DEF TickStart, DecideDispatch, DecideWait, SaveWake, Claim, TypeOK
<1>3. CASE ClaimRejected(u) \/ Begin(u) \/ OpenBreaker(u) \/ ListHumans(u) \/ Park(u) \/ Commit(u)
  BY <1>3 DEF ClaimRejected, Begin, OpenBreaker, ListHumans, Park, Commit, TypeOK
<1>4. ASSUME NEW outcome \in Outcomes, NEW key \in Resources \cup {None}, NEW verdict \in Verdicts,
             Finish(u, outcome, key, verdict)
      PROVE  worker'[v] = worker[v]
  BY <1>4 DEF Finish, TypeOK
<1>5. ASSUME NEW outcome \in Outcomes, FinishRejected(u, outcome)
      PROVE  worker'[v] = worker[v]
  BY <1>5 DEF FinishRejected, TypeOK
<1>6. QED BY <1>1, <1>2, <1>3, <1>4, <1>5 DEF WorkerStep

\* A worker starts executing by a claim and keeps its item and attempt until
\* its tick is over.
LEMMA ExecutingWorkers ==
    ASSUME TypeOK, [Next]_vars, NEW v \in Workers, Executing(v)'
    PROVE  \/ Claim(v)
           \/ /\ Executing(v) /\ ~Commit(v)
              /\ worker'[v].att = worker[v].att
              /\ worker'[v].item = worker[v].item
<1>. DEFINE Kept == /\ Executing(v) /\ ~Commit(v)
                    /\ worker'[v].att = worker[v].att
                    /\ worker'[v].item = worker[v].item
<1>0. worker[v] \in WorkerStates
  BY DEF TypeOK
<1>1. ASSUME worker'[v] = worker[v] PROVE Kept
  BY <1>1, <1>0 DEF Executing, Commit, Idle, TypeOK
<1>2. CASE TickStart(v) \/ DecideDispatch(v) \/ DecideWait(v) \/ SaveWake(v) \/ ClaimRejected(v)
           \/ Commit(v) \/ Crash(v)
  <2>1. ASSUME NEW pc, ~(pc \in {"begin", "run", "breaker", "list", "park", "commit"}),
               worker'[v].pc = pc
        PROVE  FALSE
    BY <2>1 DEF Executing
  <2>2. CASE TickStart(v)
    BY <1>0, <2>1, <2>2 DEF TickStart, TypeOK, WorkerStates
  <2>3. CASE DecideDispatch(v)
    BY <1>0, <2>1, <2>3 DEF DecideDispatch, TypeOK, WorkerStates
  <2>4. CASE DecideWait(v)
    BY <1>0, <2>1, <2>4 DEF DecideWait, Idle, TypeOK, WorkerStates
  <2>5. CASE SaveWake(v) \/ ClaimRejected(v) \/ Commit(v) \/ Crash(v)
    BY <2>1, <2>5 DEF SaveWake, ClaimRejected, Commit, Crash, Idle, TypeOK
  <2>6. QED BY <1>2, <2>2, <2>3, <2>4, <2>5
<1>3. CASE Begin(v) \/ OpenBreaker(v) \/ ListHumans(v) \/ Park(v)
  BY <1>0, <1>3 DEF Begin, OpenBreaker, ListHumans, Park, Commit, Executing, TypeOK, WorkerStates
<1>4. ASSUME NEW outcome \in Outcomes, NEW key \in Resources \cup {None}, NEW verdict \in Verdicts,
             Finish(v, outcome, key, verdict)
      PROVE  Kept
  BY <1>0, <1>4 DEF Finish, Commit, Executing, TypeOK, WorkerStates
<1>5. ASSUME NEW outcome \in Outcomes, FinishRejected(v, outcome) PROVE FALSE
  BY <1>5 DEF FinishRejected, Executing, Idle, TypeOK
<1>6. ASSUME NEW u \in Workers, WorkerStep(u) \/ Crash(u), u # v PROVE Kept
  BY <1>1, <1>6, OneWorkerAtATime
<1>7. CASE WorkerStep(v) \/ Crash(v)
  BY <1>2, <1>3, <1>4, <1>5, <1>7 DEF WorkerStep
<1>8. ASSUME NEW u \in Workers, Heartbeat(u) PROVE Kept
  BY <1>1, <1>8 DEF Heartbeat
<1>9. ASSUME NEW o \in Operators, OperatorCall(o) \/ OperatorStep(o) PROVE Kept
  <2>1. UNCHANGED worker
    BY <1>9 DEF OperatorCall, OperatorStep, CancelJob, CancelItem, Settle, SkipHuman,
                PrepareHuman, OpenChallenge, ReadItem, WriteItem, SavePrepared,
                CreateRequest, SaveBreaker
  <2>2. QED BY <1>1, <2>1
<1>10. CASE Time
  BY <1>1, <1>10 DEF Time, LeaseLapse, CircuitLapse
<1>11. CASE UNCHANGED vars
  BY <1>1, <1>11 DEF vars
<1>12. QED BY <1>6, <1>7, <1>8, <1>9, <1>10, <1>11 DEF Next

\* A running attempt goes on running on its item until its own worker commits.
LEMMA RunningStays ==
    ASSUME TypeOK, [Next]_vars, NEW i \in Items, NEW a \in RunningOn(i)
    PROVE  a \in RunningOn(i)' \/ \E w \in Workers : Commit(w) /\ worker[w].att = a
<1>0. a \in Attempts /\ attempt[a].status = "running" /\ attempt[a].item = i
  BY DEF RunningOn
<1>. DEFINE Goal == a \in RunningOn(i)' \/ \E w \in Workers : Commit(w) /\ worker[w].att = a
<1>1. CASE UNCHANGED attempt
  BY <1>0, <1>1 DEF RunningOn
<1>2. ASSUME NEW w \in Workers, Claim(w) PROVE Goal
  BY <1>0, <1>2 DEF Claim, Fresh, RunningOn, TypeOK
<1>3. ASSUME NEW w \in Workers, Commit(w) PROVE Goal
  BY <1>0, <1>3 DEF Commit, RunningOn, TypeOK
<1>4. ASSUME NEW w \in Workers, Heartbeat(w) PROVE Goal
  BY <1>0, <1>4 DEF Heartbeat, RunningOn, TypeOK, AttemptRows
<1>5. ASSUME NEW b \in Attempts, LeaseLapse(b) PROVE Goal
  BY <1>0, <1>5 DEF LeaseLapse, RunningOn, TypeOK, AttemptRows
<1>6. QED BY <1>1, <1>2, <1>3, <1>4, <1>5, AttemptWriters

\* Attempts stay with the worker that claimed them.
LEMMA OwnAttemptStep ==
    ASSUME TypeOK, OwnAttempt, WorkerKnows, [Next]_vars
    PROVE  OwnAttempt'
<1>1. ASSUME NEW w \in Workers, Claim(w)
      PROVE  /\ (worker[w].att \in RunningOn(worker[w].item))'
             /\ attempt[worker'[w].att].status = "unused"
             /\ \A v \in Workers \ {w} : ~Claim(v)
  <2>1. PICK a \in Attempts :
           /\ Fresh(a)
           /\ attempt' = [attempt EXCEPT ![a] = [status |-> "running", item |-> worker[w].item,
                                                live |-> TRUE, verdict |-> "none"]]
           /\ worker' = [worker EXCEPT ![w] = [worker[w] EXCEPT !.pc = "begin", !.att = a]]
    BY <1>1 DEF Claim
  <2>2. worker[w] \in WorkerStates
    BY DEF TypeOK
  <2>3. worker'[w].att = a /\ worker'[w].item = worker[w].item
    BY <2>1, <2>2 DEF TypeOK, WorkerStates
  <2>4. \A v \in Workers \ {w} : worker'[v] = worker[v]
    BY <2>1 DEF TypeOK
  <2>5. \A v \in Workers : Claim(v) => worker'[v].pc = "begin" /\ worker[v].pc = "claim"
    BY DEF Claim, TypeOK, WorkerStates
  <2>6. QED BY <2>1, <2>3, <2>4, <2>5 DEF RunningOn, Fresh, TypeOK
<1>2. ASSUME NEW w \in Workers, Executing(w), ~Commit(w), Executing(w)',
             worker'[w].att = worker[w].att, worker'[w].item = worker[w].item
      PROVE  (worker[w].att \in RunningOn(worker[w].item))'
  <2>1. /\ worker[w].item \in Items
        /\ worker[w].att \in RunningOn(worker[w].item)
    BY <1>2 DEF WorkerKnows, Informed, OwnAttempt
  <2>2. ASSUME NEW u \in Workers, Commit(u), worker[u].att = worker[w].att PROVE FALSE
    BY <1>2, <2>2 DEF OwnAttempt, Commit, Executing
  <2>3. ASSUME NEW i \in Items, NEW a \in RunningOn(i), i = worker[w].item, a = worker[w].att
        PROVE  a \in RunningOn(i)'
    BY <2>2, <2>3, RunningStays
  <2>4. QED BY <1>2, <2>1, <2>3 DEF RunningOn
<1>3. ASSUME NEW w \in Workers, Executing(w)'
      PROVE  (worker[w].att \in RunningOn(worker[w].item))'
  BY <1>1, <1>2, <1>3, ExecutingWorkers
<1>4. ASSUME NEW w \in Workers, Executing(w)', NEW v \in Workers \ {w}, Executing(v)'
      PROVE  worker'[v].att # worker'[w].att
  <2>1. ASSUME NEW x \in Workers, NEW y \in Workers \ {x}, Claim(x), Executing(y)'
        PROVE  worker'[x].att # worker'[y].att
    <3>1. Executing(y) /\ worker'[y].att = worker[y].att
      BY <1>1, <2>1, ExecutingWorkers
    <3>2. attempt[worker[y].att].status = "running"
      BY <3>1 DEF OwnAttempt, RunningOn
    <3>3. QED BY <1>1, <2>1, <3>1, <3>2
  <2>2. CASE ~Claim(w) /\ ~Claim(v)
    BY <1>4, <2>2, ExecutingWorkers DEF OwnAttempt
  <2>3. QED BY <1>4, <2>1, <2>2
<1>5. QED BY <1>3, <1>4 DEF OwnAttempt, Executing

\* What a commit and an operator's write make of an item row.
LEMMA WrittenRows ==
    /\ \A row \in Rows, outcome \in Outcomes \ {"none"}, cp \in Checkpoints :
          LET st == Reduced(row, CommandOf(outcome), cp).status
          IN  /\ st \in {"done", "failed", "cancelled", "blocked"}
              /\ (st = "done") <=> (outcome = "completed")
              /\ (st = "failed") <=> (outcome = "failed")
              /\ (st = "blocked") <=> (outcome \in {"challenge", "blocked"})
    /\ \A row \in Rows, cmd \in {"cancel", "block", "unblock", "retry"}, cp \in Checkpoints :
          LET st == Reduced(row, cmd, cp).status
          IN  /\ st \in {"cancelled", "blocked", "ready"}
              /\ (st = "blocked") <=> (cmd = "block")
              /\ (st = "cancelled") <=> (cmd = "cancel")
  BY DEF Reduced, CommandOf, To, Commands, Outcomes

\* What an item row can become in a step, and by which action.
LEMMA ItemStep ==
    ASSUME IInv, [Next]_vars, NEW i \in Items, item'[i] # item[i]
    PROVE  \/ \E w \in Workers : Claim(w) /\ worker[w].item = i /\ item'[i].status = "leased"
           \/ \E w \in Workers :
                 /\ Commit(w) /\ worker[w].item = i
                 /\ item'[i] = Reduced(worker[w].row, CommandOf(worker[w].outcome),
                                       CheckpointOf(worker[w].outcome))
           \/ item'[i].status = "cancelled"
           \/ \E o \in Operators :
                 /\ WriteItem(o) /\ operator[o].item = i
                 /\ item'[i] = Reduced(operator[o].row, operator[o].cmd, "challenge")
<1>1. ASSUME NEW w \in Workers, Claim(w)
      PROVE  worker[w].item = i /\ item'[i].status = "leased"
  BY <1>1 DEF Claim, IInv, TypeOK, Rows
<1>2. ASSUME NEW w \in Workers, Commit(w)
      PROVE  /\ worker[w].item = i
             /\ item'[i] = Reduced(worker[w].row, CommandOf(worker[w].outcome),
                                   CheckpointOf(worker[w].outcome))
  BY <1>2 DEF Commit, IInv, TypeOK
<1>3. ASSUME NEW o \in Operators, CancelJob(o) PROVE item'[i].status = "cancelled"
  BY <1>3 DEF CancelJob, IInv, TypeOK, Rows
<1>4. ASSUME NEW o \in Operators, WriteItem(o)
      PROVE  /\ operator[o].item = i
             /\ item'[i] = Reduced(operator[o].row, operator[o].cmd, "challenge")
  BY <1>4 DEF WriteItem, IInv, TypeOK
<1>5. QED BY <1>1, <1>2, <1>3, <1>4, ItemWriters

\* A lease is written with its attempt and overwritten by whoever ends it.
LEMMA LeaseStep ==
    ASSUME IInv, [Next]_vars
    PROVE  LeaseHasRunner'
<1>. SUFFICES ASSUME NEW i \in Items, item'[i].status = "leased"
              PROVE  RunningOn(i)' # {}
  BY DEF LeaseHasRunner
<1>. USE DEF IInv
<1>1. ASSUME NEW w \in Workers, Commit(w)
      PROVE  /\ worker[w].outcome \in Outcomes \ {"none"} /\ worker[w].row \in Rows
             /\ CheckpointOf(worker[w].outcome) \in Checkpoints
             /\ worker[w].att \in RunningOn(worker[w].item)
             /\ item'[worker[w].item].status # "leased"
  <2>1. worker[w].outcome \in Outcomes \ {"none"} /\ worker[w].row \in Rows
    BY <1>1 DEF Commit, WorkerKnows, Informed, TypeOK, WorkerStates
  <2>2. CheckpointOf(worker[w].outcome) \in Checkpoints
    BY DEF CheckpointOf, Checkpoints
  <2>3. worker[w].item \in Items /\ worker[w].att \in RunningOn(worker[w].item)
    BY <1>1 DEF Commit, Executing, WorkerKnows, Informed, OwnAttempt
  <2>4. item'[worker[w].item] = Reduced(worker[w].row, CommandOf(worker[w].outcome),
                                        CheckpointOf(worker[w].outcome))
    BY <1>1, <2>3 DEF Commit, TypeOK
  <2>5. QED BY <2>1, <2>2, <2>3, <2>4, WrittenRows
<1>2. CASE item'[i] = item[i]
  <2>1. PICK a \in RunningOn(i) : TRUE
    BY <1>2 DEF LeaseHasRunner
  <2>2. ASSUME NEW w \in Workers, Commit(w), worker[w].att = a PROVE FALSE
    BY <1>1, <2>1, <2>2 DEF RunningOn
  <2>3. QED BY <2>1, <2>2, RunningStays
<1>3. CASE item'[i] # item[i]
  <2>1. PICK w \in Workers : Claim(w) /\ worker[w].item = i
    <3>1. ASSUME NEW w \in Workers, Commit(w), worker[w].item = i PROVE FALSE
      BY <1>1, <3>1
    <3>2. ASSUME NEW o \in Operators, WriteItem(o),
                 item'[i] = Reduced(operator[o].row, operator[o].cmd, "challenge")
          PROVE  FALSE
      <4>1. operator[o].row \in Rows /\ operator[o].cmd \in {"cancel", "block", "unblock", "retry"}
        BY <3>2 DEF WriteItem, OperatorKnows, Entitled, TypeOK, OperatorStates
      <4>2. "challenge" \in Checkpoints
        BY DEF Checkpoints
      <4>3. QED BY <3>2, <4>1, <4>2, WrittenRows
    <3>3. QED BY <1>3, <3>1, <3>2, ItemStep
  <2>2. QED BY <2>1 DEF Claim, RunningOn, TypeOK
<1>4. QED BY <1>2, <1>3

----------------------------------------------------------------------------
(* Completions and dependencies.                                           *)

\* Only a commit of a completed output makes an item done.
LEMMA DoneStep ==
    ASSUME IInv, [Next]_vars
    PROVE  DoneHasCompletion'
<1>. SUFFICES ASSUME NEW i \in Items, item'[i].status = "done"
              PROVE  CompletedOn(i)' # {}
  BY DEF DoneHasCompletion
<1>. USE DEF IInv
<1>1. CASE item'[i] = item[i]
  BY <1>1, EvidenceStays DEF DoneHasCompletion
<1>2. CASE item'[i] # item[i]
  <2>1. ASSUME NEW o \in Operators, WriteItem(o),
               item'[i] = Reduced(operator[o].row, operator[o].cmd, "challenge")
        PROVE  FALSE
    <3>1. operator[o].row \in Rows /\ operator[o].cmd \in {"cancel", "block", "unblock", "retry"}
      BY <2>1 DEF WriteItem, OperatorKnows, Entitled, TypeOK, OperatorStates
    <3>2. "challenge" \in Checkpoints
      BY DEF Checkpoints
    <3>3. QED BY <2>1, <3>1, <3>2, WrittenRows
  <2>2. PICK w \in Workers :
           /\ Commit(w) /\ worker[w].item = i
           /\ item'[i] = Reduced(worker[w].row, CommandOf(worker[w].outcome),
                                 CheckpointOf(worker[w].outcome))
    BY <1>2, <2>1, ItemStep
  <2>3. worker[w].outcome \in Outcomes \ {"none"} /\ worker[w].row \in Rows
    BY <2>2 DEF Commit, WorkerKnows, Informed, TypeOK, WorkerStates
  <2>4. CheckpointOf(worker[w].outcome) \in Checkpoints
    BY DEF CheckpointOf, Checkpoints
  <2>5. worker[w].outcome = "completed"
    BY <2>2, <2>3, <2>4, WrittenRows
  <2>6. worker[w].att \in RunningOn(i)
    BY <2>2 DEF Commit, Executing, OwnAttempt
  <2>7. QED BY <2>2, <2>5, <2>6 DEF Commit, AttemptStatusOf, RunningOn, CompletedOn, TypeOK, AttemptRows
<1>3. QED BY <1>1, <1>2

\* A job row is completed by a decisive commit or copied from one that was.
LEMMA CompletionStep ==
    ASSUME IInv, [Next]_vars
    PROVE  CompletionIsJudged'
<1>. USE DEF IInv
<1>. SUFFICES ASSUME job'.lifecycle = "completed" PROVE Judged'
  BY DEF CompletionIsJudged, Judged
<1>1. CASE UNCHANGED job
  BY <1>1, EvidenceStays DEF CompletionIsJudged, Judged
<1>2. ASSUME NEW w \in Workers, SaveWake(w) PROVE Judged'
  <2>1. worker[w].job.lifecycle = "completed"
    BY <1>2 DEF SaveWake, TypeOK, WorkerStates, JobRows
  <2>2. QED BY <2>1, EvidenceStays DEF WorkerKnows, Informed
<1>3. ASSUME NEW w \in Workers, Commit(w) PROVE Judged'
  <2>1. CASE worker[w].verdict = "decisive"
    <3>1. worker[w].outcome = "completed" /\ worker[w].att \in RunningOn(worker[w].item)
      BY <1>3, <2>1 DEF Commit, WorkerKnows, Informed, OwnAttempt, Executing
    <3>2. QED BY <1>3, <2>1, <3>1 DEF Commit, AttemptStatusOf, RunningOn, Judged, TypeOK, AttemptRows
  <2>2. CASE worker[w].verdict # "decisive"
    <3>1. worker[w].job.lifecycle = "completed"
      BY <1>3, <2>2 DEF Commit, CommittedJob, TypeOK, WorkerStates, JobRows
    <3>2. QED BY <3>1, EvidenceStays DEF WorkerKnows, Informed
  <2>3. QED BY <2>1, <2>2
<1>4. ASSUME NEW o \in Operators, CancelJob(o) PROVE FALSE
  BY <1>4 DEF CancelJob, TypeOK, JobRows
<1>5. QED BY <1>1, <1>2, <1>3, <1>4, JobWriters

\* Whoever makes an item startable knew that its dependencies are completed.
LEMMA StartedStep ==
    ASSUME IInv, [Next]_vars
    PROVE  StartedAfterDeps'
<1>. USE DEF IInv
<1>. SUFFICES ASSUME NEW i \in Items,
                     item'[i].status \in {"ready", "leased", "blocked", "done", "failed"}
              PROVE  DepsCompleted(i)'
  BY DEF StartedAfterDeps, DepsCompleted
<1>1. CASE item'[i] = item[i]
  BY <1>1, EvidenceStays DEF StartedAfterDeps, DepsCompleted
<1>2. ASSUME NEW w \in Workers, Claim(w) \/ Commit(w), worker[w].item = i
      PROVE  DepsCompleted(i)'
  <2>1. DepsCompleted(i)
    BY <1>2 DEF Claim, Commit, Executing, WorkerKnows, Informed
  <2>2. QED BY <2>1, EvidenceStays
<1>3. ASSUME NEW o \in Operators, WriteItem(o), operator[o].item = i,
             item'[i] = Reduced(operator[o].row, operator[o].cmd, "challenge")
      PROVE  DepsCompleted(i)'
  <2>1. operator[o].row \in Rows /\ operator[o].cmd \in {"cancel", "block", "unblock", "retry"}
    BY <1>3 DEF WriteItem, OperatorKnows, Entitled, TypeOK, OperatorStates
  <2>2. "challenge" \in Checkpoints
    BY DEF Checkpoints
  <2>3. operator[o].cmd # "cancel"
    BY <1>3, <2>1, <2>2, WrittenRows
  <2>4. DepsCompleted(i)
    BY <1>3, <2>3 DEF WriteItem, OperatorKnows, Entitled
  <2>5. QED BY <2>4, EvidenceStays
<1>4. QED BY <1>1, <1>2, <1>3, ItemStep

\* Whoever blocks an item on a challenge knew of a request that names it.
LEMMA ChallengeBlockStep ==
    ASSUME IInv, [Next]_vars
    PROVE  ChallengeBlockHasRequest'
<1>. USE DEF IInv
<1>. SUFFICES ASSUME NEW i \in Items,
                     item'[i].status = "blocked", item'[i].checkpoint = "challenge"
              PROVE  HasRequest(i)'
  BY DEF ChallengeBlockHasRequest, HasRequest
<1>1. HasRequest(i) => HasRequest(i)'
  BY HasRequestStays
<1>2. CASE item'[i] = item[i]
  BY <1>1, <1>2 DEF ChallengeBlockHasRequest, HasRequest
<1>3. ASSUME NEW w \in Workers, Claim(w), item'[i].status = "leased"
      PROVE  FALSE
  BY <1>3
<1>4. ASSUME NEW w \in Workers, Commit(w), worker[w].item = i,
             item'[i] = Reduced(worker[w].row, CommandOf(worker[w].outcome),
                                CheckpointOf(worker[w].outcome))
      PROVE  HasRequest(i)
  <2>1. worker[w].outcome \in Outcomes \ {"none"} /\ worker[w].row \in Rows
    BY <1>4 DEF Commit, WorkerKnows, Informed, TypeOK, WorkerStates
  <2>2. CheckpointOf(worker[w].outcome) \in Checkpoints
    BY DEF CheckpointOf, Checkpoints
  <2>3. worker[w].outcome \in {"challenge", "blocked"}
    BY <1>4, <2>1, <2>2, WrittenRows
  <2>4. worker[w].outcome = "challenge"
    BY <1>4, <2>3 DEF Reduced, CommandOf, CheckpointOf
  <2>5. QED BY <1>4, <2>4 DEF Commit, WorkerKnows, Informed
<1>5. ASSUME NEW o \in Operators, WriteItem(o), operator[o].item = i,
             item'[i] = Reduced(operator[o].row, operator[o].cmd, "challenge")
      PROVE  HasRequest(i)
  <2>1. operator[o].row \in Rows /\ operator[o].cmd \in {"cancel", "block", "unblock", "retry"}
    BY <1>5 DEF WriteItem, OperatorKnows, Entitled, TypeOK, OperatorStates
  <2>2. "challenge" \in Checkpoints
    BY DEF Checkpoints
  <2>3. operator[o].cmd = "block"
    BY <1>5, <2>1, <2>2, WrittenRows
  <2>4. QED BY <1>5, <2>3 DEF WriteItem, OperatorKnows, Entitled
<1>6. QED BY <1>1, <1>2, <1>3, <1>4, <1>5, ItemStep

----------------------------------------------------------------------------
(* What the processes know.                                                *)

\* A listed duplicate is a request that names the item.
LEMMA DuplicatesNameTheItem ==
    ASSUME TypeOK, NEW i \in Items, NEW k, NEW n, NEW d \in Requests \cup {None},
           ListedDuplicate(d, i, k, n), d # None
    PROVE  HasRequest(i)
  BY DEF ListedDuplicate, Duplicates, Open, OpenStatuses, HasRequest

\* After an insertion some request names the item.
LEMMA CreationNamesTheItem ==
    ASSUME TypeOK, NEW i \in Items, NEW k, NEW n, NEW d,
           CreateUnlessListed(d, i, k, n), d # None => HasRequest(i)
    PROVE  HasRequest(i)'
  BY DEF CreateUnlessListed, HasRequest, TypeOK

\* What a worker read stays true of the rows until its tick is over.
LEMMA WorkerKnowsStep ==
    ASSUME IInv, [Next]_vars
    PROVE  WorkerKnows'
<1>. USE DEF IInv
<1>. SUFFICES ASSUME NEW w \in Workers PROVE Informed(w)'
  BY DEF WorkerKnows
<1>0. Informed(w) /\ worker[w] \in WorkerStates
  BY DEF WorkerKnows, TypeOK
<1>1. Judged => Judged'
  BY EvidenceStays
<1>2. \A i \in Items : DepsCompleted(i) => DepsCompleted(i)'
  BY EvidenceStays
<1>3. \A i \in Items : HasRequest(i) => HasRequest(i)'
  BY HasRequestStays
<1>4. ASSUME worker'[w] = worker[w] PROVE Informed(w)'
  BY <1>0, <1>1, <1>2, <1>3, <1>4 DEF Executing, Informed, TypeOK, WorkerStates
<1>5. CASE TickStart(w)
  <2>1. worker'[w] = [worker[w] EXCEPT !.pc = "decide", !.job = job]
    BY <1>5 DEF TickStart, TypeOK
  <2>2. QED BY <1>0, <1>1, <2>1 DEF CompletionIsJudged, Judged, Executing, Informed, WorkerStates
<1>6. CASE DecideDispatch(w)
  <2>1. PICK i \in Items :
           Pick(i) /\ worker'[w] = [worker[w] EXCEPT !.pc = "claim", !.item = i]
    BY <1>6 DEF DecideDispatch, TypeOK
  <2>2. DepsCompleted(i)
    BY <2>1, DepsAreItems
    DEF Pick, Candidates, DepsDone, DepsCompleted, DoneHasCompletion, StartedAfterDeps
  <2>3. QED BY <1>0, <1>1, <1>2, <2>1, <2>2 DEF Executing, Informed, WorkerStates
<1>7. ASSUME worker'[w] = Idle PROVE Informed(w)'
  BY <1>7 DEF Idle, NoJob, Executing, Informed
<1>8. CASE DecideWait(w)
  <2>1. CASE worker'[w] = [worker[w] EXCEPT !.pc = "wake", !.wake = NextWake(worker[w].job)]
    BY <1>0, <1>1, <2>1 DEF Executing, Informed, WorkerStates
  <2>2. QED BY <1>7, <1>8, <2>1 DEF DecideWait, TypeOK
<1>9. CASE SaveWake(w) \/ ClaimRejected(w) \/ Commit(w) \/ Crash(w)
  BY <1>7, <1>9 DEF SaveWake, ClaimRejected, Commit, Crash, TypeOK
<1>10. CASE Claim(w)
  <2>1. PICK a \in Attempts : worker'[w] = [worker[w] EXCEPT !.pc = "begin", !.att = a]
    BY <1>10 DEF Claim, TypeOK
  <2>2. QED BY <1>0, <1>1, <1>2, <1>10, <2>1 DEF Claim, Executing, Informed, WorkerStates
<1>11. CASE Begin(w)
  <2>1. worker'[w] = [worker[w] EXCEPT !.pc = "run", !.row = item[worker[w].item]]
    BY <1>11 DEF Begin, TypeOK
  <2>2. worker'[w].pc = "run" /\ worker'[w].item = worker[w].item /\ worker'[w].job = worker[w].job
    BY <1>0, <2>1 DEF WorkerStates
  <2>3. worker[w].item \in Items /\ DepsCompleted(worker[w].item)
    BY <1>0, <1>11 DEF Begin, Executing, Informed
  <2>4. QED BY <1>0, <1>1, <1>2, <2>2, <2>3 DEF Executing, Informed
<1>12. ASSUME NEW outcome \in Outcomes \ {"none"}, NEW key \in Resources \cup {None},
              NEW verdict \in Verdicts, Finish(w, outcome, key, verdict)
       PROVE  Informed(w)'
  <2>1. PICK pc \in {"commit", "breaker", "list"} :
           /\ worker'[w] = [worker[w] EXCEPT !.pc = pc, !.outcome = outcome, !.key = key,
                                             !.verdict = verdict]
           /\ (pc = "commit") <=> (outcome # "challenge")
    BY <1>12 DEF Finish, TypeOK
  <2>2. /\ worker'[w].pc = pc /\ worker'[w].outcome = outcome /\ worker'[w].verdict = verdict
        /\ worker'[w].item = worker[w].item /\ worker'[w].job = worker[w].job
    BY <1>0, <2>1 DEF WorkerStates
  <2>3. worker[w].item \in Items /\ DepsCompleted(worker[w].item)
    BY <1>0, <1>12 DEF Finish, Executing, Informed
  <2>4. /\ verdict = "decisive" => outcome = "completed"
        /\ outcome = "challenge" => verdict = "none"
    BY <1>12 DEF Finish
  <2>5. QED BY <1>0, <1>1, <1>2, <2>1, <2>2, <2>3, <2>4 DEF Executing, Informed
<1>13. ASSUME NEW outcome \in Outcomes, FinishRejected(w, outcome) PROVE Informed(w)'
  BY <1>7, <1>13 DEF FinishRejected, TypeOK
<1>14. CASE OpenBreaker(w)
  <2>1. worker'[w] = [worker[w] EXCEPT !.pc = "list"]
    BY <1>14 DEF OpenBreaker, TypeOK
  <2>2. QED BY <1>0, <1>1, <1>2, <1>14, <2>1 DEF OpenBreaker, Executing, Informed, WorkerStates
<1>15. CASE ListHumans(w)
  <2>1. PICK d \in Requests \cup {None} :
           /\ ListedDuplicate(d, worker[w].item, worker[w].key, IntentOf[worker[w].item])
           /\ worker'[w] = [worker[w] EXCEPT !.pc = "park", !.dup = d]
    BY <1>15 DEF ListHumans, TypeOK
  <2>2. worker[w].item \in Items /\ DepsCompleted(worker[w].item)
    BY <1>0, <1>15 DEF ListHumans, Executing, Informed
  <2>3. d # None => HasRequest(worker[w].item)
    BY <2>1, <2>2, DuplicatesNameTheItem
  <2>4. worker[w].outcome = "challenge" /\ worker[w].verdict = "none"
    BY <1>0, <1>15 DEF ListHumans, Informed
  <2>5. /\ worker'[w].pc = "park" /\ worker'[w].dup = d /\ worker'[w].item = worker[w].item
        /\ worker'[w].job = worker[w].job /\ worker'[w].outcome = worker[w].outcome
        /\ worker'[w].verdict = worker[w].verdict
    BY <1>0, <2>1 DEF WorkerStates
  <2>6. QED BY <1>0, <1>1, <1>2, <1>3, <2>2, <2>3, <2>4, <2>5 DEF Executing, Informed
<1>16. CASE Park(w)
  <2>1. worker'[w] = [worker[w] EXCEPT !.pc = "commit"]
    BY <1>16 DEF Park, TypeOK
  <2>2. worker[w].item \in Items /\ DepsCompleted(worker[w].item)
    BY <1>0, <1>16 DEF Park, Executing, Informed
  <2>3. HasRequest(worker[w].item)'
    <3>1. PICK i \in Items, d \in Requests \cup {None}, k \in Resources \cup {None}, n \in Intents :
             i = worker[w].item /\ d = worker[w].dup /\ k = worker[w].key /\ n = IntentOf[i]
      BY <1>0, <2>2 DEF WorkerStates, Intents
    <3>2. CreateUnlessListed(d, i, k, n) /\ (d # None => HasRequest(i))
      BY <1>0, <1>16, <3>1 DEF Park, Informed
    <3>3. HasRequest(i)'
      BY <3>2, CreationNamesTheItem
    <3>4. worker'[w].item = i
      BY <1>0, <2>1, <3>1 DEF WorkerStates
    <3>5. QED BY <3>3, <3>4 DEF HasRequest
  <2>4. /\ worker'[w].pc = "commit" /\ worker'[w].item = worker[w].item
        /\ worker'[w].job = worker[w].job /\ worker'[w].outcome = worker[w].outcome
        /\ worker'[w].verdict = worker[w].verdict
    BY <1>0, <2>1 DEF WorkerStates
  <2>5. QED BY <1>0, <1>1, <1>2, <1>16, <2>2, <2>3, <2>4 DEF Park, Executing, Informed
<1>17. CASE WorkerStep(w) \/ Crash(w)
  BY <1>5, <1>6, <1>8, <1>9, <1>10, <1>11, <1>12, <1>13, <1>14, <1>15, <1>16, <1>17 DEF WorkerStep
<1>18. ASSUME NEW u \in Workers, u # w, WorkerStep(u) \/ Crash(u) PROVE Informed(w)'
  BY <1>4, <1>18, OneWorkerAtATime
<1>19. ASSUME NEW u \in Workers, Heartbeat(u) PROVE Informed(w)'
  BY <1>4, <1>19 DEF Heartbeat
<1>20. ASSUME NEW o \in Operators, OperatorCall(o) \/ OperatorStep(o) PROVE Informed(w)'
  <2>1. UNCHANGED worker
    BY <1>20 DEF OperatorCall, OperatorStep, CancelJob, CancelItem, Settle, SkipHuman,
                 PrepareHuman, OpenChallenge, ReadItem, WriteItem, SavePrepared,
                 CreateRequest, SaveBreaker
  <2>2. QED BY <1>4, <2>1
<1>21. CASE Time
  BY <1>4, <1>21 DEF Time, LeaseLapse, CircuitLapse
<1>22. CASE UNCHANGED vars
  BY <1>4, <1>22 DEF vars
<1>23. QED BY <1>17, <1>18, <1>19, <1>20, <1>21, <1>22 DEF Next

\* A step of one operator leaves the other operators' states alone.
LEMMA OneOperatorAtATime ==
    ASSUME TypeOK, NEW p \in Operators, NEW o \in Operators, p # o,
           OperatorCall(p) \/ OperatorStep(p)
    PROVE  operator'[o] = operator[o]
  BY DEF OperatorCall, OperatorStep, CancelJob, CancelItem, Settle, SkipHuman, PrepareHuman,
         OpenChallenge, ReadItem, WriteItem, SavePrepared, CreateRequest, SaveBreaker, TypeOK

\* What an operator read stays true of the rows until it writes.
LEMMA OperatorKnowsStep ==
    ASSUME IInv, [Next]_vars
    PROVE  OperatorKnows'
<1>. USE DEF IInv
<1>. SUFFICES ASSUME NEW o \in Operators PROVE Entitled(o)'
  BY DEF OperatorKnows
<1>0. Entitled(o) /\ operator[o] \in OperatorStates
  BY DEF OperatorKnows, TypeOK
<1>1. \A h \in Requests : human[h].status # "unused" => human'[h].status # "unused"
  BY RequestsStay
<1>2. \A i \in Items : DepsCompleted(i) => DepsCompleted(i)'
  BY EvidenceStays
<1>3. \A i \in Items : HasRequest(i) => HasRequest(i)'
  BY HasRequestStays
<1>4. ASSUME operator'[o] = operator[o] PROVE Entitled(o)'
  BY <1>0, <1>1, <1>2, <1>3, <1>4 DEF Entitled
<1>5. ASSUME operator'[o] = AtRest PROVE Entitled(o)'
  BY <1>5 DEF AtRest, Entitled
<1>6. ASSUME NEW i \in Items, CancelItem(o, i) PROVE Entitled(o)'
  <2>1. /\ operator'[o].pc = "write" /\ operator'[o].cmd = "cancel" /\ operator'[o].item = i
    BY <1>6 DEF CancelItem, AtRest, TypeOK
  <2>2. QED BY <2>1 DEF Entitled
<1>7. ASSUME NEW h \in Requests, NEW cmd \in {"unblock", "retry"}, Settle(o, h, cmd)
      PROVE  Entitled(o)'
  <2>1. /\ operator'[o].pc = "read" /\ operator'[o].cmd = cmd
        /\ operator'[o].item = human[h].item
    BY <1>7 DEF Settle, AtRest, TypeOK
  <2>2. human[h].item \in Items
    BY <1>7 DEF Settle, RequestsNameItems
  <2>3. QED BY <2>1, <2>2 DEF Entitled
<1>8. CASE ReadItem(o)
  <2>. DEFINE i == operator[o].item
  <2>1. CASE operator'[o] = [operator[o] EXCEPT !.pc = "write", !.row = item[i]]
    <3>1. /\ operator'[o].pc = "write" /\ operator'[o].cmd = operator[o].cmd
          /\ operator'[o].item = i
      BY <1>0, <2>1 DEF OperatorStates
    <3>2. /\ operator[o].cmd \in {"block", "unblock", "retry"} /\ i \in Items
          /\ operator[o].cmd = "block" => HasRequest(i)
      BY <1>0, <1>8 DEF ReadItem, Entitled
    <3>3. CASE operator[o].cmd # "block" /\ item[i].status = "blocked"
      BY <1>2, <3>1, <3>2, <3>3 DEF StartedAfterDeps, DepsCompleted, Entitled
    <3>4. CASE operator[o].cmd = "block" /\ Allowed(item[i], "block")
      <4>1. item[i].status \in {"ready", "leased"}
        BY <3>4 DEF Allowed, From, Commands
      <4>2. DepsCompleted(i)
        BY <3>2, <4>1 DEF StartedAfterDeps, DepsCompleted
      <4>3. QED BY <1>2, <1>3, <3>1, <3>2, <4>2 DEF Entitled
    <3>5. operator'[o] = AtRest => Entitled(o)'
      BY <1>5
    <3>6. QED BY <1>8, <2>1, <3>3, <3>4, <3>5 DEF ReadItem, TypeOK
  <2>2. QED BY <1>5, <1>8, <2>1 DEF ReadItem, TypeOK
<1>9. CASE WriteItem(o) \/ SavePrepared(o)
  BY <1>5, <1>9 DEF WriteItem, SavePrepared, TypeOK
<1>10. ASSUME NEW h \in Requests, PrepareHuman(o, h) PROVE Entitled(o)'
  <2>1. operator'[o].pc = "prepare" /\ operator'[o].req = h
    BY <1>10 DEF PrepareHuman, AtRest, TypeOK
  <2>2. QED BY <1>1, <1>10, <2>1 DEF PrepareHuman, Entitled
<1>11. ASSUME NEW i \in Items, NEW k \in Resources, OpenChallenge(o, i, k)
       PROVE  Entitled(o)'
  <2>1. PICK d \in Requests \cup {None} :
           /\ ListedDuplicate(d, i, k, "none")
           /\ operator'[o].pc = "create" /\ operator'[o].cmd = "block"
           /\ operator'[o].item = i /\ operator'[o].req = d
    BY <1>11 DEF OpenChallenge, AtRest, TypeOK
  <2>2. d # None => HasRequest(i)'
    BY <1>3, <2>1, DuplicatesNameTheItem
  <2>3. QED BY <2>1, <2>2 DEF Entitled, HasRequest
<1>12. CASE CreateRequest(o)
  <2>1. PICK i \in Items, d \in Requests \cup {None}, k \in Resources \cup {None} :
           /\ i = operator[o].item /\ d = operator[o].req /\ k = operator[o].key
           /\ CreateUnlessListed(d, i, k, "none")
           /\ d # None => HasRequest(i)
    BY <1>0, <1>12 DEF CreateRequest, Entitled, OperatorStates
  <2>2. HasRequest(i)'
    BY <2>1, CreationNamesTheItem
  <2>3. /\ operator'[o].pc \in {"breaker", "read"} /\ operator'[o].item = i
        /\ operator'[o].cmd = "block"
    BY <1>0, <1>12, <2>1 DEF CreateRequest, Entitled, TypeOK, OperatorStates
  <2>4. QED BY <2>2, <2>3 DEF Entitled, HasRequest
<1>13. CASE SaveBreaker(o)
  <2>1. /\ operator'[o].pc = "read" /\ operator'[o].item = operator[o].item
        /\ operator'[o].cmd = operator[o].cmd
    BY <1>0, <1>13 DEF SaveBreaker, TypeOK, OperatorStates
  <2>2. QED BY <1>0, <1>3, <1>13, <2>1 DEF SaveBreaker, Entitled, HasRequest
<1>14. ASSUME CancelJob(o) \/ \E h \in Requests : SkipHuman(o, h) PROVE Entitled(o)'
  BY <1>4, <1>14 DEF CancelJob, SkipHuman
<1>15. CASE OperatorCall(o) \/ OperatorStep(o)
  BY <1>6, <1>7, <1>8, <1>9, <1>10, <1>11, <1>12, <1>13, <1>14, <1>15
  DEF OperatorCall, OperatorStep
<1>16. ASSUME NEW p \in Operators, p # o, OperatorCall(p) \/ OperatorStep(p)
       PROVE  Entitled(o)'
  BY <1>4, <1>16, OneOperatorAtATime
<1>17. ASSUME NEW w \in Workers, WorkerStep(w) \/ Crash(w) \/ Heartbeat(w)
       PROVE  Entitled(o)'
  <2>1. UNCHANGED operator
    BY <1>17 DEF WorkerStep, Crash, Heartbeat, TickStart, DecideDispatch, DecideWait, SaveWake,
                 Claim, ClaimRejected, Begin, Finish, FinishRejected, OpenBreaker, ListHumans,
                 Park, Commit
  <2>2. QED BY <1>4, <2>1
<1>18. CASE Time
  BY <1>4, <1>18 DEF Time, LeaseLapse, CircuitLapse
<1>19. CASE UNCHANGED vars
  BY <1>4, <1>19 DEF vars
<1>20. QED BY <1>15, <1>16, <1>17, <1>18, <1>19 DEF Next

----------------------------------------------------------------------------
(* The inductive invariant and the theorems.                               *)

\* The invariant holds of a job that was just approved.
LEMMA InitIInv == Init => IInv
<1>. SUFFICES ASSUME Init PROVE IInv
  OBVIOUS
<1>1. TypeOK
  BY InitType
<1>2. /\ \A w \in Workers : worker[w] = Idle
      /\ \A o \in Operators : operator[o] = AtRest
      /\ \A h \in Requests : human[h].status = "unused"
      /\ job = NoJob
  BY DEF Init
<1>3. \A i \in Items : item[i].status = IF Deps[i] = {} THEN "ready" ELSE "pending"
  BY DEF Init
<1>4. OwnAttempt
  BY <1>2 DEF OwnAttempt, Executing, Idle
<1>5. LeaseHasRunner /\ DoneHasCompletion /\ StartedAfterDeps /\ ChallengeBlockHasRequest
  BY <1>3 DEF LeaseHasRunner, DoneHasCompletion, StartedAfterDeps, ChallengeBlockHasRequest
<1>6. CompletionIsJudged /\ RequestsNameItems
  BY <1>2 DEF CompletionIsJudged, RequestsNameItems, NoJob
<1>7. WorkerKnows
  BY <1>2 DEF WorkerKnows, Informed, Executing, Idle, NoJob
<1>8. OperatorKnows
  BY <1>2 DEF OperatorKnows, Entitled, AtRest
<1>9. QED BY <1>1, <1>4, <1>5, <1>6, <1>7, <1>8 DEF IInv

\* Every step of every process preserves the invariant.
LEMMA Inductive == IInv /\ [Next]_vars => IInv'
<1>. SUFFICES ASSUME IInv, [Next]_vars PROVE IInv'
  OBVIOUS
<1>1. /\ TypeOK /\ OwnAttempt /\ RequestsNameItems /\ WorkerKnows /\ OperatorKnows
  BY DEF IInv
<1>2. TypeOK'
  BY <1>1, TypeStep
<1>3. OwnAttempt'
  BY <1>1, OwnAttemptStep
<1>4. RequestsNameItems'
  BY <1>1, RequestsStay
<1>5. LeaseHasRunner' /\ DoneHasCompletion' /\ StartedAfterDeps'
  BY LeaseStep, DoneStep, StartedStep
<1>6. CompletionIsJudged' /\ ChallengeBlockHasRequest'
  BY CompletionStep, ChallengeBlockStep
<1>7. WorkerKnows' /\ OperatorKnows'
  BY WorkerKnowsStep, OperatorKnowsStep
<1>8. QED BY <1>2, <1>3, <1>4, <1>5, <1>6, <1>7 DEF IInv

\* The invariant holds in every reachable state, for every value of the constants.
THEOREM Invariance == Spec => []IInv
  BY InitIInv, Inductive, PTL DEF Spec

\* The rows and the processes' local copies keep their types.
THEOREM TypeCorrect == Spec => []TypeOK
<1>1. IInv => TypeOK
  BY DEF IInv
<1>2. QED BY <1>1, Invariance, PTL

\* However many processes commit, cancel, answer and crash, an item is leased
\* only while an attempt of it is running (claimWork, commitOutcome).
THEOREM LeasesHaveRunners == Spec => []LeaseHasRunner
<1>1. IInv => LeaseHasRunner
  BY DEF IInv
<1>2. QED BY <1>1, Invariance, PTL

\* Every worker that executes does so under a running attempt of its own.
THEOREM AttemptsAreOwned == Spec => []OwnAttempt
<1>1. IInv => OwnAttempt
  BY DEF IInv
<1>2. QED BY <1>1, Invariance, PTL

\* An item is done only on a completed attempt of that item.
THEOREM DoneMeansCompleted == Spec => []DoneHasCompletion
<1>1. IInv => DoneHasCompletion
  BY DEF IInv
<1>2. QED BY <1>1, Invariance, PTL

\* No item is ever opened for work before attempts completed its dependencies.
THEOREM DependenciesFirst == Spec => []StartedAfterDeps
<1>1. IInv => StartedAfterDeps
  BY DEF IInv
<1>2. QED BY <1>1, Invariance, PTL

\* A completed job rests on an output the aggregate oracle accepted.
THEOREM CompletedJobsAreJudged == Spec => []CompletionIsJudged
<1>1. IInv => CompletionIsJudged
  BY DEF IInv
<1>2. QED BY <1>1, Invariance, PTL

\* No item is blocked on a challenge without a request a person can act on.
THEOREM ChallengesHaveRequests == Spec => []ChallengeBlockHasRequest
<1>1. IInv => ChallengeBlockHasRequest
  BY DEF IInv
<1>2. QED BY <1>1, Invariance, PTL

\* An item ends only in the step in which a running attempt of it ends the same way.
THEOREM ItemsEndWithAttempts == Spec => ItemEndsWithItsAttempt
<1>. DEFINE Ends(i) ==
       item[i].status # item'[i].status /\ item'[i].status \in {"done", "failed"}
       => \E a \in RunningOn(i) :
             attempt'[a].status = IF item'[i].status = "done" THEN "completed" ELSE "failed"
<1>1. ASSUME IInv, [Next]_vars, NEW i \in Items PROVE Ends(i)
  <2>. SUFFICES ASSUME item[i].status # item'[i].status, item'[i].status \in {"done", "failed"}
                PROVE  \E a \in RunningOn(i) :
                          attempt'[a].status =
                             IF item'[i].status = "done" THEN "completed" ELSE "failed"
    BY <1>1
  <2>. USE DEF IInv
  <2>1. ASSUME NEW o \in Operators, WriteItem(o),
               item'[i] = Reduced(operator[o].row, operator[o].cmd, "challenge")
        PROVE  FALSE
    <3>1. operator[o].row \in Rows /\ operator[o].cmd \in {"cancel", "block", "unblock", "retry"}
      BY <1>1, <2>1 DEF WriteItem, OperatorKnows, Entitled, TypeOK, OperatorStates
    <3>2. "challenge" \in Checkpoints
      BY DEF Checkpoints
    <3>3. QED BY <1>1, <2>1, <3>1, <3>2, WrittenRows
  <2>2. PICK w \in Workers :
           /\ Commit(w) /\ worker[w].item = i
           /\ item'[i] = Reduced(worker[w].row, CommandOf(worker[w].outcome),
                                 CheckpointOf(worker[w].outcome))
    BY <1>1, <2>1, ItemStep
  <2>3. worker[w].outcome \in Outcomes \ {"none"} /\ worker[w].row \in Rows
    BY <1>1, <2>2 DEF Commit, WorkerKnows, Informed, TypeOK, WorkerStates
  <2>4. CheckpointOf(worker[w].outcome) \in Checkpoints
    BY DEF CheckpointOf, Checkpoints
  <2>5. worker[w].outcome = IF item'[i].status = "done" THEN "completed" ELSE "failed"
    BY <1>1, <2>2, <2>3, <2>4, WrittenRows
  <2>6. worker[w].att \in RunningOn(i)
    BY <1>1, <2>2 DEF Commit, Executing, OwnAttempt
  <2>7. attempt'[worker[w].att].status = worker[w].outcome
    BY <1>1, <2>2, <2>5, <2>6 DEF Commit, AttemptStatusOf, RunningOn, TypeOK, AttemptRows
  <2>8. QED BY <1>1, <2>5, <2>6, <2>7
<1>2. IInv /\ [Next]_vars => [\A i \in Items : Ends(i)]_vars
  BY <1>1
<1>3. Spec => [][\A i \in Items : Ends(i)]_vars
  BY <1>2, Invariance, PTL DEF Spec
<1>4. (\A i \in Items : Ends(i)) <=>
         \A i \in Items :
            /\ item[i].status # item'[i].status
            /\ item'[i].status \in {"done", "failed"}
            => \E a \in RunningOn(i) :
                  attempt'[a].status = IF item'[i].status = "done" THEN "completed" ELSE "failed"
  OBVIOUS
<1>. HIDE DEF Ends
<1>5. QED BY <1>3, <1>4, PTL DEF ItemEndsWithItsAttempt
====
