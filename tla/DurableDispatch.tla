---- MODULE DurableDispatch ----
(***************************************************************************)
(* One approved durable job and the processes that work on it.             *)
(*                                                                         *)
(* Workers run dispatchDueJob (application/dispatcher.ts): read the job,   *)
(* decide, claim an item, execute it, park a challenge, commit.  Operators *)
(* are the other callers of the application service: cancel, answer, skip, *)
(* prepare and resume human requests, open a challenge.  Every process     *)
(* opens the SQLite database itself, so what is atomic is a transaction of *)
(* the repository or a single statement; between two of them any other     *)
(* process may write, and the rows a process read may be stale when it     *)
(* writes them back.                                                       *)
(***************************************************************************)
EXTENDS Naturals, JobLifecycle, WorkItems

CONSTANTS
    Items,        \* the work items, named by numbers: the order of their ids
    Deps,         \* Deps[i]: the items item i depends on
    ResourceOf,   \* ResourceOf[i]: the item's resource key, or None
    IntentOf,     \* IntentOf[i]: the intent a parked challenge of i records
    Resources,    \* the resource keys, host keys included
    Attempts,     \* fresh attempt ids (with their fences): bounds the claims
    Requests,     \* fresh human request ids: bounds the requests
    Workers,      \* processes that tick the job
    Unreliable,   \* the workers whose process may die or throw in a tick
    Operators,    \* processes that call the service for a person
    OpenBreakerOnChallenge, \* the workflow's challengePolicy flag
    MaxOperatorCalls, \* bounds the operators' calls
    None

ASSUME ItemsAreNumbers == Items \subseteq Nat
ASSUME DepsAreItems == Deps \in [Items -> SUBSET Items]
ASSUME ResourceIsKey == ResourceOf \in [Items -> Resources \cup {None}]
ASSUME NoneIsFresh ==
    None \notin Items \cup Resources \cup Attempts \cup Requests

ASSUME CallsAreCounted == MaxOperatorCalls \in Nat

VARIABLES
    job,      \* the row of jobs: lifecycle and next_wake_at
    item,     \* the rows of work_items
    attempt,  \* the rows of attempts: status, item, whether the lease is live
    human,    \* the rows of human_requests
    breaker,  \* the rows of resources: is circuit_open_until in the future?
    worker,   \* each worker's place in dispatchDueJob and its local copies
    operator, \* each operator's place in its service call and local copies
    calls     \* how many calls the operators may still make

vars == <<job, item, attempt, human, breaker, worker, operator, calls>>

----------------------------------------------------------------------------
(* The rows and the local states.                                          *)

Intents == {IntentOf[i] : i \in Items} \cup {"none"}

\* next_wake_at: absent, or some time.
Wakes == {"none", "some"}
JobRows == [lifecycle : Lifecycles, wake : Wakes]

\* evaluateAttemptOutcome on an output: none was completed, its schema rejects
\* it, its schema accepts it, or the aggregate oracle passes as well.
Verdicts == {"none", "rejected", "accepted", "decisive"}

AttemptRows == [status  : {"unused", "running", "completed", "failed", "cancelled", "blocked"},
                item    : Items \cup {None},
                live    : BOOLEAN,    \* lease_expires_at is in the future
                verdict : Verdicts]   \* on the output that was recorded

OpenStatuses == {"waiting", "ready", "rehydrating"}
HumanRows == [status : {"unused", "resolved", "expired", "skipped"} \cup OpenStatuses,
              item   : Items \cup {None},
              key    : Resources \cup {None},
              intent : Intents]

Outcomes == {"none", "completed", "failed", "cancelled", "challenge", "blocked"}

WorkerStates ==
    [pc      : {"idle", "decide", "wake", "claim", "begin", "run",
                "breaker", "list", "park", "commit"},
     job     : JobRows,                  \* the job row read by this tick
     wake    : Wakes,                    \* the nextWakeAt it is about to save
     item    : Items \cup {None},        \* the item it picked
     att     : Attempts \cup {None},     \* the attempt it claimed
     row     : Rows,                     \* the item row re-read after the claim
     outcome : Outcomes,
     verdict : Verdicts,
     key     : Resources \cup {None},    \* host:<host> of a challenge
     dup     : Requests \cup {None}]     \* the open duplicate found by the listing

OperatorStates ==
    [pc   : {"idle", "read", "write", "create", "breaker", "prepare"},
     cmd  : Commands \cup {"none"},
     item : Items \cup {None},
     row  : Rows,
     key  : Resources \cup {None},
     req  : Requests \cup {None}]

NoRow == [status |-> "pending", checkpoint |-> "none"]
NoJob == [lifecycle |-> "active", wake |-> "none"]

Idle == [pc |-> "idle", job |-> NoJob, wake |-> "none", item |-> None,
         att |-> None, row |-> NoRow, outcome |-> "none",
         verdict |-> "none", key |-> None, dup |-> None]

AtRest == [pc |-> "idle", cmd |-> "none", item |-> None, row |-> NoRow,
           key |-> None, req |-> None]

TypeOK ==
    /\ job \in JobRows
    /\ item \in [Items -> Rows]
    /\ attempt \in [Attempts -> AttemptRows]
    /\ human \in [Requests -> HumanRows]
    /\ breaker \in [Resources -> {"absent", "open", "lapsed"}]
    /\ worker \in [Workers -> WorkerStates]
    /\ operator \in [Operators -> OperatorStates]
    /\ calls \in Nat

\* An approved job whose cases were ingested: items without dependencies are
\* ready, the others pending (materialize.ts, service.ts ingestDiscovery).
Init ==
    /\ job = NoJob
    /\ item = [i \in Items |->
                 [status |-> IF Deps[i] = {} THEN "ready" ELSE "pending",
                  checkpoint |-> "none"]]
    /\ attempt = [a \in Attempts |->
                    [status |-> "unused", item |-> None, live |-> FALSE, verdict |-> "none"]]
    /\ human = [h \in Requests |->
                  [status |-> "unused", item |-> None, key |-> None, intent |-> "none"]]
    /\ breaker = [k \in Resources |-> "absent"]
    /\ worker = [w \in Workers |-> Idle]
    /\ operator = [o \in Operators |-> AtRest]
    /\ calls = MaxOperatorCalls

----------------------------------------------------------------------------
(* The scheduler policy, on the rows a tick reads.  Durable code never sets *)
(* deferredUntil or notBefore and never passes spend or busy leases.        *)

Open(h) == human[h].status \in OpenStatuses

\* Every request the durable code creates is perishable.
HeldByHuman(i) == \E h \in Requests : Open(h) /\ human[h].item = i

\* Variant: one finished dependency is taken for all, a failed one included.
AnyDepEnded(i) == \E d \in Deps[i] : item[d].status \in {"done", "failed"}

DepsDone(i) == \A d \in Deps[i] : item[d].status = "done"

\* Variant: a recorded circuit holds its items back for ever.
CandidatesNeverRecovering ==
    {i \in Items :
        /\ \/ item[i].status = "ready"
           \/ item[i].status = "pending" /\ DepsDone(i)
        /\ ResourceOf[i] # None => breaker[ResourceOf[i]] = "absent"
        /\ ~HeldByHuman(i)}

Candidates ==
    {i \in Items :
        /\ \/ item[i].status = "ready"
           \/ item[i].status = "pending" /\ DepsDone(i)
        /\ ResourceOf[i] # None => breaker[ResourceOf[i]] # "open"
        /\ ~HeldByHuman(i)}

\* No dispatch record is passed, so the least recently served is the least id.
Pick(i) == i \in Candidates /\ \A j \in Candidates : i <= j

\* The nextWakeAt an ineligible decision carries for job row j: the
\* earliest of the circuits' times and the old one, and nothing when the job
\* is not active, a runtime is missing or only a person can unblock it.
NextWake(j) ==
    IF \/ j.lifecycle # "active"
       \/ Candidates # {}
       \/ \E h \in Requests : Open(h)
       \/ j.wake = "none" /\ \A k \in Resources : breaker[k] = "absent"
    THEN "none" ELSE "some"

\* Whether saving wake n over a row read with wake m may change the row: a
\* present time may be replaced by an earlier one when a circuit is recorded.
WakeDiffers(m, n) ==
    \/ m # n
    \/ n = "some" /\ \E k \in Resources : breaker[k] # "absent"

----------------------------------------------------------------------------
(* createHumanRequest: list the job's requests, then insert unless an open *)
(* challenge request has the same key, item and intent.  Two statements.   *)

\* Variant: requests are told apart by resource and intent alone.
DuplicatesOfAnyItem(i, k, n) ==
    {h \in Requests : Open(h) /\ human[h].key = k /\ human[h].intent = n}

Duplicates(i, k, n) ==
    {h \in Requests : Open(h) /\ human[h].item = i
                      /\ human[h].key = k /\ human[h].intent = n}

ListedDuplicate(d, i, k, n) ==
    IF Duplicates(i, k, n) = {} THEN d = None ELSE d \in Duplicates(i, k, n)

CreateUnlessListed(d, i, k, n) ==
    IF d # None THEN UNCHANGED human
    ELSE \E h \in Requests :
            /\ human[h].status = "unused"
            /\ human' = [human EXCEPT ![h] =
                           [status |-> "waiting", item |-> i, key |-> k, intent |-> n]]

SaveOpenBreaker(k) == breaker' = [breaker EXCEPT ![k] = "open"]

----------------------------------------------------------------------------
(* A worker's tick.                                                        *)

\* getJob: the row that every later saveJob of this tick is a copy of.
TickStart(w) ==
    /\ worker[w].pc = "idle"
    /\ worker' = [worker EXCEPT ![w].pc = "decide", ![w].job = job]
    /\ UNCHANGED <<job, item, attempt, human, breaker, operator, calls>>

\* decideSchedule on the rows listed now picks an item.
DecideDispatch(w) ==
    /\ worker[w].pc = "decide"
    /\ worker[w].job.lifecycle = "active"
    /\ \E i \in Items :
          /\ Pick(i)
          /\ worker' = [worker EXCEPT ![w].pc = "claim", ![w].item = i]
    /\ UNCHANGED <<job, item, attempt, human, breaker, operator, calls>>

\* Ineligible: the new wake time is saved when it differs.  An absent runtime
\* makes an eligible job ineligible too.
DecideWait(w) ==
    LET j == worker[w].job IN
    /\ worker[w].pc = "decide"
    /\ worker' = [worker EXCEPT ![w] =
                    IF WakeDiffers(j.wake, NextWake(j))
                    THEN [@ EXCEPT !.pc = "wake", !.wake = NextWake(j)]
                    ELSE Idle]
    /\ UNCHANGED <<job, item, attempt, human, breaker, operator, calls>>

\* saveJob({...job, nextWakeAt}): the whole row, from the copy.
SaveWake(w) ==
    /\ worker[w].pc = "wake"
    /\ job' = [worker[w].job EXCEPT !.wake = worker[w].wake]
    /\ worker' = [worker EXCEPT ![w] = Idle]
    /\ UNCHANGED <<item, attempt, human, breaker, operator, calls>>

RunningOn(i) == {a \in Attempts : attempt[a].status = "running" /\ attempt[a].item = i}

\* Variant: a lapsed attempt is taken over under its own id.
NotHeld(a) == ~attempt[a].live

\* newId: an attempt id and a fence no row has.
Fresh(a) == attempt[a].status = "unused"

\* claimWork, one transaction.
Claim(w) ==
    LET i == worker[w].item IN
    /\ worker[w].pc = "claim"
    /\ item[i].status \in {"ready", "pending"}
    /\ \A a \in RunningOn(i) : ~attempt[a].live
    /\ \E a \in Attempts :
          /\ Fresh(a)
          /\ attempt' = [attempt EXCEPT ![a] =
                           [status |-> "running", item |-> i, live |-> TRUE, verdict |-> "none"]]
          /\ worker' = [worker EXCEPT ![w].pc = "begin", ![w].att = a]
    /\ item' = [item EXCEPT ![i].status = "leased"]
    /\ UNCHANGED <<job, human, breaker, operator, calls>>

\* claimWork throws out of the tick.  The tick compares leases with the time
\* it started at, so one that lapsed since may still count as live.
ClaimRejected(w) ==
    LET i == worker[w].item IN
    /\ worker[w].pc = "claim"
    /\ item[i].status \in {"ready", "pending"} => RunningOn(i) # {}
    /\ worker' = [worker EXCEPT ![w] = Idle]
    /\ UNCHANGED <<job, item, attempt, human, breaker, operator, calls>>

\* Variant: the row is the one the scheduler picked, not re-read.
BeginWithPickedRow(w) ==
    /\ worker[w].pc = "begin"
    /\ worker' = [worker EXCEPT ![w].pc = "run",
                                ![w].row = [item[worker[w].item] EXCEPT !.status = "ready"]]
    /\ UNCHANGED <<job, item, attempt, human, breaker, operator, calls>>

\* getWorkItem after the claim, then the kernel runs.
Begin(w) ==
    /\ worker[w].pc = "begin"
    /\ worker' = [worker EXCEPT ![w].pc = "run", ![w].row = item[worker[w].item]]
    /\ UNCHANGED <<job, item, attempt, human, breaker, operator, calls>>

\* Variant: whatever is neither blocked nor cancelled completes the item.
CommandOfUnlessBlocked(outcome) ==
    CASE outcome \in {"challenge", "blocked"} -> "block"
      [] outcome = "cancelled" -> "cancel"
      [] OTHER                 -> "complete"

CommandOf(outcome) ==
    CASE outcome = "completed" -> "complete"
      [] outcome = "failed"    -> "fail"
      [] outcome = "cancelled" -> "cancel"
      [] OTHER                 -> "block"

\* The kernel returned and the reducer accepts the outcome on the row read at
\* Begin.  The verdict is asked for only on a completed output; the item is
\* completed whatever it is, and the lifecycle of the copy, active since the
\* decision, may always become completed.
Finish(w, outcome, key, verdict) ==
    /\ worker[w].pc = "run"
    /\ Allowed(worker[w].row, CommandOf(outcome))
    /\ (outcome = "challenge") <=> (key # None)
    /\ (outcome = "completed") <=> (verdict # "none")
    /\ worker' = [worker EXCEPT ![w] =
                    [@ EXCEPT !.pc = IF outcome # "challenge" THEN "commit"
                                     ELSE IF OpenBreakerOnChallenge THEN "breaker" ELSE "list",
                              !.outcome = outcome, !.key = key, !.verdict = verdict]]
    /\ UNCHANGED <<job, item, attempt, human, breaker, operator, calls>>

\* The reducer throws on a row that is no longer leased: the tick ends and the
\* attempt stays as it is.
FinishRejected(w, outcome) ==
    /\ worker[w].pc = "run"
    /\ ~Allowed(worker[w].row, CommandOf(outcome))
    /\ worker' = [worker EXCEPT ![w] = Idle]
    /\ UNCHANGED <<job, item, attempt, human, breaker, operator, calls>>

OpenBreaker(w) ==
    /\ worker[w].pc = "breaker"
    /\ SaveOpenBreaker(worker[w].key)
    /\ worker' = [worker EXCEPT ![w].pc = "list"]
    /\ UNCHANGED <<job, item, attempt, human, operator, calls>>

\* parkChallengeHuman: the listing ...
ListHumans(w) ==
    LET i == worker[w].item IN
    /\ worker[w].pc = "list"
    /\ \E d \in Requests \cup {None} :
          /\ ListedDuplicate(d, i, worker[w].key, IntentOf[i])
          /\ worker' = [worker EXCEPT ![w].pc = "park", ![w].dup = d]
    /\ UNCHANGED <<job, item, attempt, human, breaker, operator, calls>>

\* ... and the insertion.
Park(w) ==
    LET i == worker[w].item IN
    /\ worker[w].pc = "park"
    /\ CreateUnlessListed(worker[w].dup, i, worker[w].key, IntentOf[i])
    /\ worker' = [worker EXCEPT ![w].pc = "commit"]
    /\ UNCHANGED <<job, item, attempt, breaker, operator, calls>>

\* Variant: the outcome's own name is stored.
AttemptStatusVerbatim(outcome) == outcome

AttemptStatusOf(outcome) ==
    IF outcome = "challenge" THEN "blocked" ELSE outcome

CheckpointOf(outcome) == IF outcome = "challenge" THEN "challenge" ELSE "other"

\* Variant: a completed claim completes the job, whatever the oracle says.
CommittedJobOnClaim(w) ==
    [worker[w].job EXCEPT !.lifecycle =
        IF worker[w].outcome = "completed" THEN "completed" ELSE @]

\* The job row a commit writes: the tick's copy, completed if the oracle passed.
CommittedJob(w) ==
    [worker[w].job EXCEPT !.lifecycle =
        IF worker[w].verdict = "decisive" THEN "completed" ELSE @]

\* commitOutcome, one transaction: the fence and the running status are
\* checked, then the attempt, the item row and the job row are written.
Commit(w) ==
    LET a == worker[w].att
        o == worker[w].outcome
    IN
    /\ worker[w].pc = "commit"
    /\ attempt[a].status = "running"
    /\ attempt' = [attempt EXCEPT ![a].status = AttemptStatusOf(o),
                                  ![a].verdict = worker[w].verdict]
    /\ item' = [item EXCEPT ![worker[w].item] =
                  Reduced(worker[w].row, CommandOf(o), CheckpointOf(o))]
    /\ job' = CommittedJob(w)
    /\ worker' = [worker EXCEPT ![w] = Idle]
    /\ UNCHANGED <<human, breaker, operator, calls>>

\* The process dies, or the context compiler, the kernel or a statement throws.
Crash(w) ==
    /\ w \in Unreliable
    /\ worker[w].pc # "idle"
    /\ worker' = [worker EXCEPT ![w] = Idle]
    /\ UNCHANGED <<job, item, attempt, human, breaker, operator, calls>>

Executing(w) == worker[w].pc \in {"begin", "run", "breaker", "list", "park", "commit"}

\* The interval timer of a tick in progress renews its lease, lapsed or not.
Heartbeat(w) ==
    /\ Executing(w)
    /\ attempt[worker[w].att].status = "running"
    /\ ~attempt[worker[w].att].live
    /\ attempt' = [attempt EXCEPT ![worker[w].att].live = TRUE]
    /\ UNCHANGED <<job, item, human, breaker, worker, operator, calls>>

----------------------------------------------------------------------------
(* Time.                                                                   *)

LeaseLapse(a) ==
    /\ attempt[a].status = "running" /\ attempt[a].live
    /\ attempt' = [attempt EXCEPT ![a].live = FALSE]
    /\ UNCHANGED <<job, item, human, breaker, worker, operator, calls>>

CircuitLapse(k) ==
    /\ breaker[k] = "open"
    /\ breaker' = [breaker EXCEPT ![k] = "lapsed"]
    /\ UNCHANGED <<job, item, attempt, human, worker, operator, calls>>

----------------------------------------------------------------------------
(* The operators' calls.                                                   *)

\* A call begins while no other of the same process is under way.
Called(o) == operator[o].pc = "idle" /\ calls > 0 /\ calls' = calls - 1

\* cancelJob, one transaction.  Attempts and requests are left as they are.
CancelJob(o) ==
    /\ Called(o)
    /\ CanCancel(job.lifecycle)
    /\ job' = [job EXCEPT !.lifecycle = "cancelled"]
    /\ item' = [i \in Items |->
                  IF item[i].status \in {"pending", "ready", "blocked", "leased"}
                  THEN [item[i] EXCEPT !.status = "cancelled"] ELSE item[i]]
    /\ UNCHANGED <<attempt, human, breaker, worker, operator>>

\* cancelWorkItem reads the row here and writes it in WriteItem.
CancelItem(o, i) ==
    /\ Called(o)
    /\ Allowed(item[i], "cancel")
    /\ operator' = [operator EXCEPT ![o] =
                      [AtRest EXCEPT !.pc = "write", !.cmd = "cancel",
                                     !.item = i, !.row = item[i]]]
    /\ UNCHANGED <<job, item, attempt, human, breaker, worker>>

\* answerHuman (verified by an oracle) and resumeChallenge (cleared on a fresh
\* observation): the request is resolved whatever its status, then the item is
\* read and, if blocked, unblocked or retried.
Settle(o, h, cmd) ==
    /\ Called(o)
    /\ human[h].status # "unused"
    /\ cmd \in {"unblock", "retry"}
    /\ human' = [human EXCEPT ![h].status = "resolved"]
    /\ operator' = [operator EXCEPT ![o] =
                      [AtRest EXCEPT !.pc = "read", !.cmd = cmd, !.item = human[h].item]]
    /\ UNCHANGED <<job, item, attempt, breaker, worker>>

\* The item row read on behalf of a command, with the caller's own condition:
\* only a blocked item is unblocked or retried, and block throws unless allowed.
ReadItem(o) ==
    LET i   == operator[o].item
        cmd == operator[o].cmd
        goOn == IF cmd = "block" THEN Allowed(item[i], "block")
                                 ELSE item[i].status = "blocked"
    IN
    /\ operator[o].pc = "read"
    /\ operator' = [operator EXCEPT ![o] =
                      IF goOn THEN [@ EXCEPT !.pc = "write", !.row = item[i]] ELSE AtRest]
    /\ UNCHANGED <<job, item, attempt, human, breaker, worker, calls>>

\* saveWorkItem(reduceWorkItem(row, cmd)): the row as it was when it was read.
WriteItem(o) ==
    /\ operator[o].pc = "write"
    /\ item' = [item EXCEPT ![operator[o].item] =
                  Reduced(operator[o].row, operator[o].cmd, "challenge")]
    /\ operator' = [operator EXCEPT ![o] = AtRest]
    /\ UNCHANGED <<job, attempt, human, breaker, worker, calls>>

\* skipHuman: from any status; the item stays as it is.
SkipHuman(o, h) ==
    /\ Called(o)
    /\ human[h].status # "unused"
    /\ human' = [human EXCEPT ![h].status = "skipped"]
    /\ UNCHANGED <<job, item, attempt, breaker, worker, operator>>

\* prepareHuman lists the requests that can be prepared ...
PrepareHuman(o, h) ==
    /\ Called(o)
    /\ human[h].status \in {"waiting", "expired", "ready"}
    /\ operator' = [operator EXCEPT ![o] = [AtRest EXCEPT !.pc = "prepare", !.req = h]]
    /\ UNCHANGED <<job, item, attempt, human, breaker, worker>>

\* ... and saves the one it chose as rehydrating.
SavePrepared(o) ==
    /\ operator[o].pc = "prepare"
    /\ human' = [human EXCEPT ![operator[o].req].status = "rehydrating"]
    /\ operator' = [operator EXCEPT ![o] = AtRest]
    /\ UNCHANGED <<job, item, attempt, breaker, worker, calls>>

\* openChallenge with enough confidence: list, create, breaker, block the item.
OpenChallenge(o, i, k) ==
    /\ Called(o)
    /\ \E d \in Requests \cup {None} :
          /\ ListedDuplicate(d, i, k, "none")
          /\ operator' = [operator EXCEPT ![o] =
                            [AtRest EXCEPT !.pc = "create", !.cmd = "block",
                                           !.item = i, !.key = k, !.req = d]]
    /\ UNCHANGED <<job, item, attempt, human, breaker, worker>>

CreateRequest(o) ==
    /\ operator[o].pc = "create"
    /\ CreateUnlessListed(operator[o].req, operator[o].item, operator[o].key, "none")
    /\ operator' = [operator EXCEPT ![o].pc =
                      IF OpenBreakerOnChallenge THEN "breaker" ELSE "read"]
    /\ UNCHANGED <<job, item, attempt, breaker, worker, calls>>

SaveBreaker(o) ==
    /\ operator[o].pc = "breaker"
    /\ SaveOpenBreaker(operator[o].key)
    /\ operator' = [operator EXCEPT ![o].pc = "read"]
    /\ UNCHANGED <<job, item, attempt, human, worker, calls>>

----------------------------------------------------------------------------
\* The steps a live process takes without being asked again.
WorkerStep(w) ==
    \/ TickStart(w) \/ DecideDispatch(w) \/ DecideWait(w) \/ SaveWake(w)
    \/ Claim(w) \/ ClaimRejected(w) \/ Begin(w)
    \/ \E outcome \in Outcomes \ {"none"} :
          \/ \E key \in Resources \cup {None}, verdict \in Verdicts :
                Finish(w, outcome, key, verdict)
          \/ FinishRejected(w, outcome)
    \/ OpenBreaker(w) \/ ListHumans(w) \/ Park(w) \/ Commit(w)

OperatorCall(o) ==
    \/ CancelJob(o)
    \/ \E i \in Items : CancelItem(o, i)
    \/ \E h \in Requests : \/ \E cmd \in {"unblock", "retry"} : Settle(o, h, cmd)
                           \/ SkipHuman(o, h)
                           \/ PrepareHuman(o, h)
    \/ \E i \in Items, k \in Resources : OpenChallenge(o, i, k)

OperatorStep(o) ==
    ReadItem(o) \/ WriteItem(o) \/ SavePrepared(o) \/ CreateRequest(o) \/ SaveBreaker(o)

Time == (\E a \in Attempts : LeaseLapse(a)) \/ (\E k \in Resources : CircuitLapse(k))

Next ==
    \/ \E w \in Workers : WorkerStep(w) \/ Crash(w) \/ Heartbeat(w)
    \/ \E o \in Operators : OperatorCall(o) \/ OperatorStep(o)
    \/ Time

Spec == Init /\ [][Next]_vars

\* Processes that are up keep going; a runtime is attached often enough for the
\* scheduler to find it; circuits lapse with the clock.  Nothing is assumed of
\* a person, of a crash or of a lease's expiry.
Fairness ==
    /\ \A w \in Workers : WF_vars(WorkerStep(w)) /\ SF_vars(DecideDispatch(w))
    /\ \A o \in Operators : WF_vars(OperatorStep(o))
    /\ \A k \in Resources : WF_vars(CircuitLapse(k))

FairSpec == Spec /\ Fairness

----------------------------------------------------------------------------
(* What the repository keeps true whatever the interleaving.               *)

CompletedOn(i) == {a \in Attempts : attempt[a].status = "completed" /\ attempt[a].item = i}

\* A leased item always has a running attempt of its own: no commit, cancel or
\* stale write of another process leaves a lease that nobody holds
\* (claimWork and commitOutcome write the item with the attempt).
LeaseHasRunner == \A i \in Items : item[i].status = "leased" => RunningOn(i) # {}

\* An item is done only if an attempt of that very item committed "completed":
\* no stale row of an operator or of another worker brings "done" about.
DoneHasCompletion == \A i \in Items : item[i].status = "done" => CompletedOn(i) # {}

\* An item that was ever opened for work has all its dependencies completed by
\* some attempt, though a scheduler decides on rows that may change before the
\* claim and the claim itself accepts pending items without asking.
StartedAfterDeps ==
    \A i \in Items :
        item[i].status \in {"ready", "leased", "blocked", "done", "failed"} =>
            \A d \in Deps[i] : CompletedOn(d) # {}

\* The job is completed only after some attempt committed an output that its
\* schema and the aggregate oracle accepted, however stale the row it wrote.
CompletionIsJudged ==
    job.lifecycle = "completed" =>
        \E a \in Attempts : attempt[a].status = "completed" /\ attempt[a].verdict = "decisive"

\* A worker in the middle of a tick owns its attempt: it is running, it is on
\* the worker's item and no other worker acts under it.
OwnAttempt ==
    \A w \in Workers : Executing(w) =>
        /\ worker[w].att \in RunningOn(worker[w].item)
        /\ \A v \in Workers \ {w} : Executing(v) => worker[v].att # worker[w].att

\* An item blocked on a challenge has a request that names it: the request is
\* saved before the block, so a crash between the two never strands the item
\* without anything for a person to act on.
ChallengeBlockHasRequest ==
    \A i \in Items :
        item[i].status = "blocked" /\ item[i].checkpoint = "challenge" =>
            \E h \in Requests : human[h].status # "unused" /\ human[h].item = i

\* Only a commit ends an item: it becomes done or failed in the very step in
\* which a running attempt of it ends so, never by a person's answer, a cancel
\* or a revised row (HUMAN-04: a resolved request alone does not complete work).
ItemEndsWithItsAttempt ==
    [][\A i \in Items :
          /\ item[i].status # item'[i].status
          /\ item'[i].status \in {"done", "failed"}
          => \E a \in RunningOn(i) :
                attempt'[a].status = IF item'[i].status = "done" THEN "completed" ELSE "failed"]_vars

\* While nobody interferes, a ready item does not stay ready for ever in an
\* active job: the circuits that hold it back lapse and the lower ids that are
\* picked first leave the queue.
ReadyIsServed ==
    \A i \in Items :
        item[i].status = "ready" ~> item[i].status # "ready" \/ job.lifecycle # "active"

\* While nobody interferes, every claimed attempt reaches its commit.
AttemptsEnd ==
    \A a \in Attempts : attempt[a].status = "running" ~> attempt[a].status # "running"

----------------------------------------------------------------------------
(* What a document says and the code does not do.                          *)

\* DOM-03: the job's lifecycle moves only along the matrix.
JobMovesLegal ==
    [][job'.lifecycle # job.lifecycle => CanTransition(job.lifecycle, job'.lifecycle)]_vars
====
