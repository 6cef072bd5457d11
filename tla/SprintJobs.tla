---- MODULE SprintJobs ----
(***************************************************************************)
(* The prototype's jobs (jobs/): a plan of tasks in one file, worked by    *)
(* ticks of several processes behind a directory lease (core/lease.ts),    *)
(* sprint by sprint, while a person approves, pauses and answers without   *)
(* any lease.  Processes die between any two steps and leave the files.    *)
(*                                                                         *)
(* A tick's change of plan.json or of an entity is one step, and so is     *)
(* its maintenance of the plan; a person's change of either reads a copy   *)
(* and writes it back in two.  (That a tick's writing may undo a person's  *)
(* is the case of a person's change that is lost.)  Every tick of one job  *)
(* takes the job's lease; the lease on the browser, by the same code, only *)
(* keeps other jobs out.  Resources, budgets, grants, the text of specs    *)
(* and the state of an inbox item are left out: answers ignore it.         *)
(***************************************************************************)
EXTENDS FiniteSets, Integers

CONSTANTS
    Ticks,         \* the processes that tick the job
    Hosted,        \* those with a browser and a model; the command line's have none
    N,             \* how many tasks there may be, numbered as they are created
    Needs,         \* what each task depends on
    Finds,         \* the tasks that a draft may leave to be discovered
    Commits,       \* the tasks with a consequential action
    Cap,           \* maxAttempts
    Limit,         \* sprintTaskLimit
    MaxTroubles,   \* bounds, together, the leases that lapse under a running tick
                   \* or are taken before their holder is named, the crashes, the
                   \* answers, the redrafts, pauses and resumes, the discoveries
    None

Tasks == 1..N
ASSUME NumbersAreNatural ==
    {N, Cap, Limit, MaxTroubles} \subseteq Nat
ASSUME NeedsArePlanned ==
    /\ Needs \in [Tasks -> SUBSET Tasks] /\ {Finds, Commits} \subseteq SUBSET Tasks
    /\ \A t \in Tasks : Needs[t] \cap Finds = {}
    /\ \A t \in Tasks \ Finds, f \in Finds : t < f
    /\ Finds # Tasks
ASSUME HostedTick == Hosted \subseteq Ticks
ASSUME NoneIsNothing == None \notin Ticks \cup Tasks

VARIABLES
    job,      \* job.json: the status, and whether a spec was approved
    spec,     \* the draft: its status, and the tasks it leaves to be discovered
    plan,     \* plan.json: the tasks, and whether they are linked yet
    sprint,   \* the current sprint
    entity,   \* what a task's entity knows of its action
    asked,    \* the tasks with an item in the inbox
    lock,     \* the lease's directory and the holder named in it
    tick,     \* the ticks
    hand,     \* what the person's process is at
    troubles, \* how many there were
    starts,   \* history: how often each task was started
    fired,    \* history: the tasks whose action was done
    loose,    \* history: a lease was taken that some tick still counts on
    met,      \* history: two ticks were behind the lease at once
    rewrote,  \* history: an answer undid what a tick had written
    cut       \* history: a plan was left half made

files == <<job, spec, plan, sprint, entity, asked>>
history == <<starts, fired, loose, met, rewrote, cut>>
vars == <<files, lock, tick, hand, troubles, history>>

\* deferred is a parked task whose time has not come.
Statuses == {"absent", "pending", "running", "deferred", "parked", "done", "failed", "abandoned"}
Moves == [planning |-> {"awaiting"}, awaiting |-> {"planning", "active"},
          active |-> {"paused", "completed", "failed", "planning"}, paused |-> {"active"},
          completed |-> {}, failed |-> {"planning"}]
Jobs == [st : DOMAIN Moves, ratified : BOOLEAN]
Plans == [task : [Tasks -> [st : Statuses, attempts : 0..Cap + 1]], linked : BOOLEAN]
Sprints == {[kind |-> "none", tasks |-> {}], [kind |-> "holding", tasks |-> {}]}
           \cup [kind : {"open"}, tasks : (SUBSET Tasks) \ {{}}]
NoSprint == [kind |-> "none", tasks |-> {}]
Entities == [journal : {"none", "prepared", "verified"}, consumed : BOOLEAN]

Behind == {"read", "recover", "end", "sprint", "pick", "mark", "look", "run", "claim", "act",
           "settle", "book", "defer", "idle", "release"}
TickStates == [pc : {"off", "lock", "steal", "again", "hold", "remove"} \cup Behind,
               task : Tasks \cup {None},
               saw : [job : Jobs, sprint : Sprints] \cup {None}]
Off == [pc |-> "off", task |-> None, saw |-> None]

HandStates == [pc : {"free", "await", "add", "link", "activate", "mark", "unpark"},
               task : Tasks \cup {None}, copy : Plans \cup Entities \cup {None}]
Free == [pc |-> "free", task |-> None, copy |-> None]

TypeOK ==
    /\ job \in Jobs /\ spec \in [st : {"draft", "proposed", "approved"}, finds : {{}, Finds}]
    /\ plan \in Plans
    /\ sprint \in Sprints /\ entity \in [Tasks -> Entities] /\ asked \subseteq Tasks
    /\ lock \in [dir : BOOLEAN, holder : Ticks \cup {None}, old : BOOLEAN]
    /\ lock.holder # None => lock.dir
    /\ tick \in [Ticks -> TickStates] /\ hand \in HandStates
    /\ troubles \in 0..MaxTroubles
    /\ starts \in [Tasks -> Nat] /\ fired \subseteq Commits
    /\ loose \in BOOLEAN /\ met \in BOOLEAN /\ rewrote \in BOOLEAN /\ cut \in BOOLEAN

NoDir == [dir |-> FALSE, holder |-> None, old |-> FALSE]

Init ==
    /\ job = [st |-> "planning", ratified |-> FALSE]
    /\ \E finds \in {{}, Finds} : spec = [st |-> "draft", finds |-> finds]
    /\ plan = [task |-> [t \in Tasks |-> [st |-> "absent", attempts |-> 0]], linked |-> FALSE]
    /\ sprint = NoSprint
    /\ entity = [t \in Tasks |-> [journal |-> "none", consumed |-> FALSE]]
    /\ asked = {} /\ lock = NoDir
    /\ tick = [k \in Ticks |-> Off] /\ hand = Free
    /\ troubles = 0
    /\ starts = [t \in Tasks |-> 0] /\ fired = {}
    /\ loose = FALSE /\ met = FALSE /\ rewrote = FALSE /\ cut = FALSE

Trouble == troubles < MaxTroubles /\ troubles' = troubles + 1

At(k, pc) == tick[k].pc = pc
Goes(k, pc) == tick' = [tick EXCEPT ![k].pc = pc]
Leaves(k) == tick' = [tick EXCEPT ![k] = [Off EXCEPT !.pc = "release"]]
Held(k) == tick[k].pc \in Behind

\* JobStore.transition: to the status it has already is always allowed.
CanMove(to) == job.st = to \/ to \in Moves[job.st]
MovesTo(to) == job' = [job EXCEPT !.st = to]

Status(t) == plan.task[t].st

\* What a planned task depends on; a discovered one depends on nothing.
Deps(t) == IF t \in spec.finds THEN {} ELSE Needs[t]

Sets(t, st) == plan' = [plan EXCEPT !.task[t].st = st]

----------------------------------------------------------------------------
(* acquireLease and release, on one directory.                             *)

\* tick returns at once unless the job is active.  (A bound: after two ticks met
\* behind the lease, or an answer undid what one had written, only the ticks in
\* flight are followed to their end.)
Start(k) ==
    /\ At(k, "off") /\ job.st = "active" /\ ~met /\ ~rewrote
    /\ Goes(k, "lock")
    /\ UNCHANGED <<files, lock, hand, troubles, history>>

\* Variant: any holder is displaced.
ExpiredAtOnce == lock.dir

\* Variant: a directory without a holder is left alone.
ExpiredByTime == lock.old

\* A holder whose time is over is displaced, and so is none at all, although its
\* maker may be about to name itself.
Expired == lock.holder = None \/ lock.old

\* mkdir, or a look at the holder.
MakeDir(k) ==
    LET young == lock.holder = None /\ \E j \in Ticks : At(j, "hold")
        displaced == \E j \in Ticks : At(j, "steal") \/ At(j, "again")
    IN  /\ At(k, "lock")
        /\ \/ /\ ~lock.dir /\ lock' = [NoDir EXCEPT !.dir = TRUE] /\ Goes(k, "hold")
              /\ UNCHANGED <<loose, troubles>>
           \/ /\ lock.dir /\ Expired /\ Goes(k, "steal") /\ UNCHANGED lock
              /\ loose' = (loose \/ young \/ displaced)
              /\ IF young THEN Trouble ELSE UNCHANGED troubles
           \/ /\ lock.dir /\ ~Expired
              /\ tick' = [tick EXCEPT ![k] = Off] /\ UNCHANGED <<lock, loose, troubles>>
        /\ UNCHANGED <<files, hand, starts, fired, met, rewrote, cut>>

Steal(k) ==
    /\ At(k, "steal")
    /\ lock' = NoDir /\ Goes(k, "again")
    /\ UNCHANGED <<files, hand, troubles, history>>

MakeDirAgain(k) ==
    /\ At(k, "again")
    /\ IF lock.dir THEN tick' = [tick EXCEPT ![k] = Off] /\ UNCHANGED lock
       ELSE lock' = [NoDir EXCEPT !.dir = TRUE] /\ Goes(k, "hold")
    /\ UNCHANGED <<files, hand, troubles, history>>

\* The holder is written, the directory made again should it be gone.
Hold(k) ==
    /\ At(k, "hold")
    /\ lock' = [dir |-> TRUE, holder |-> k, old |-> FALSE] /\ Goes(k, "read")
    /\ met' = (met \/ \E j \in Ticks : Held(j))
    /\ UNCHANGED <<files, hand, troubles, starts, fired, loose, rewrote, cut>>

\* No heartbeat is sent: a tick that takes longer than the lease loses it.
Lapse(k) ==
    /\ lock.holder = k /\ ~lock.old /\ Trouble
    /\ Held(k) \/ At(k, "remove")
    /\ lock' = [lock EXCEPT !.old = TRUE]
    /\ loose' = TRUE
    /\ UNCHANGED <<files, tick, hand, starts, fired, met, rewrote, cut>>

\* So does one that died.
LapseDead ==
    /\ lock.holder # None /\ ~lock.old
    /\ ~Held(lock.holder) /\ ~At(lock.holder, "remove")
    /\ lock' = [lock EXCEPT !.old = TRUE]
    /\ UNCHANGED <<files, tick, hand, troubles, history>>

\* Another's lease is left alone; none at all is ours.
Release(k) ==
    /\ At(k, "release")
    /\ IF lock.holder \notin {k, None} THEN tick' = [tick EXCEPT ![k] = Off] ELSE Goes(k, "remove")
    /\ UNCHANGED <<files, lock, hand, troubles, history>>

Remove(k) ==
    /\ At(k, "remove")
    /\ lock' = NoDir /\ tick' = [tick EXCEPT ![k] = Off]
    /\ UNCHANGED <<files, hand, troubles, history>>

----------------------------------------------------------------------------
(* runLocked.                                                              *)

\* The job is read again, and only the approved spec asked for.
Read(k) ==
    /\ At(k, "read")
    /\ IF job.ratified THEN tick' = [tick EXCEPT ![k] = [pc |-> "recover", task |-> None, saw |-> [job |-> job, sprint |-> sprint]]] ELSE Leaves(k)
    /\ UNCHANGED <<files, lock, hand, troubles, history>>

\* Variant: what is done is looked at again.
RecoveredAgain(t, seen) ==
    LET was == plan.task[t]
        st == CASE was.st \in {"running", "done"} -> IF seen THEN "done" ELSE "pending"
                [] was.st = "parked" -> "pending"
                [] OTHER -> was.st
    IN  [was EXCEPT !.st = IF st \in {"pending", "deferred"} /\ was.attempts >= Cap
                           THEN "failed" ELSE st]

\* recoverRunning, wakeDue and failExhausted on one task.  A running one may
\* be seen to be done, if there is a browser to see it with.
Recovered(t, seen) ==
    LET was == plan.task[t]
        st == CASE was.st = "running" -> IF seen THEN "done" ELSE "pending"
                [] was.st = "parked" -> "pending"
                [] OTHER -> was.st
    IN  [was EXCEPT !.st = IF st \in {"pending", "deferred"} /\ was.attempts >= Cap
                           THEN "failed" ELSE st]

Recover(k) ==
    /\ At(k, "recover") /\ Goes(k, "end")
    /\ \E seen \in IF k \in Hosted THEN BOOLEAN ELSE {FALSE} :
           plan' = [plan EXCEPT !.task = [t \in Tasks |-> Recovered(t, seen)]]
    /\ UNCHANGED <<job, spec, sprint, entity, asked, lock, hand, troubles, history>>

Open == {t \in Tasks : Status(t) \in {"pending", "running", "deferred", "parked"}}
Failed == {t \in Tasks : Status(t) = "failed"}

Task(k) == tick[k].task

\* terminalStatus, before the sprint and after a failure, and the transition it
\* calls for, which throws when the job was moved meanwhile.
End(k) ==
    /\ At(k, "end")
    /\ IF Open # {} THEN
          /\ IF Task(k) = None THEN Goes(k, "sprint") ELSE Leaves(k)
          /\ UNCHANGED job
       ELSE /\ Leaves(k)
            /\ LET to == IF Failed # {} THEN "failed" ELSE "completed"
               IN  IF CanMove(to) /\ (to = "completed" => Task(k) = None)
                   THEN MovesTo(to) ELSE UNCHANGED job
    /\ UNCHANGED <<spec, plan, sprint, entity, asked, lock, hand, troubles, history>>

\* Variant: a dependency that was abandoned is settled too.
ReadyAfterAbandoned ==
    {t \in Tasks : /\ Status(t) \in {"pending", "parked"} /\ plan.task[t].attempts < Cap
                   /\ plan.linked => \A d \in Deps(t) : Status(d) \in {"done", "abandoned"}}

\* readyTasks.
Ready ==
    {t \in Tasks : /\ Status(t) \in {"pending", "parked"} /\ plan.task[t].attempts < Cap
                   /\ plan.linked => \A d \in Deps(t) : Status(d) = "done"}

\* Variant: a sprint without tasks is open.
MadeOpen ==
    [kind |-> "open", tasks |-> {t \in Ready : Cardinality({u \in Ready : u < t}) < Limit}]

\* createSprint, of the first tasks that are ready.
Made ==
    LET first == {t \in Ready : Cardinality({u \in Ready : u < t}) < Limit}
    IN  [kind |-> IF first = {} THEN "holding" ELSE "open", tasks |-> first]

\* refreshSprint and sprintNeedsRollover.
RollsOver(it) ==
    it.kind = "open" /\ \A t \in it.tasks : Status(t) \in {"done", "abandoned", "deferred", "parked"}

\* ensureSprint makes a sprint when there is none, or a holding one with work,
\* and again after one whose tasks are all done or parked.  A new sprint writes
\* the status active, and where that throws the job points at the old one.
Sprint(k) ==
    LET keeps == sprint.kind = "open" \/ (sprint.kind = "holding" /\ Ready = {})
        now == IF keeps THEN sprint ELSE Made
        over == RollsOver(now)
    IN  /\ At(k, "sprint")
        /\ IF keeps /\ ~over THEN Goes(k, "pick") /\ UNCHANGED <<job, sprint>>
           ELSE IF CanMove("active") THEN
               /\ MovesTo("active") /\ sprint' = IF over THEN Made ELSE now
               /\ tick' = [tick EXCEPT ![k] = [pc |-> "pick", task |-> None,
                                            saw |-> [job |-> @.saw.job,
                                                     sprint |-> IF over THEN NoSprint ELSE @.saw.sprint]]]
           ELSE /\ Leaves(k) /\ UNCHANGED job
                /\ sprint' = IF over THEN NoSprint ELSE sprint
        /\ UNCHANGED <<spec, plan, entity, asked, lock, hand, troubles, history>>

\* pickSprintTask: the oldest task that is ready, in an open sprint one of its own.
Candidates == IF sprint.kind = "open" THEN Ready \cap sprint.tasks ELSE Ready

Pick(k) ==
    /\ At(k, "pick")
    /\ \/ Candidates = {} /\ Goes(k, "idle")
       \/ k \in Hosted /\ \E t \in Candidates :
              /\ \A u \in Candidates : t <= u
              /\ tick' = [tick EXCEPT ![k] = [pc |-> "mark", task |-> t, saw |-> None]]
    /\ UNCHANGED <<files, lock, hand, troubles, history>>

\* A tick without a browser, as from the command line, goes no further.
NoHost(k) ==
    /\ k \notin Hosted
    /\ At(k, "pick") /\ Candidates # {} /\ Leaves(k)
    /\ UNCHANGED <<files, lock, hand, troubles, history>>

\* Nothing to run: the job is written back as it was read, with its wake time
\* and the sprint it pointed at, which may be closed by now.
Idle(k) ==
    /\ At(k, "idle") /\ Leaves(k)
    /\ job' = tick[k].saw.job /\ sprint' = tick[k].saw.sprint
    /\ UNCHANGED <<spec, plan, entity, asked, lock, hand, troubles, history>>

\* Variant: an attempt that is only begun does not count.
MarkUncounted(k) ==
    LET t == Task(k)
    IN  /\ At(k, "mark") /\ Goes(k, "look") /\ Sets(t, "running")
        /\ starts' = [starts EXCEPT ![t] = @ + 1]
        /\ UNCHANGED <<job, spec, sprint, entity, asked, lock, hand, troubles,
                       fired, loose, met, rewrote, cut>>

\* markRunning counts the attempt.
Mark(k) ==
    LET t == Task(k)
    IN  /\ At(k, "mark") /\ Goes(k, "look")
        /\ plan' = [plan EXCEPT !.task[t] =
                       [st |-> "running", attempts |-> IF @.attempts > Cap THEN @.attempts ELSE @.attempts + 1]]
        /\ starts' = [starts EXCEPT ![t] = @ + 1]
        /\ UNCHANGED <<job, spec, sprint, entity, asked, lock, hand, troubles,
                       fired, loose, met, rewrote, cut>>

----------------------------------------------------------------------------
(* The run of a task.                                                      *)

\* What an earlier run prepared may turn out to be done.
Reconcile(k) ==
    LET t == Task(k)
    IN  /\ At(k, "look")
        /\ \/ /\ entity[t].journal = "prepared"
              /\ entity' = [entity EXCEPT ![t].journal = "verified"]
              /\ Sets(t, "done") /\ Leaves(k)
           \/ Goes(k, "run") /\ UNCHANGED <<plan, entity>>
        /\ UNCHANGED <<job, spec, sprint, asked, lock, hand, troubles, history>>

\* discover: a task of a discoverable template joins the plan.
Discover(k) ==
    /\ At(k, "run") /\ Trouble
    /\ \E t \in spec.finds : Status(t) = "absent" /\ Sets(t, "pending")
    /\ UNCHANGED <<job, spec, sprint, entity, asked, lock, tick, hand, history>>

\* The run ends, or comes to its consequential action: claim refuses when the
\* journal says verified, and otherwise prepares it.
Work(k) ==
    LET t == Task(k)
    IN  /\ At(k, "run")
        /\ \/ Goes(k, "settle") /\ UNCHANGED entity
           \/ /\ t \in Commits /\ entity[t].journal # "verified"
              /\ entity' = [entity EXCEPT ![t].journal = "prepared"] /\ Goes(k, "claim")
        /\ UNCHANGED <<job, spec, plan, sprint, asked, lock, hand, troubles, history>>

\* Variant: a prepared journal is claim enough.
ClaimFreely(k) ==
    LET t == Task(k)
    IN  /\ At(k, "claim")
        /\ entity' = [entity EXCEPT ![t].consumed = TRUE] /\ Goes(k, "act")
        /\ UNCHANGED <<job, spec, plan, sprint, asked, lock, hand, troubles, history>>

\* GoalStore.claim.
Claim(k) ==
    LET t == Task(k)
    IN  /\ At(k, "claim")
        /\ \/ entity[t].consumed /\ Goes(k, "settle") /\ UNCHANGED entity
           \/ /\ ~entity[t].consumed /\ Goes(k, "act")
              /\ entity' = [entity EXCEPT ![t].consumed = TRUE]
        /\ UNCHANGED <<job, spec, plan, sprint, asked, lock, hand, troubles, history>>

Act(k) ==
    /\ At(k, "act") /\ Goes(k, "settle")
    /\ fired' = fired \cup {Task(k)}
    /\ UNCHANGED <<files, lock, hand, troubles, starts, loose, met, rewrote, cut>>

\* evaluateTask, and what follows: done, parked with an item in the inbox,
\* the approach abandoned, failed for good, or tried again.
Success(k) ==
    /\ At(k, "settle") /\ Sets(Task(k), "done") /\ Goes(k, "book")
    /\ UNCHANGED <<job, spec, sprint, entity, asked, lock, hand, troubles, history>>

Book(k) ==
    LET t == Task(k)
    IN  /\ At(k, "book") /\ Leaves(k)
        /\ entity' = [entity EXCEPT ![t].journal = IF @ = "none" THEN "none" ELSE "verified"]
        /\ UNCHANGED <<job, spec, plan, sprint, asked, lock, hand, troubles, history>>

Park(k) ==
    /\ At(k, "settle") /\ asked' = asked \cup {Task(k)} /\ Goes(k, "defer")
    /\ UNCHANGED <<job, spec, plan, sprint, entity, lock, hand, troubles, history>>

Defer(k) ==
    /\ At(k, "defer") /\ Sets(Task(k), "deferred") /\ Leaves(k)
    /\ UNCHANGED <<job, spec, sprint, entity, asked, lock, hand, troubles, history>>

\* replaceApproach takes all tasks of the template, but spares what is done.
Siblings(t) == IF t \in spec.finds THEN {u \in spec.finds : Status(u) # "absent"} ELSE {t}

Abandon(k) ==
    /\ At(k, "settle") /\ Leaves(k)
    /\ LET left == {t \in Siblings(Task(k)) : Status(t) # "done"}
       IN  plan' = [plan EXCEPT !.task =
                       [t \in Tasks |-> IF t \in left THEN [@[t] EXCEPT !.st = "abandoned"] ELSE @[t]]]
    /\ UNCHANGED <<job, spec, sprint, entity, asked, lock, hand, troubles, history>>

Fail(k) ==
    /\ At(k, "settle") /\ Sets(Task(k), "failed")
    /\ Goes(k, "end")
    /\ UNCHANGED <<job, spec, sprint, entity, asked, lock, hand, troubles, history>>

Retry(k) ==
    /\ At(k, "settle") /\ plan.task[Task(k)].attempts < Cap
    /\ Sets(Task(k), "pending") /\ Leaves(k)
    /\ UNCHANGED <<job, spec, sprint, entity, asked, lock, hand, troubles, history>>

----------------------------------------------------------------------------
(* The person, at the service, without a lease.                            *)

HandAt(pc) == hand.pc = pc

\* updateDraft, while the job is planned.
Redraft ==
    /\ HandAt("free") /\ Trouble
    /\ job.st \in {"planning", "awaiting"}
    /\ spec' = [spec EXCEPT !.st = "draft"] /\ MovesTo("planning")
    /\ UNCHANGED <<plan, sprint, entity, asked, lock, tick, hand, history>>

\* revise, while there are no tasks.
Revise ==
    /\ HandAt("free") /\ Trouble
    /\ CanMove("planning") /\ \A t \in Tasks : Status(t) = "absent"
    /\ spec' = [spec EXCEPT !.st = "draft"] /\ MovesTo("planning")
    /\ UNCHANGED <<plan, sprint, entity, asked, lock, tick, hand, history>>

Propose ==
    /\ HandAt("free") /\ job.st \in {"planning", "awaiting"}
    /\ ~(spec.st = "proposed" /\ job.st = "awaiting")
    /\ spec' = [spec EXCEPT !.st = "proposed"] /\ hand' = [Free EXCEPT !.pc = "await"]
    /\ UNCHANGED <<job, plan, sprint, entity, asked, lock, tick, troubles, history>>

Await ==
    /\ HandAt("await") /\ hand' = Free
    /\ IF CanMove("awaiting") THEN MovesTo("awaiting") ELSE UNCHANGED job
    /\ UNCHANGED <<spec, plan, sprint, entity, asked, lock, tick, troubles, history>>

\* approvePlan: the spec, then the tasks one by one unless there are some,
\* then what they depend on, then the job.
Approve ==
    /\ HandAt("free") /\ spec.st = "proposed"
    /\ spec' = [spec EXCEPT !.st = "approved"]
    /\ hand' = [Free EXCEPT !.pc = IF \A t \in Tasks : Status(t) = "absent" THEN "add" ELSE "activate"]
    /\ UNCHANGED <<job, plan, sprint, entity, asked, lock, tick, troubles, history>>

Missing == {t \in Tasks \ spec.finds : Status(t) = "absent"}

Add ==
    /\ HandAt("add")
    /\ \E t \in Missing : (\A u \in Missing : t <= u) /\ Sets(t, "pending")
    /\ hand' = [hand EXCEPT !.pc = IF Cardinality(Missing) = 1 THEN "link" ELSE "add"]
    /\ UNCHANGED <<job, spec, sprint, entity, asked, lock, tick, troubles, history>>

Link ==
    /\ HandAt("link") /\ hand' = [hand EXCEPT !.pc = "activate"]
    /\ plan' = [plan EXCEPT !.linked = TRUE]
    /\ UNCHANGED <<job, spec, sprint, entity, asked, lock, tick, troubles, history>>

Activate ==
    /\ HandAt("activate") /\ hand' = Free
    /\ IF CanMove("active") THEN job' = [st |-> "active", ratified |-> TRUE] ELSE UNCHANGED job
    /\ UNCHANGED <<spec, plan, sprint, entity, asked, lock, tick, troubles, history>>

\* pause, and resume, which makes a job active that was never approved.
Toggle ==
    /\ HandAt("free") /\ Trouble
    /\ \E to \in {"paused", "active"} : job.st # to /\ to \in Moves[job.st] /\ MovesTo(to)
    /\ UNCHANGED <<spec, plan, sprint, entity, asked, lock, tick, hand, history>>

\* answerHuman: whatever the item's state and the task's, the task is pending
\* again, in a copy of the plan.
Answer ==
    /\ HandAt("free") /\ Trouble
    /\ \E t \in asked : hand' = [pc |-> "mark", task |-> t, copy |-> plan]
    /\ UNCHANGED <<files, lock, tick, history>>

\* The copy is written, or lost in a tick's writing; the entity is read.
AnswerMark ==
    LET t == hand.task
    IN  /\ HandAt("mark")
        /\ \/ /\ plan' = [hand.copy EXCEPT !.task[t].st = "pending"]
              /\ rewrote' = (rewrote \/ hand.copy # plan \/ Status(t) = "done")
           \/ UNCHANGED <<plan, rewrote>>
        /\ hand' = [hand EXCEPT !.pc = "unpark", !.copy = entity[t]]
        /\ UNCHANGED <<job, spec, sprint, entity, asked, lock, tick, troubles,
                       starts, fired, loose, met, cut>>

\* unpark writes the whole entity back, its journal and claims as they were.
AnswerUnpark ==
    LET t == hand.task
    IN  /\ HandAt("unpark") /\ hand' = Free
        /\ entity' = [entity EXCEPT ![t] = hand.copy]
        /\ rewrote' = (rewrote \/ hand.copy # entity[t])
        /\ UNCHANGED <<job, spec, plan, sprint, asked, lock, tick, troubles,
                       starts, fired, loose, met, cut>>

----------------------------------------------------------------------------
(* Time and crashes.                                                       *)

Due ==
    /\ \E t \in Tasks : Status(t) = "deferred" /\ Sets(t, "parked")
    /\ UNCHANGED <<job, spec, sprint, entity, asked, lock, tick, hand, troubles, history>>

Crash(k) ==
    /\ ~At(k, "off") /\ Trouble
    /\ tick' = [tick EXCEPT ![k] = Off]
    /\ UNCHANGED <<files, lock, hand, history>>

CrashHand ==
    /\ ~HandAt("free") /\ Trouble
    /\ hand' = Free /\ cut' = (cut \/ HandAt("add") \/ HandAt("link"))
    /\ UNCHANGED <<files, lock, tick, starts, fired, loose, met, rewrote>>

Runs(k) ==
    \/ MakeDir(k) \/ Steal(k) \/ MakeDirAgain(k) \/ Hold(k) \/ Release(k) \/ Remove(k)
    \/ Read(k) \/ Recover(k) \/ End(k) \/ Sprint(k) \/ Pick(k) \/ NoHost(k) \/ Idle(k) \/ Mark(k)
    \/ Reconcile(k) \/ Work(k) \/ Claim(k) \/ Act(k)
    \/ Success(k) \/ Book(k) \/ Park(k) \/ Defer(k) \/ Abandon(k) \/ Fail(k) \/ Retry(k)

Next ==
    \/ \E k \in Ticks :
           \/ Start(k) \/ Runs(k) \/ Discover(k)
           \/ Lapse(k) \/ Crash(k)
    \/ Redraft \/ Revise \/ Propose \/ Await \/ Approve \/ Add \/ Link \/ Activate
    \/ Toggle \/ Answer \/ AnswerMark \/ AnswerUnpark
    \/ LapseDead \/ Due \/ CrashHand

\* A process with a browser keeps ticking the job; a tick goes on once begun;
\* and time passes.
Fairness ==
    /\ \A k \in Hosted : WF_vars(Start(k))
    /\ \A k \in Ticks : WF_vars(Runs(k))
    /\ WF_vars(LapseDead) /\ WF_vars(Due)

Spec == Init /\ [][Next]_vars /\ Fairness

----------------------------------------------------------------------------
(* What must hold.                                                         *)

\* Two ticks work on a job at once only after a lease lapsed under one that
\* was still at work, or a directory was taken before its holder was named in
\* it, or two ticks displaced the same holder: never because a process died.
LeaseExcludes == Cardinality({k \in Ticks : Held(k)}) > 1 => loose

\* A task is started no more than Cap times, crashed attempts included, unless
\* two ticks met or an answer undid a tick's writing.
AttemptsBounded == met \/ rewrote \/ \A t \in Tasks : starts[t] <= Cap

\* What has been started keeps its dependencies done, unless the plan was left
\* half made, two ticks met, or an answer reopened what was done.
StartedAfterDeps ==
    met \/ rewrote \/ cut
        \/ \A t \in Tasks : starts[t] > 0 => \A d \in Deps(t) : Status(d) = "done"

\* The action of a task is done once, over crashes, parking and retries, unless
\* two ticks met or an answer wrote an older entity back.
CommitOnce ==
    [][\A k \in Ticks : At(k, "act") /\ tick'[k].pc = "settle" /\ Task(k) \in fired =>
           met \/ rewrote]_vars

\* A task that is done stays so, but for an answer or a tick beside another.
DoneStays ==
    [][\A t \in Tasks : Status(t) = "done" /\ plan'.task[t].st # "done" =>
           HandAt("mark") \/ met]_vars

\* Once nobody ticks by hand any more, a job that was approved comes to its end
\* or is paused: no lease outlives its holder and no task waits for ever, unless
\* a task failed for good or was abandoned (such a member keeps its sprint open,
\* and what depends on it waiting), two ticks met, or an answer undid a tick's
\* writing (a done task it reopens is in no open sprint).
WorkEnds ==
    <>[](\A k \in Ticks \ Hosted : At(k, "off")) =>
        (job.st = "active" /\ job.ratified ~>
            \/ job.st # "active" \/ met \/ rewrote
            \/ \E t \in Tasks : Status(t) \in {"failed", "abandoned"})

====
