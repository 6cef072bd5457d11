---- MODULE SprintJobsProofs ----
(***************************************************************************)
(* What SprintJobs promises, for any number of processes, tasks, attempts  *)
(* and troubles.                                                           *)
(***************************************************************************)
EXTENDS SprintJobs, FiniteSetTheorems, TLAPS

Pcs == {"off", "lock", "steal", "again", "hold", "remove"} \cup Behind
Saw == [job : Jobs, sprint : Sprints]

\* A tick at work on a task has one, an acting one a task with an action, and
\* a tick that may write the job back has read it; the person's copy is what
\* was read.
Informed(s) ==
    /\ s.pc \in {"mark", "look", "run", "claim", "act", "settle", "book", "defer"} => s.task \in Tasks
    /\ s.pc \in {"claim", "act"} => s.task \in Commits
    /\ s.pc \in {"recover", "sprint", "pick", "idle"} => s.saw \in Saw
    /\ s.pc = "end" /\ s.task = None => s.saw \in Saw

Known ==
    /\ \A k \in Ticks : Informed(tick[k])
    /\ hand.pc = "mark" => hand.task \in Tasks /\ hand.copy \in Plans
    /\ hand.pc = "unpark" => hand.task \in Tasks /\ hand.copy \in Entities

TInv == TypeOK /\ Known

\* Who counts on the lease's directory, and who is about to displace one.
Owners == {k \in Ticks : tick[k].pc \in Behind \cup {"hold", "remove"}}
Displacers == {k \in Ticks : tick[k].pc \in {"steal", "again"}}

\* Until a lease is taken that somebody counts on: who is behind it is named in
\* it, who made the directory is alone with it, and who is about to take it
\* away has no owner to fear and nobody beside it.
LeaseKnown ==
    ~loose =>
        /\ \A k \in Ticks : Held(k) \/ At(k, "remove") => lock.dir /\ lock.holder = k /\ ~lock.old
        /\ \A k \in Ticks : At(k, "hold") =>
               lock.dir /\ lock.holder = None /\ \A j \in Ticks : At(j, "hold") => j = k
        /\ \A k \in Ticks : At(k, "steal") => lock.dir /\ Owners = {}
        /\ \A j, k \in Displacers : j = k

\* Behind the lease is one tick, until two meet.
OneTick == ~met => \A j, k \in Ticks : Held(j) /\ Held(k) => j = k

\* A tick works on nothing that is done, and a person's copy has nothing done
\* that is not so now.
OnTask == {"mark", "look", "run", "claim", "act", "settle", "defer"}
DoneKnown ==
    ~met =>
        /\ \A k \in Ticks : tick[k].pc \in OnTask => Status(Task(k)) # "done"
        /\ hand.pc = "mark" =>
               \A t \in Tasks : hand.copy.task[t].st = "done" => Status(t) = "done"

\* Every start is an attempt, and a tick that is about to start has one left.
CountKnown ==
    ~met /\ ~rewrote =>
        /\ \A t \in Tasks : starts[t] <= plan.task[t].attempts /\ plan.task[t].attempts <= Cap
        /\ \A k \in Ticks : At(k, "mark") => plan.task[Task(k)].attempts < Cap

\* What was done is claimed, and what a tick is about to do it has claimed and
\* nobody did.
ActKnown ==
    ~met /\ ~rewrote =>
        /\ \A t \in fired : entity[t].consumed
        /\ \A k \in Ticks : At(k, "act") => entity[Task(k)].consumed /\ Task(k) \notin fired

\* The plan that is worked on is linked.
Inner == Behind \ {"read", "release"}
LinkKnown ==
    ~rewrote /\ ~cut =>
        /\ job.ratified \/ asked # {} \/ HandAt("mark") \/ HandAt("activate") => plan.linked
        /\ \A k \in Ticks : tick[k].pc \in Inner => plan.linked
        /\ (\E t \in Tasks : Status(t) # "absent") => plan.linked \/ hand.pc \in {"add", "link"}

\* What has been started, or is about to be, keeps its dependencies done.
DepsKnown ==
    ~met /\ ~rewrote /\ ~cut =>
        /\ \A t \in Tasks : starts[t] > 0 => \A d \in Deps(t) : Status(d) = "done"
        /\ \A k \in Ticks : At(k, "mark") => \A d \in Deps(Task(k)) : Status(d) = "done"

IInv ==
    /\ TInv /\ LeaseKnown /\ OneTick
    /\ DoneKnown /\ CountKnown /\ ActKnown /\ LinkKnown /\ DepsKnown

----------------------------------------------------------------------------
(* The operators the actions are built from.                               *)

\* A tick that goes on keeps what it holds, and no other tick moves.
LEMMA GoesFacts ==
    ASSUME tick \in [Ticks -> TickStates], NEW k \in Ticks, NEW pc \in Pcs, Goes(k, pc)
    PROVE  /\ tick' \in [Ticks -> TickStates]
           /\ tick'[k].pc = pc /\ tick'[k].task = tick[k].task /\ tick'[k].saw = tick[k].saw
           /\ \A j \in Ticks : j # k => tick'[j] = tick[j]
  BY DEF Goes, TickStates, Pcs

\* A tick that leaves has only its lease to release.
LEMMA LeavesFacts ==
    ASSUME tick \in [Ticks -> TickStates], NEW k \in Ticks, Leaves(k)
    PROVE  /\ tick' \in [Ticks -> TickStates]
           /\ tick'[k].pc = "release"
           /\ \A j \in Ticks : j # k => tick'[j] = tick[j]
  BY DEF Leaves, Off, TickStates, Behind

\* A tick that is over holds nothing.
LEMMA OffFacts ==
    ASSUME tick \in [Ticks -> TickStates], NEW k \in Ticks, tick' = [tick EXCEPT ![k] = Off]
    PROVE  /\ tick' \in [Ticks -> TickStates]
           /\ tick'[k].pc = "off"
           /\ \A j \in Ticks : j # k => tick'[j] = tick[j]
  BY DEF Off, TickStates

\* A task's status changes, and nothing else of the plan.
LEMMA SetsFacts ==
    ASSUME plan \in Plans, NEW t, NEW st \in Statuses, Sets(t, st)
    PROVE  /\ plan' \in Plans /\ plan'.linked = plan.linked
           /\ \A u \in Tasks : plan'.task[u].attempts = plan.task[u].attempts
           /\ t \in Tasks => plan'.task[t].st = st
           /\ \A u \in Tasks : u # t => plan'.task[u] = plan.task[u]
  BY DEF Sets, Plans

\* The job moves to another status.
LEMMA MovesFacts ==
    ASSUME job \in Jobs, NEW to \in DOMAIN Moves, MovesTo(to)
    PROVE  job' \in Jobs
  BY DEF MovesTo, Jobs

\* What a tick's maintenance makes of a task: what is done stays done, and an
\* attempt more or less is never made up.
LEMMA RecoveredFacts ==
    ASSUME plan \in Plans, NEW t \in Tasks, NEW seen \in BOOLEAN
    PROVE  /\ Recovered(t, seen) \in [st : Statuses, attempts : 0..Cap + 1]
           /\ Recovered(t, seen).attempts = plan.task[t].attempts
           /\ plan.task[t].st = "done" => Recovered(t, seen).st = "done"
           /\ Recovered(t, seen).st = "done" => plan.task[t].st \in {"done", "running"}
  <1> DEFINE was == plan.task[t]
             st == CASE was.st = "running" -> IF seen THEN "done" ELSE "pending"
                     [] was.st = "parked" -> "pending"
                     [] OTHER -> was.st
             last == IF st \in {"pending", "deferred"} /\ was.attempts >= Cap THEN "failed" ELSE st
  <1>1. was \in [st : Statuses, attempts : 0..Cap + 1]
    BY DEF Plans
  <1>2. /\ st \in Statuses /\ (was.st = "done" => st = "done")
        /\ st = "done" => was.st \in {"done", "running"}
    BY <1>1 DEF Statuses
  <1>3. Recovered(t, seen) = [was EXCEPT !.st = last]
    BY DEF Recovered
  <1> HIDE DEF was, st
  <1>4. /\ last \in Statuses /\ (st = "done" => last = "done") /\ (last = "done" => st = "done")
    BY <1>2 DEF Statuses
  <1> HIDE DEF last
  <1>5. /\ Recovered(t, seen) \in [st : Statuses, attempts : 0..Cap + 1]
        /\ Recovered(t, seen).attempts = was.attempts /\ Recovered(t, seen).st = last
    BY <1>1, <1>3, <1>4
  <1> QED BY <1>2, <1>4, <1>5 DEF was

----------------------------------------------------------------------------
(* Type correctness.                                                       *)

LEMMA TInvInit == Init => TInv
  <1> SUFFICES ASSUME Init PROVE TInv
    OBVIOUS
  <1> USE DEF Init, Off, Free, NoSprint, NoDir
  <1>1. job \in Jobs /\ spec \in [st : {"draft", "proposed", "approved"}, finds : {{}, Finds}]
    BY DEF Jobs, Moves
  <1>2. plan \in Plans /\ sprint \in Sprints /\ entity \in [Tasks -> Entities] /\ asked \subseteq Tasks
    <2>1. 0 \in 0..Cap + 1
      BY NumbersAreNatural
    <2> QED BY <2>1 DEF Plans, Sprints, Entities, Statuses
  <1>3. tick \in [Ticks -> TickStates] /\ hand \in HandStates
    BY DEF TickStates, HandStates
  <1>4. troubles \in 0..MaxTroubles
    BY NumbersAreNatural
  <1>5. Known
    BY DEF Known, Informed
  <1> QED BY <1>1, <1>2, <1>3, <1>4, <1>5 DEF TInv, TypeOK

\* A step of the tick's lease alone.
LEMMA TypeLease ==
    ASSUME TInv, NEW k \in Ticks,
           \/ Start(k) \/ MakeDir(k) \/ Steal(k) \/ MakeDirAgain(k) \/ Hold(k) \/ Lapse(k)
           \/ LapseDead \/ Release(k) \/ Remove(k) \/ Crash(k)
    PROVE  TInv'
  <1> USE NumbersAreNatural DEF TInv
  <1>1. UNCHANGED <<files, hand, starts, fired, met, rewrote, cut>> \/ UNCHANGED <<files, hand, starts, fired, loose, rewrote, cut>>
    BY DEF Start, MakeDir, Steal, MakeDirAgain, Hold, Lapse, LapseDead, Release, Remove, Crash, history
  <1>2. loose' \in BOOLEAN /\ met' \in BOOLEAN
    BY DEF Start, MakeDir, Steal, MakeDirAgain, Hold, Lapse, LapseDead, Release, Remove, Crash, history, TypeOK
  <1>3. troubles' \in 0..MaxTroubles
    BY DEF Start, MakeDir, Steal, MakeDirAgain, Hold, Lapse, LapseDead, Release, Remove, Crash, TypeOK, Trouble
  <1>4. lock' \in [dir : BOOLEAN, holder : Ticks \cup {None}, old : BOOLEAN] /\ (lock'.holder # None => lock'.dir)
    <2> DEFINE Locks == [dir : BOOLEAN, holder : Ticks \cup {None}, old : BOOLEAN]
    <2>1. lock \in Locks /\ (lock.holder # None => lock.dir)
      BY DEF TypeOK
    <2>2. /\ NoDir \in Locks /\ NoDir.holder = None
          /\ [NoDir EXCEPT !.dir = TRUE] \in Locks /\ [NoDir EXCEPT !.dir = TRUE].holder = None
      BY DEF NoDir
    <2>3. [dir |-> TRUE, holder |-> k, old |-> FALSE] \in Locks
      OBVIOUS
    <2>4. ASSUME lock' = [lock EXCEPT !.old = TRUE]
          PROVE  lock' \in Locks /\ lock'.holder = lock.holder /\ lock'.dir = lock.dir
      BY <2>1, <2>4
    <2>5. \/ lock' = lock \/ lock' = NoDir \/ lock' = [NoDir EXCEPT !.dir = TRUE]
          \/ lock' = [dir |-> TRUE, holder |-> k, old |-> FALSE] \/ lock' = [lock EXCEPT !.old = TRUE]
      BY DEF Start, MakeDir, Steal, MakeDirAgain, Hold, Lapse, LapseDead, Release, Remove, Crash, files
    <2> QED BY <2>1, <2>2, <2>3, <2>4, <2>5
  <1>5. /\ tick' \in [Ticks -> TickStates]
        /\ \A j \in Ticks : \/ tick'[j] = tick[j]
                            \/ tick'[j].pc \in {"off", "lock", "steal", "again", "hold", "read", "remove"}
    <2>1. tick \in [Ticks -> TickStates]
      BY DEF TypeOK
    <2>2. {"lock", "steal", "again", "hold", "read", "remove"} \subseteq Pcs
      BY DEF Pcs, Behind
    <2>3. CASE Start(k)
      BY <2>1, <2>2, <2>3, GoesFacts DEF Start
    <2>4. CASE MakeDir(k) \/ MakeDirAgain(k)
      BY <2>1, <2>2, <2>4, GoesFacts, OffFacts DEF MakeDir, MakeDirAgain
    <2>5. CASE Steal(k) \/ Hold(k)
      BY <2>1, <2>2, <2>5, GoesFacts DEF Steal, Hold
    <2>6. CASE Lapse(k) \/ LapseDead
      BY <2>1, <2>6 DEF Lapse, LapseDead
    <2>7. CASE Release(k) \/ Remove(k) \/ Crash(k)
      BY <2>1, <2>2, <2>7, GoesFacts, OffFacts DEF Release, Remove, Crash
    <2> QED BY <2>3, <2>4, <2>5, <2>6, <2>7
  <1>6. Known'
    BY <1>1, <1>5 DEF Known, Informed, files
  <1> QED BY <1>1, <1>2, <1>3, <1>4, <1>5, <1>6 DEF TypeOK, files

\* A step of one tick that leaves the lease, the person and the bounds alone.
LEMMA TypeTick ==
    ASSUME TInv, NEW k \in Ticks,
           tick' \in [Ticks -> TickStates], \A j \in Ticks : j # k => tick'[j] = tick[j],
           Informed(tick'[k]),
           job' \in Jobs, plan' \in Plans, sprint' \in Sprints, entity' \in [Tasks -> Entities],
           asked' \subseteq Tasks, starts' \in [Tasks -> Nat], fired' \subseteq Commits,
           troubles' \in 0..MaxTroubles,
           UNCHANGED <<spec, lock, hand, loose, met, rewrote, cut>>
    PROVE  TInv'
  <1>1. Known'
    BY DEF TInv, Known
  <1> QED BY <1>1 DEF TInv, TypeOK

\* Until a task is picked, and what ends a tick without one.
LEMMA TypeRun ==
    ASSUME TInv, NEW k \in Ticks,
           Read(k) \/ Recover(k) \/ End(k) \/ Sprint(k) \/ Pick(k) \/ NoHost(k) \/ Idle(k)
    PROVE  TInv'
  <1>1. /\ tick \in [Ticks -> TickStates] /\ Informed(tick[k]) /\ tick[k] \in TickStates
        /\ job \in Jobs /\ plan \in Plans /\ sprint \in Sprints /\ entity \in [Tasks -> Entities]
        /\ asked \subseteq Tasks /\ starts \in [Tasks -> Nat] /\ fired \subseteq Commits
        /\ troubles \in 0..MaxTroubles
    BY DEF TInv, TypeOK, Known
  <1>2. {"recover", "end", "sprint", "pick", "idle", "mark", "release"} \subseteq Pcs
    BY DEF Pcs, Behind
  <1>3. CASE Read(k)
    <2>1. CASE job.ratified
      <3> DEFINE new == [pc |-> "recover", task |-> None, saw |-> [job |-> job, sprint |-> sprint]]
      <3>1. new \in TickStates /\ Informed(new)
        BY <1>1 DEF TickStates, Behind, Saw, Informed
      <3>2. tick' = [tick EXCEPT ![k] = new]
        BY <1>3, <2>1 DEF Read
      <3> HIDE DEF new
      <3>3. /\ tick' \in [Ticks -> TickStates] /\ tick'[k] = new
            /\ \A j \in Ticks : j # k => tick'[j] = tick[j]
        BY <1>1, <3>1, <3>2
      <3> QED BY <1>1, <1>3, <3>1, <3>3, TypeTick DEF Read, files, history
    <2>2. CASE ~job.ratified
      <3>1. Leaves(k)
        BY <1>3, <2>2 DEF Read
      <3>2. Informed(tick'[k])
        BY <1>1, <3>1, LeavesFacts DEF Informed
      <3> QED BY <1>1, <1>3, <3>1, <3>2, LeavesFacts, TypeTick DEF Read, files, history
    <2> QED BY <2>1, <2>2
  <1>4. CASE Recover(k)
    <2>1. Goes(k, "end") /\ tick[k].pc = "recover"
      BY <1>4 DEF Recover, At
    <2>2. Informed(tick'[k])
      BY <1>1, <1>2, <2>1, GoesFacts DEF Informed
    <2>3. PICK seen \in BOOLEAN : plan' = [plan EXCEPT !.task = [t \in Tasks |-> Recovered(t, seen)]]
      BY <1>4 DEF Recover
    <2>4. \A t \in Tasks : Recovered(t, seen) \in [st : Statuses, attempts : 0..Cap + 1]
      BY <1>1, RecoveredFacts
    <2>5. plan' \in Plans
      BY <1>1, <2>3, <2>4 DEF Plans
    <2> QED BY <1>1, <1>2, <1>4, <2>1, <2>2, <2>5, GoesFacts, TypeTick DEF Recover, history
  <1>5. CASE End(k)
    <2>1. job' \in Jobs
      <3>1. "failed" \in DOMAIN Moves /\ "completed" \in DOMAIN Moves
        BY DEF Moves
      <3>2. job' = job \/ MovesTo("failed") \/ MovesTo("completed")
        BY <1>5 DEF End
      <3> QED BY <1>1, <3>1, <3>2, MovesFacts
    <2>2. tick[k].pc = "end" /\ ((Goes(k, "sprint") /\ tick[k].task = None) \/ Leaves(k))
      BY <1>5 DEF End, At, Task
    <2>3. /\ tick' \in [Ticks -> TickStates] /\ \A j \in Ticks : j # k => tick'[j] = tick[j]
          /\ Informed(tick'[k])
      BY <1>1, <1>2, <2>2, GoesFacts, LeavesFacts DEF Informed
    <2> QED BY <1>1, <1>5, <2>1, <2>3, TypeTick DEF End, history
  <1>6. CASE Sprint(k)
    <2>1. Made \in Sprints /\ NoSprint \in Sprints
      <3> DEFINE first == {t \in Ready : Cardinality({u \in Ready : u < t}) < Limit}
      <3>1. first \subseteq Tasks
        BY DEF Ready
      <3>2. Made = [kind |-> IF first = {} THEN "holding" ELSE "open", tasks |-> first]
        BY DEF Made
      <3> HIDE DEF first
      <3>3. first = {} \/ first \in (SUBSET Tasks) \ {{}}
        BY <3>1
      <3> QED BY <3>2, <3>3 DEF Sprints, NoSprint
    <2>2. sprint' \in Sprints
      BY <1>1, <1>6, <2>1 DEF Sprint
    <2>3. job' \in Jobs
      <3>1. "active" \in DOMAIN Moves
        BY DEF Moves
      <3> QED BY <1>1, <1>6, <3>1, MovesFacts DEF Sprint
    <2>4. /\ tick' \in [Ticks -> TickStates] /\ \A j \in Ticks : j # k => tick'[j] = tick[j]
          /\ Informed(tick'[k])
      <3>1. tick[k].pc = "sprint" /\ tick[k].saw \in Saw
        BY <1>1, <1>6 DEF Sprint, At, Informed
      <3>2. CASE Goes(k, "pick") \/ Leaves(k)
        BY <1>1, <1>2, <3>1, <3>2, GoesFacts, LeavesFacts DEF Informed
      <3>3. CASE \E sp \in Sprints :
                    tick' = [tick EXCEPT ![k] = [pc |-> "pick", task |-> None,
                                                 saw |-> [job |-> tick[k].saw.job, sprint |-> sp]]]
        <4>1. PICK sp \in Sprints :
                  tick' = [tick EXCEPT ![k] = [pc |-> "pick", task |-> None,
                                               saw |-> [job |-> tick[k].saw.job, sprint |-> sp]]]
          BY <3>3
        <4> DEFINE new == [pc |-> "pick", task |-> None, saw |-> [job |-> tick[k].saw.job, sprint |-> sp]]
        <4>2. new \in TickStates /\ Informed(new)
          BY <1>1, <3>1 DEF TickStates, Saw, Behind, Informed
        <4>3. tick' = [tick EXCEPT ![k] = new]
          BY <4>1
        <4> HIDE DEF new
        <4> QED BY <1>1, <4>2, <4>3
      <3>4. tick[k].saw.sprint \in Sprints
        BY <3>1 DEF Saw
      <3> QED BY <1>6, <2>1, <3>2, <3>3, <3>4 DEF Sprint
    <2> QED BY <1>1, <1>6, <2>2, <2>3, <2>4, TypeTick DEF Sprint, history
  <1>7. CASE Pick(k)
    <2>1. /\ tick' \in [Ticks -> TickStates] /\ \A j \in Ticks : j # k => tick'[j] = tick[j]
          /\ Informed(tick'[k])
      <3>1. CASE Goes(k, "idle")
        BY <1>1, <1>2, <1>7, <3>1, GoesFacts DEF Pick, At, Informed
      <3>2. CASE \E t \in Candidates : tick' = [tick EXCEPT ![k] = [pc |-> "mark", task |-> t, saw |-> None]]
        <4>1. PICK t \in Candidates : tick' = [tick EXCEPT ![k] = [pc |-> "mark", task |-> t, saw |-> None]]
          BY <3>2
        <4>2. t \in Tasks
          BY DEF Candidates, Ready
        <4>3. [pc |-> "mark", task |-> t, saw |-> None] \in TickStates
          BY <4>2 DEF TickStates, Behind
        <4> QED BY <1>1, <4>1, <4>2, <4>3 DEF Informed
      <3> QED BY <1>7, <3>1, <3>2 DEF Pick
    <2> QED BY <1>1, <1>7, <2>1, TypeTick DEF Pick, files, history
  <1>8. CASE NoHost(k)
    <2>1. Informed(tick'[k])
      BY <1>1, <1>8, LeavesFacts DEF NoHost, Informed
    <2> QED BY <1>1, <1>8, <2>1, LeavesFacts, TypeTick DEF NoHost, files, history
  <1>9. CASE Idle(k)
    <2>1. Informed(tick'[k])
      BY <1>1, <1>9, LeavesFacts DEF Idle, Informed
    <2>2. job' \in Jobs /\ sprint' \in Sprints
      BY <1>1, <1>9 DEF Idle, At, Informed, Saw
    <2> QED BY <1>1, <1>9, <2>1, <2>2, LeavesFacts, TypeTick DEF Idle, history
  <1> QED BY <1>3, <1>4, <1>5, <1>6, <1>7, <1>8, <1>9

\* The run of a task and what follows from it.
LEMMA TypeWork ==
    ASSUME TInv, NEW k \in Ticks,
           \/ Mark(k) \/ Reconcile(k) \/ Discover(k) \/ Work(k) \/ Claim(k) \/ Act(k) \/ Success(k)
           \/ Book(k) \/ Park(k) \/ Defer(k) \/ Abandon(k) \/ Fail(k) \/ Retry(k)
    PROVE  TInv'
  <1>1. /\ tick \in [Ticks -> TickStates] /\ Informed(tick[k]) /\ tick[k] \in TickStates
        /\ job \in Jobs /\ plan \in Plans /\ sprint \in Sprints /\ entity \in [Tasks -> Entities]
        /\ asked \subseteq Tasks /\ starts \in [Tasks -> Nat] /\ fired \subseteq Commits
        /\ troubles \in 0..MaxTroubles
    BY DEF TInv, TypeOK, Known
  <1>2. {"look", "run", "settle", "claim", "act", "book", "defer", "end", "release"} \subseteq Pcs
    BY DEF Pcs, Behind
  <1>3. /\ tick' \in [Ticks -> TickStates] /\ \A j \in Ticks : j # k => tick'[j] = tick[j]
        /\ Informed(tick'[k])
    <2>1. /\ tick[k].pc \in {"mark", "look", "run", "claim", "act", "settle", "book", "defer"}
          /\ tick[k].pc = "claim" => tick[k].task \in Commits
          /\ \/ tick' = tick
             \/ \E pc \in {"look", "run", "settle", "book", "defer", "end"} : Goes(k, pc)
             \/ \E pc \in {"claim", "act"} : Goes(k, pc) /\ tick[k].task \in Commits
             \/ Leaves(k)
      BY <1>1 DEF Mark, Reconcile, Discover, Work, Claim, Act, Success, Book, Park, Defer,
                  Abandon, Fail, Retry, At, Task, Informed
    <2>2. tick[k].task \in Tasks /\ tick[k].task # None
      BY <1>1, <2>1, NoneIsNothing DEF Informed
    <2> QED BY <1>1, <1>2, <2>1, <2>2, GoesFacts, LeavesFacts DEF Informed
  <1>4. plan' \in Plans
    <2>1. {"done", "pending", "deferred", "failed", "running", "abandoned"} \subseteq Statuses
      BY DEF Statuses
    <2>2. CASE Mark(k)
      <3> DEFINE new == [st |-> "running", attempts |->
                           IF plan.task[tick[k].task].attempts > Cap THEN plan.task[tick[k].task].attempts
                           ELSE plan.task[tick[k].task].attempts + 1]
      <3>1. tick[k].task \in Tasks
        BY <1>1, <2>2 DEF Mark, At, Informed
      <3>2. plan.task[tick[k].task].attempts \in 0..Cap + 1 /\ Cap \in Nat
        BY <1>1, <3>1, NumbersAreNatural DEF Plans
      <3>3. new \in [st : Statuses, attempts : 0..Cap + 1]
        BY <2>1, <3>2
      <3>4. plan' = [plan EXCEPT !.task[tick[k].task] = new]
        BY <2>2 DEF Mark, Task
      <3> HIDE DEF new
      <3> QED BY <1>1, <3>1, <3>3, <3>4 DEF Plans
    <2>3. CASE Abandon(k)
      BY <1>1, <2>1, <2>3 DEF Abandon, Plans
    <2>4. CASE ~Mark(k) /\ ~Abandon(k)
      BY <1>1, <2>1, <2>4, SetsFacts DEF Reconcile, Discover, Work, Claim, Act, Success, Book, Park, Defer, Fail, Retry, files
    <2> QED BY <2>2, <2>3, <2>4
  <1>5. entity' \in [Tasks -> Entities]
    <2>1. \/ entity' = entity
          \/ \E j \in {"prepared", "verified", "none"} : entity' = [entity EXCEPT ![tick[k].task].journal = j]
          \/ entity' = [entity EXCEPT ![tick[k].task].consumed = TRUE]
      BY <1>1 DEF Mark, Reconcile, Discover, Work, Claim, Act, Success, Book, Park, Defer, Abandon,
                  Fail, Retry, files, Task
    <2>2. ASSUME NEW j \in {"prepared", "verified", "none"},
                 entity' = [entity EXCEPT ![tick[k].task].journal = j]
          PROVE  entity' \in [Tasks -> Entities]
      BY <1>1, <2>2 DEF Entities
    <2>3. ASSUME entity' = [entity EXCEPT ![tick[k].task].consumed = TRUE]
          PROVE  entity' \in [Tasks -> Entities]
      BY <1>1, <2>3 DEF Entities
    <2> QED BY <1>1, <2>1, <2>2, <2>3
  <1>6. job' \in Jobs /\ sprint' \in Sprints
    BY <1>1 DEF Mark, Reconcile, Discover, Work, Claim, Act, Success, Book, Park, Defer, Abandon, Fail, Retry, files
  <1>7. asked' \subseteq Tasks
    BY <1>1 DEF Mark, Reconcile, Discover, Work, Claim, Act, Success, Book, Park, Defer, Abandon, Fail, Retry, files, Task, At, Informed
  <1>8. fired' \subseteq Commits /\ starts' \in [Tasks -> Nat]
    BY <1>1 DEF Mark, Reconcile, Discover, Work, Claim, Act, Success, Book, Park, Defer, Abandon, Fail, Retry, files, Task, At, Informed, history
  <1>9. troubles' \in 0..MaxTroubles
    BY <1>1, NumbersAreNatural DEF Mark, Reconcile, Discover, Work, Claim, Act, Success, Book, Park, Defer, Abandon, Fail, Retry, Trouble
  <1>10. UNCHANGED <<spec, lock, hand, loose, met, rewrote, cut>>
    BY DEF Mark, Reconcile, Discover, Work, Claim, Act, Success, Book, Park, Defer, Abandon, Fail, Retry, files, history
  <1> QED BY <1>3, <1>4, <1>5, <1>6, <1>7, <1>8, <1>9, <1>10, TypeTick

\* A step of the person, of time, or of a crash.
LEMMA TypeHand ==
    ASSUME TInv,
           \/ Redraft \/ Revise \/ Propose \/ Await \/ Approve \/ Add \/ Link \/ Activate
           \/ Toggle \/ Answer \/ AnswerMark \/ AnswerUnpark \/ Due \/ CrashHand
    PROVE  TInv'
  <1>1. /\ job \in Jobs /\ plan \in Plans /\ entity \in [Tasks -> Entities] /\ hand \in HandStates
        /\ spec \in [st : {"draft", "proposed", "approved"}, finds : {{}, Finds}]
        /\ troubles \in 0..MaxTroubles
        /\ hand.pc = "mark" => hand.task \in Tasks /\ hand.copy \in Plans
        /\ hand.pc = "unpark" => hand.task \in Tasks /\ hand.copy \in Entities
    BY DEF TInv, TypeOK, Known
  <1>2. job' \in Jobs
    <2>1. job' = job \/ (\E to \in DOMAIN Moves : MovesTo(to)) \/ job' = [st |-> "active", ratified |-> TRUE]
      <3>1. {"planning", "awaiting", "paused", "active"} \subseteq DOMAIN Moves
        BY DEF Moves
      <3> QED BY <3>1 DEF Redraft, Revise, Propose, Await, Approve, Add, Link, Activate, Toggle, Answer,
                  AnswerMark, AnswerUnpark, Due, CrashHand, files
    <2>2. "active" \in DOMAIN Moves
      BY DEF Moves
    <2>3. [st |-> "active", ratified |-> TRUE] \in Jobs
      BY <2>2 DEF Jobs
    <2> QED BY <1>1, <2>1, <2>3, MovesFacts
  <1>3. spec' \in [st : {"draft", "proposed", "approved"}, finds : {{}, Finds}]
    BY <1>1 DEF Redraft, Revise, Propose, Await, Approve, Add, Link, Activate, Toggle, Answer,
                AnswerMark, AnswerUnpark, Due, CrashHand, files
  <1>4. plan' \in Plans
    <2>1. \/ plan' = plan \/ (\E t \in Tasks : Sets(t, "pending") \/ Sets(t, "parked"))
          \/ plan' = [plan EXCEPT !.linked = TRUE]
          \/ hand.pc = "mark" /\ plan' = [hand.copy EXCEPT !.task[hand.task].st = "pending"]
      BY DEF Redraft, Revise, Propose, Await, Approve, Add, Link, Activate, Toggle, Answer,
             AnswerMark, AnswerUnpark, Due, CrashHand, files, HandAt, Missing
    <2>2. {"pending", "parked"} \subseteq Statuses
      BY DEF Statuses
    <2>3. ASSUME plan' = [plan EXCEPT !.linked = TRUE]
          PROVE  plan' \in Plans
      BY <1>1, <2>3 DEF Plans
    <2>4. ASSUME hand.pc = "mark", plan' = [hand.copy EXCEPT !.task[hand.task].st = "pending"]
          PROVE  plan' \in Plans
      <3> DEFINE was == hand.copy
                 u == hand.task
      <3>1. was \in Plans /\ u \in Tasks /\ plan' = [was EXCEPT !.task[u].st = "pending"]
        BY <1>1, <2>4
      <3> HIDE DEF was, u
      <3> QED BY <2>2, <3>1 DEF Plans
    <2> QED BY <1>1, <2>1, <2>2, <2>3, <2>4, SetsFacts
  <1>5. entity' \in [Tasks -> Entities]
    <2>1. CASE AnswerUnpark
      BY <1>1, <2>1 DEF AnswerUnpark, HandAt
    <2>2. CASE ~AnswerUnpark
      <3>1. UNCHANGED entity
        BY <2>2 DEF Redraft, Revise, Propose, Await, Approve, Add, Link, Activate, Toggle, Answer,
                    AnswerMark, Due, CrashHand, files
      <3> QED BY <1>1, <3>1
    <2> QED BY <2>1, <2>2
  <1>6. /\ hand' \in HandStates
        /\ hand'.pc = "mark" => hand'.task \in Tasks /\ hand'.copy \in Plans
        /\ hand'.pc = "unpark" => hand'.task \in Tasks /\ hand'.copy \in Entities
    <2>1. CASE Redraft \/ Revise \/ Toggle \/ Due
      BY <1>1, <2>1 DEF Redraft, Revise, Toggle, Due
    <2>2. CASE Propose \/ Await \/ Approve \/ Activate \/ AnswerUnpark \/ CrashHand
      BY <2>2 DEF Propose, Await, Approve, Activate, AnswerUnpark, CrashHand, Free, HandStates
    <2>3. CASE Add \/ Link
      BY <1>1, <2>3 DEF Add, Link, HandStates
    <2>4. CASE Answer
      <3>1. PICK t \in asked : hand' = [pc |-> "mark", task |-> t, copy |-> plan]
        BY <2>4 DEF Answer
      <3>2. t \in Tasks
        BY DEF TInv, TypeOK
      <3> QED BY <1>1, <3>1, <3>2 DEF HandStates
    <2>5. CASE AnswerMark
      BY <1>1, <2>5 DEF AnswerMark, HandAt, HandStates
    <2> QED BY <2>1, <2>2, <2>3, <2>4, <2>5
  <1>7. troubles' \in 0..MaxTroubles
    BY <1>1, NumbersAreNatural DEF Redraft, Revise, Propose, Await, Approve, Add, Link, Activate, Toggle,
        Answer, AnswerMark, AnswerUnpark, Due, CrashHand, Trouble
  <1>8. rewrote' \in BOOLEAN /\ cut' \in BOOLEAN
    <2>1. rewrote \in BOOLEAN /\ cut \in BOOLEAN
      BY DEF TInv, TypeOK
    <2> QED BY <2>1 DEF Redraft, Revise, Propose, Await, Approve, Add, Link, Activate, Toggle, Answer,
            AnswerMark, AnswerUnpark, Due, CrashHand, history
  <1>9. UNCHANGED <<sprint, asked, lock, tick, starts, fired, loose, met>>
    BY DEF Redraft, Revise, Propose, Await, Approve, Add, Link, Activate, Toggle, Answer,
           AnswerMark, AnswerUnpark, Due, CrashHand, history, files
  <1>10. Known'
    BY <1>6, <1>9 DEF TInv, Known, Informed
  <1> QED BY <1>2, <1>3, <1>4, <1>5, <1>6, <1>7, <1>8, <1>9, <1>10 DEF TInv, TypeOK

LEMMA TInvStep == TInv /\ [Next]_vars => TInv'
  <1> SUFFICES ASSUME TInv, [Next]_vars PROVE TInv'
    OBVIOUS
  <1>1. CASE UNCHANGED vars
    BY <1>1 DEF vars, files, history, TInv, TypeOK, Known, Informed
  <1>2. ASSUME NEW k \in Ticks, Start(k) \/ Runs(k) \/ Discover(k) \/ Lapse(k) \/ Crash(k)
        PROVE  TInv'
    <2>1. \/ Start(k) \/ MakeDir(k) \/ Steal(k) \/ MakeDirAgain(k) \/ Hold(k) \/ Lapse(k)
          \/ Release(k) \/ Remove(k) \/ Crash(k)
          \/ Read(k) \/ Recover(k) \/ End(k) \/ Sprint(k) \/ Pick(k) \/ NoHost(k) \/ Idle(k)
          \/ Mark(k) \/ Reconcile(k) \/ Discover(k) \/ Work(k) \/ Claim(k) \/ Act(k) \/ Success(k)
          \/ Book(k) \/ Park(k) \/ Defer(k) \/ Abandon(k) \/ Fail(k) \/ Retry(k)
      BY <1>2 DEF Runs
    <2>2. CASE \/ Start(k) \/ MakeDir(k) \/ Steal(k) \/ MakeDirAgain(k) \/ Hold(k) \/ Lapse(k)
               \/ Release(k) \/ Remove(k) \/ Crash(k)
      BY <2>2, TypeLease
    <2>3. CASE Read(k) \/ Recover(k) \/ End(k) \/ Sprint(k) \/ Pick(k) \/ NoHost(k) \/ Idle(k)
      BY <2>3, TypeRun
    <2>4. CASE \/ Mark(k) \/ Reconcile(k) \/ Discover(k) \/ Work(k) \/ Claim(k) \/ Act(k) \/ Success(k)
               \/ Book(k) \/ Park(k) \/ Defer(k) \/ Abandon(k) \/ Fail(k) \/ Retry(k)
      BY <2>4, TypeWork
    <2> QED BY <2>1, <2>2, <2>3, <2>4
  <1>3. CASE \/ Redraft \/ Revise \/ Propose \/ Await \/ Approve \/ Add \/ Link \/ Activate
             \/ Toggle \/ Answer \/ AnswerMark \/ AnswerUnpark \/ Due \/ CrashHand
    BY <1>3, TypeHand
  <1>4. CASE LapseDead
    <2>1. Ticks # {}
      BY <1>4, NoneIsNothing DEF LapseDead, TInv, TypeOK
    <2> QED BY <1>4, <2>1, TypeLease
  <1> QED BY <1>1, <1>2, <1>3, <1>4 DEF Next

\* The files, the ticks and the person's copies are always ones the program can
\* be in: every tick that works on a task has one, one that acts has a task with
\* an action, and one that writes the job back has read it.
THEOREM TypeCorrect == Spec => []TypeOK
  <1>1. Init => TInv
    BY TInvInit
  <1>2. TInv /\ [Next]_vars => TInv'
    BY TInvStep
  <1>3. TInv => TypeOK
    BY DEF TInv
  <1> QED BY <1>1, <1>2, <1>3, PTL DEF Spec


----------------------------------------------------------------------------
(* The lease.                                                              *)

\* The other ticks stand still.
Only(k) == \A j \in Ticks \ {k} : tick'[j] = tick[j]

\* A step behind the lease.
Inside(k) ==
    /\ Held(k) /\ ~At(k, "release") /\ tick'[k].pc \in Behind /\ Only(k)
    /\ UNCHANGED <<lock, loose, met>>

LEMMA PcFacts ==
    ASSUME TInv, NEW k \in Ticks
    PROVE  /\ tick \in [Ticks -> TickStates] /\ None \notin Ticks
           /\ lock \in [dir : BOOLEAN, holder : Ticks \cup {None}, old : BOOLEAN]
           /\ lock.holder # None => lock.dir
           /\ Held(k) <=> tick[k].pc \in Behind
  BY NoneIsNothing DEF TInv, TypeOK, Held

LEMMA InsideLease ==
    ASSUME TInv, LeaseKnown, OneTick, NEW k \in Ticks, Inside(k)
    PROVE  LeaseKnown' /\ OneTick'
  <1>1. \A j \in Ticks : (Held(j)' <=> Held(j)) /\ (j # k => tick'[j] = tick[j])
    BY DEF Inside, Held, Only
  <1>2. tick[k].pc \in Behind /\ tick'[k].pc \in Behind
    BY DEF Inside, Held
  <1>3. Owners' = Owners /\ Displacers' = Displacers
    BY <1>1, <1>2 DEF Owners, Displacers, Behind
  <1>4. \A j \in Ticks, pc \in {"remove", "hold", "steal"} : At(j, pc)' <=> At(j, pc)
    BY <1>1, <1>2 DEF At, Behind
  <1>5. LeaseKnown'
    BY <1>1, <1>3, <1>4 DEF LeaseKnown, Inside
  <1>6. OneTick'
    BY <1>1 DEF OneTick, Inside
  <1> QED BY <1>5, <1>6

\* What is not about the lease leaves it alone.
LEMMA StillLease ==
    ASSUME LeaseKnown, OneTick, UNCHANGED <<lock, tick, loose, met>>
    PROVE  LeaseKnown' /\ OneTick'
  BY DEF LeaseKnown, OneTick, Owners, Displacers, Held, At

\* A tick that is over, or dead, owns nothing more.
LEMMA OffLease ==
    ASSUME TInv, LeaseKnown, OneTick, NEW k \in Ticks, Only(k),
           tick'[k].pc \in {"off", "lock"}, UNCHANGED <<lock, loose, met>>
    PROVE  LeaseKnown' /\ OneTick'
  <1>1. \A j \in Ticks : tick'[j] = tick[j] \/ tick'[j].pc \in {"off", "lock"}
    BY DEF Only
  <1>2. Owners' \subseteq Owners /\ Displacers' \subseteq Displacers
    BY <1>1 DEF Owners, Displacers, Behind
  <1>3. \A j \in Ticks, pc \in {"remove", "hold", "steal"} : At(j, pc)' => At(j, pc)
    BY <1>1 DEF At
  <1>4. \A j \in Ticks : Held(j)' => Held(j)
    BY <1>1 DEF Held, Behind
  <1>5. LeaseKnown'
    BY <1>2, <1>3, <1>4 DEF LeaseKnown
  <1> QED BY <1>4, <1>5 DEF OneTick

LEMMA LeaseStep ==
    ASSUME TInv, LeaseKnown, OneTick, NEW k \in Ticks,
           \/ Start(k) \/ MakeDir(k) \/ Steal(k) \/ MakeDirAgain(k) \/ Hold(k) \/ Lapse(k)
           \/ LapseDead \/ Release(k) \/ Remove(k) \/ Crash(k)
    PROVE  LeaseKnown' /\ OneTick'
  <1>1. /\ tick \in [Ticks -> TickStates] /\ None \notin Ticks
        /\ lock \in [dir : BOOLEAN, holder : Ticks \cup {None}, old : BOOLEAN]
        /\ lock.holder # None => lock.dir
    BY PcFacts
  <1>2. {"off", "lock", "steal", "again", "hold", "remove"} \subseteq Pcs
    BY DEF Pcs
  <1>3. CASE Start(k)
    <2>1. tick'[k].pc = "lock" /\ Only(k) /\ UNCHANGED <<lock, loose, met>>
      BY <1>1, <1>2, <1>3, GoesFacts DEF Start, Only, history
    <2> QED BY <2>1, OffLease
  <1>4. CASE tick' = [tick EXCEPT ![k] = Off] /\ UNCHANGED <<lock, loose, met>>
    <2>1. tick'[k].pc = "off" /\ Only(k)
      BY <1>1, <1>4, OffFacts DEF Only
    <2> QED BY <1>4, <2>1, OffLease
  <1>5. CASE MakeDir(k) /\ ~lock.dir
    <2>1. lock' = [NoDir EXCEPT !.dir = TRUE] /\ Goes(k, "hold") /\ loose' = loose /\ met' = met
          /\ At(k, "lock")
      BY <1>5 DEF MakeDir
    <2>2. lock'.dir /\ lock'.holder = None /\ ~lock'.old
      BY <2>1 DEF NoDir
    <2>3. tick'[k].pc = "hold" /\ tick[k].pc = "lock" /\ \A j \in Ticks : j # k => tick'[j] = tick[j]
      BY <1>1, <1>2, <2>1, GoesFacts DEF At
    <2>4. ~loose => \A j \in Ticks : ~Held(j) /\ ~At(j, "remove") /\ ~At(j, "hold") /\ ~At(j, "steal")
      BY <1>5 DEF LeaseKnown
    <2>5. \A j \in Ticks : Held(j)' => Held(j)
      BY <2>3 DEF Held, Behind
    <2>6. Displacers' = Displacers
      BY <2>3 DEF Displacers
    <2>7. LeaseKnown'
      BY <2>1, <2>2, <2>3, <2>4, <2>5, <2>6 DEF LeaseKnown, At
    <2> QED BY <2>1, <2>5, <2>7 DEF OneTick
  <1>6. CASE MakeDir(k) /\ lock.dir /\ Expired /\ Goes(k, "steal")
    <2>1. lock' = lock /\ met' = met /\ At(k, "lock")
          /\ loose' = (loose \/ (lock.holder = None /\ \E j \in Ticks : At(j, "hold"))
                             \/ \E j \in Ticks : At(j, "steal") \/ At(j, "again"))
      BY <1>1, <1>6, GoesFacts, <1>2 DEF MakeDir, At
    <2>2. tick'[k].pc = "steal" /\ tick[k].pc = "lock" /\ \A j \in Ticks : j # k => tick'[j] = tick[j]
      BY <1>1, <1>2, <1>6, <2>1, GoesFacts DEF At
    <2>3. \A j \in Ticks : Held(j)' => Held(j)
      BY <2>2 DEF Held, Behind
    <2>4. LeaseKnown'
      <3> SUFFICES ASSUME ~loose' PROVE LeaseKnown'
        BY DEF LeaseKnown
      <3>1. ~loose /\ Displacers = {}
        BY <2>1 DEF Displacers, At
      <3>2. \A j \in Ticks : ~Held(j) /\ ~At(j, "remove")
        BY <1>1, <1>6, <3>1 DEF LeaseKnown, Expired
      <3>3. \A j \in Ticks : ~At(j, "hold")
        BY <2>1, <3>1 DEF LeaseKnown
      <3>4. Owners' = {}
        BY <2>2, <3>2, <3>3 DEF Owners, Held, At, Behind
      <3>5. Displacers' = {k}
        BY <2>2, <3>1 DEF Displacers
      <3>6. \A j \in Ticks : ~Held(j)' /\ ~At(j, "remove")' /\ ~At(j, "hold")'
        BY <3>4 DEF Owners, Held, At
      <3> QED BY <1>6, <2>1, <3>4, <3>5, <3>6 DEF LeaseKnown
    <2> QED BY <2>1, <2>3, <2>4 DEF OneTick
  <1>7. CASE Steal(k)
    <2>1. lock' = NoDir /\ Goes(k, "again") /\ loose' = loose /\ met' = met /\ tick[k].pc = "steal"
      BY <1>7 DEF Steal, At, history
    <2>2. tick'[k].pc = "again" /\ \A j \in Ticks : j # k => tick'[j] = tick[j]
      BY <1>1, <1>2, <2>1, GoesFacts
    <2>3. \A j \in Ticks : Held(j)' => Held(j)
      BY <2>2 DEF Held, Behind
    <2>4. Owners' \subseteq Owners /\ Displacers' = Displacers
      BY <2>1, <2>2 DEF Owners, Displacers, Behind
    <2>5. LeaseKnown'
      <3> SUFFICES ASSUME ~loose PROVE LeaseKnown'
        BY <2>1 DEF LeaseKnown
      <3>1. Owners' = {} /\ \A j \in Displacers : j = k
        BY <2>1, <2>4 DEF LeaseKnown, At, Displacers
      <3>2. \A j \in Ticks : ~Held(j)' /\ ~At(j, "remove")' /\ ~At(j, "hold")'
        BY <3>1 DEF Owners, Held, At
      <3>3. \A j \in Ticks : ~At(j, "steal")'
        BY <2>2, <2>4, <3>1 DEF Displacers, At
      <3> QED BY <2>4, <3>1, <3>2, <3>3 DEF LeaseKnown
    <2> QED BY <2>1, <2>3, <2>5 DEF OneTick
  <1>8. CASE MakeDirAgain(k) /\ ~lock.dir
    <2>1. lock' = [NoDir EXCEPT !.dir = TRUE] /\ Goes(k, "hold") /\ loose' = loose /\ met' = met
          /\ tick[k].pc = "again"
      BY <1>8 DEF MakeDirAgain, At, history
    <2>2. lock'.dir /\ lock'.holder = None /\ ~lock'.old
      BY <2>1 DEF NoDir
    <2>3. tick'[k].pc = "hold" /\ \A j \in Ticks : j # k => tick'[j] = tick[j]
      BY <1>1, <1>2, <2>1, GoesFacts
    <2>4. ~loose => \A j \in Ticks : ~Held(j) /\ ~At(j, "remove") /\ ~At(j, "hold") /\ ~At(j, "steal")
      BY <1>8 DEF LeaseKnown
    <2>5. \A j \in Ticks : Held(j)' => Held(j)
      BY <2>3 DEF Held, Behind
    <2>6. Displacers' \subseteq Displacers
      BY <2>1, <2>3 DEF Displacers
    <2>7. LeaseKnown'
      BY <2>1, <2>2, <2>3, <2>4, <2>5, <2>6 DEF LeaseKnown, At
    <2> QED BY <2>1, <2>5, <2>7 DEF OneTick
  <1>9. CASE Hold(k)
    <2>1. lock' = [dir |-> TRUE, holder |-> k, old |-> FALSE] /\ Goes(k, "read") /\ loose' = loose
          /\ met' = (met \/ \E j \in Ticks : Held(j)) /\ tick[k].pc = "hold"
      BY <1>9 DEF Hold, At
    <2>2. tick'[k].pc = "read" /\ \A j \in Ticks : j # k => tick'[j] = tick[j]
      BY <1>1, <2>1, GoesFacts DEF Pcs, Behind
    <2>3. lock'.dir /\ lock'.holder = k /\ ~lock'.old
      BY <2>1
    <2>4. Displacers' = Displacers /\ \A j \in Ticks : Held(j)' => Held(j) \/ j = k
      BY <2>1, <2>2 DEF Displacers, Held
    <2>5. OneTick'
      BY <2>1, <2>4 DEF OneTick
    <2>6. LeaseKnown'
      <3> SUFFICES ASSUME ~loose PROVE LeaseKnown'
        BY <2>1 DEF LeaseKnown
      <3>1. k \in Owners /\ lock.holder = None /\ \A j \in Ticks : At(j, "hold") => j = k
        BY <2>1 DEF LeaseKnown, At, Owners
      <3>2. \A j \in Ticks : ~Held(j) /\ ~At(j, "remove") /\ ~At(j, "steal")
        BY <1>1, <3>1 DEF LeaseKnown
      <3>3. \A j \in Ticks : ~At(j, "hold")' /\ ~At(j, "steal")' /\ (At(j, "remove")' => j = k)
        BY <2>2, <3>1, <3>2 DEF At
      <3> QED BY <2>3, <2>4, <3>2, <3>3 DEF LeaseKnown
    <2> QED BY <2>5, <2>6
  <1>10. CASE Lapse(k)
    BY <1>10 DEF Lapse, LeaseKnown, OneTick, Held
  <1>11. CASE LapseDead
    <2>1. lock' = [lock EXCEPT !.old = TRUE] /\ UNCHANGED <<tick, loose, met>>
          /\ lock.holder # None /\ ~Held(lock.holder) /\ ~At(lock.holder, "remove")
      BY <1>11 DEF LapseDead, history
    <2>2. lock'.dir = lock.dir /\ lock'.holder = lock.holder
      BY <1>1, <2>1
    <2>3. ~loose => \A j \in Ticks : ~Held(j) /\ ~At(j, "remove")
      BY <2>1 DEF LeaseKnown
    <2>4. \A j \in Ticks : (Held(j)' <=> Held(j)) /\ \A pc \in Pcs : At(j, pc)' <=> At(j, pc)
      BY <2>1 DEF Held, At
    <2>5. Owners' = Owners /\ Displacers' = Displacers
      BY <2>1 DEF Owners, Displacers
    <2>6. LeaseKnown'
      BY <1>2, <2>1, <2>2, <2>3, <2>4, <2>5 DEF LeaseKnown
    <2> QED BY <2>1, <2>4, <2>6 DEF OneTick
  <1>12. CASE Release(k) /\ Goes(k, "remove")
    <2>1. tick[k].pc = "release" /\ UNCHANGED <<lock, loose, met>>
      BY <1>12 DEF Release, At, history
    <2>2. tick'[k].pc = "remove" /\ \A j \in Ticks : j # k => tick'[j] = tick[j]
      BY <1>1, <1>2, <1>12, GoesFacts
    <2>3. Held(k) /\ Owners' = Owners /\ Displacers' = Displacers
      BY <2>1, <2>2 DEF Owners, Displacers, Held, Behind
    <2>4. \A j \in Ticks : (Held(j)' => Held(j)) /\ (At(j, "remove")' => At(j, "remove") \/ j = k)
                           /\ (At(j, "hold")' => At(j, "hold")) /\ (At(j, "steal")' => At(j, "steal"))
      BY <2>2 DEF Held, At, Behind
    <2>5. LeaseKnown'
      BY <2>1, <2>3, <2>4 DEF LeaseKnown
    <2> QED BY <2>1, <2>4, <2>5 DEF OneTick
  <1>13. CASE Remove(k)
    <2>1. lock' = NoDir /\ tick' = [tick EXCEPT ![k] = Off] /\ UNCHANGED <<loose, met>> /\ At(k, "remove")
      BY <1>13 DEF Remove, history
    <2>2. tick'[k].pc = "off" /\ \A j \in Ticks : j # k => tick'[j] = tick[j]
      BY <1>1, <2>1, OffFacts
    <2>3. \A j \in Ticks : Held(j)' => Held(j)
      BY <2>2 DEF Held, Behind
    <2>4. LeaseKnown'
      <3> SUFFICES ASSUME ~loose PROVE LeaseKnown'
        BY <2>1 DEF LeaseKnown
      <3>1. lock.holder = k /\ k \in Owners
        BY <2>1 DEF LeaseKnown, Owners, At
      <3>2. \A j \in Ticks : (Held(j) \/ At(j, "remove") => j = k) /\ ~At(j, "hold") /\ ~At(j, "steal")
        BY <1>1, <3>1 DEF LeaseKnown
      <3>3. \A j \in Ticks : ~Held(j)' /\ ~At(j, "remove")' /\ ~At(j, "hold")' /\ ~At(j, "steal")'
        BY <2>2, <2>3, <3>2 DEF At, Held, Behind
      <3>4. Displacers' \subseteq Displacers
        BY <2>2 DEF Displacers
      <3> QED BY <3>3, <3>4 DEF LeaseKnown
    <2> QED BY <2>1, <2>3, <2>4 DEF OneTick
  <1>14. CASE Crash(k)
    BY <1>4, <1>14 DEF Crash, history
  <1> QED BY <1>3, <1>4, <1>5, <1>6, <1>7, <1>8, <1>9, <1>10, <1>11, <1>12, <1>13, <1>14
          DEF MakeDir, MakeDirAgain, Release, history


----------------------------------------------------------------------------
(* What a step of a tick is to the work.                                   *)

SameClaims == \A t \in Tasks : entity'[t].consumed = entity[t].consumed
Person == <<spec, hand, rewrote, cut>>

\* A tick goes on: nothing is started, done or claimed.
Plain(k) ==
    /\ Only(k) /\ UNCHANGED <<plan, starts, fired>> /\ UNCHANGED Person /\ SameClaims
    /\ tick'[k].pc \in OnTask => /\ tick'[k].pc \notin {"mark", "act"} \/ tick' = tick
                                 /\ tick[k].pc \in OnTask /\ tick'[k].task = tick[k].task
    /\ tick'[k].pc \in Inner => tick[k].pc \in Inner \/ job.ratified
    /\ job'.ratified => job.ratified \/ tick[k].pc \in Inner
    /\ asked' = asked \/ tick[k].pc \in Inner

\* It picks a task that is ready.
Picks(k) ==
    /\ Only(k) /\ UNCHANGED <<job, plan, entity, asked, starts, fired>> /\ UNCHANGED Person
    /\ At(k, "pick") /\ tick'[k].pc = "mark" /\ tick'[k].task \in Ready

\* It counts an attempt and starts the task.
Begins(k) ==
    LET t == Task(k)
    IN  /\ Only(k) /\ UNCHANGED <<job, entity, asked, fired>> /\ UNCHANGED Person
        /\ At(k, "mark") /\ tick'[k].pc = "look" /\ tick'[k].task = t /\ t \in Tasks
        /\ plan'.linked = plan.linked /\ plan'.task[t].st = "running"
        /\ plan'.task[t].attempts = IF plan.task[t].attempts > Cap THEN plan.task[t].attempts
                                    ELSE plan.task[t].attempts + 1
        /\ \A u \in Tasks \ {t} : plan'.task[u] = plan.task[u]
        /\ starts'[t] = starts[t] + 1 /\ \A u \in Tasks \ {t} : starts'[u] = starts[u]

\* It claims the action, and it does it.
Claims(k) ==
    /\ Only(k) /\ UNCHANGED <<job, plan, asked, starts, fired>> /\ UNCHANGED Person
    /\ At(k, "claim") /\ tick'[k].pc = "act" /\ tick'[k].task = tick[k].task
    /\ Task(k) \in Tasks /\ ~entity[Task(k)].consumed /\ entity'[Task(k)].consumed
    /\ \A u \in Tasks \ {Task(k)} : entity'[u] = entity[u]
Acts(k) ==
    /\ Only(k) /\ UNCHANGED <<job, plan, entity, asked, starts>> /\ UNCHANGED Person
    /\ At(k, "act") /\ tick'[k].pc = "settle" /\ tick'[k].task = tick[k].task
    /\ fired' = fired \cup {Task(k)}

\* It writes the plan, and no task that is not its own is reopened.
Writes(k) ==
    /\ Only(k) /\ UNCHANGED <<job, asked, starts, fired>> /\ UNCHANGED Person /\ SameClaims
    /\ tick[k].pc \in Inner
    /\ plan'.linked = plan.linked
    /\ \A t \in Tasks : plan'.task[t].attempts = plan.task[t].attempts
    /\ \A t \in Tasks : Status(t) = "done" /\ plan'.task[t].st # "done" =>
           t = Task(k) /\ tick[k].pc \in OnTask
    /\ tick'[k].pc \in OnTask => /\ tick'[k].pc # "mark" /\ tick[k].pc \in OnTask
                                 /\ tick'[k].task = tick[k].task
                                 /\ plan'.task[Task(k)].st = "done" => Status(Task(k)) = "done"
    /\ At(k, "act") => tick'[k].pc # "act"
    /\ tick'[k].pc = "act" => At(k, "act")

Shape(k) == Plain(k) \/ Picks(k) \/ Begins(k) \/ Claims(k) \/ Acts(k) \/ Writes(k)

LEMMA TickFacts ==
    ASSUME TInv, NEW k \in Ticks
    PROVE  /\ tick \in [Ticks -> TickStates] /\ tick[k] \in TickStates /\ Informed(tick[k])
           /\ plan \in Plans /\ entity \in [Tasks -> Entities] /\ job \in Jobs
           /\ starts \in [Tasks -> Nat]
           /\ \A t \in Tasks : plan.task[t] \in [st : Statuses, attempts : 0..Cap + 1]
           /\ Pcs = {"off", "lock", "steal", "again", "hold", "remove", "read", "recover", "end",
                     "sprint", "pick", "mark", "look", "run", "claim", "act", "settle", "book",
                     "defer", "idle", "release"}
           /\ Inner = {"recover", "end", "sprint", "pick", "mark", "look", "run", "claim", "act",
                       "settle", "book", "defer", "idle"}
           /\ Commits \subseteq Tasks
  BY NeedsArePlanned DEF TInv, TypeOK, Known, Pcs, Inner, Behind, Plans

\* A tick that only moves on.
LEMMA GoesPlain ==
    ASSUME TInv, NEW k \in Ticks, NEW pc \in Pcs, Goes(k, pc),
           UNCHANGED <<plan, starts, fired>>, UNCHANGED Person, SameClaims,
           job'.ratified => job.ratified \/ tick[k].pc \in Inner,
           asked' = asked \/ tick[k].pc \in Inner,
           pc \in OnTask => pc \notin {"mark", "act"} /\ tick[k].pc \in OnTask,
           pc \in Inner => tick[k].pc \in Inner \/ job.ratified
    PROVE  Plain(k) /\ tick'[k].pc = pc
  BY TickFacts, GoesFacts DEF Plain, Only

\* A tick that leaves, or is over.
LEMMA LeavesPlain ==
    ASSUME TInv, NEW k \in Ticks, Leaves(k) \/ tick' = [tick EXCEPT ![k] = Off],
           UNCHANGED <<plan, starts, fired>>, UNCHANGED Person, SameClaims,
           job'.ratified => job.ratified \/ tick[k].pc \in Inner,
           asked' = asked \/ tick[k].pc \in Inner
    PROVE  Plain(k) /\ tick'[k].pc \in {"release", "off"}
  <1>1. tick'[k].pc \in {"release", "off"} /\ Only(k)
    BY TickFacts, LeavesFacts, OffFacts DEF Only
  <1>2. tick'[k].pc \notin OnTask /\ tick'[k].pc \notin Inner
    BY <1>1 DEF OnTask, Inner, Behind
  <1> QED BY <1>1, <1>2 DEF Plain

LEMMA LeaseShape ==
    ASSUME TInv, NEW k \in Ticks,
           \/ Start(k) \/ MakeDir(k) \/ Steal(k) \/ MakeDirAgain(k) \/ Hold(k) \/ Lapse(k)
           \/ Release(k) \/ Remove(k) \/ Crash(k)
    PROVE  Plain(k)
  <1>1. /\ UNCHANGED <<plan, starts, fired>> /\ UNCHANGED Person /\ SameClaims
        /\ job' = job /\ asked' = asked
    BY DEF Start, MakeDir, Steal, MakeDirAgain, Hold, Lapse, Release, Remove, Crash, files,
           history, Person, SameClaims
  <1>2. CASE tick' = tick
    BY <1>1, <1>2 DEF Plain, Only
  <1>3. CASE tick' = [tick EXCEPT ![k] = Off]
    BY <1>1, <1>3, LeavesPlain
  <1>4. CASE \E pc \in {"lock", "steal", "again", "hold", "read", "remove"} : Goes(k, pc)
    <2>1. PICK pc \in {"lock", "steal", "again", "hold", "read", "remove"} : Goes(k, pc)
      BY <1>4
    <2>2. pc \in Pcs /\ pc \notin OnTask /\ pc \notin Inner
      BY DEF Pcs, Behind, OnTask, Inner
    <2> QED BY <1>1, <2>1, <2>2, GoesPlain
  <1> QED BY <1>2, <1>3, <1>4 DEF Start, MakeDir, Steal, MakeDirAgain, Hold, Lapse, Release,
             Remove, Crash


\* Before a task is picked.
LEMMA RunShape ==
    ASSUME TInv, NEW k \in Ticks,
           Read(k) \/ Recover(k) \/ End(k) \/ Sprint(k) \/ Pick(k) \/ NoHost(k) \/ Idle(k)
    PROVE  Inside(k) /\ Shape(k)
  <1>1. /\ tick \in [Ticks -> TickStates] /\ tick[k] \in TickStates /\ plan \in Plans
        /\ {"recover", "end", "sprint", "pick", "idle"} \subseteq Pcs \cap Behind \cap Inner
        /\ "release" \in Behind
    BY TickFacts DEF Pcs, Behind, Inner
  <1>2. /\ Held(k) /\ tick[k].pc \in {"read", "recover", "end", "sprint", "pick", "idle"}
        /\ (tick[k].pc = "read" \/ tick[k].pc \in Inner) /\ ~At(k, "release")
        /\ UNCHANGED <<lock, loose, met>>
    BY <1>1 DEF Read, Recover, End, Sprint, Pick, NoHost, Idle, Held, At, history, files, Behind, Inner
  <1>3. /\ UNCHANGED <<starts, fired, asked>> /\ UNCHANGED Person /\ SameClaims
    BY DEF Read, Recover, End, Sprint, Pick, NoHost, Idle, Person, history, files, SameClaims
  <1>4. ASSUME Plain(k), tick'[k].pc \in Behind PROVE Inside(k) /\ Shape(k)
    BY <1>2, <1>4 DEF Inside, Shape, Plain
  <1>5. CASE Leaves(k) /\ UNCHANGED plan /\ (job'.ratified => job.ratified \/ tick[k].pc \in Inner)
    <2>1. Plain(k) /\ tick'[k].pc = "release"
      BY <1>1, <1>3, <1>5, LeavesPlain, LeavesFacts
    <2> QED BY <1>1, <1>4, <2>1
  <1>6. ASSUME NEW pc \in {"sprint", "pick", "idle", "end", "recover"}, Goes(k, pc),
               UNCHANGED plan, job'.ratified => job.ratified \/ tick[k].pc \in Inner, tick[k].pc \in Inner
        PROVE  Inside(k) /\ Shape(k)
    <2>1. pc \in Pcs /\ pc \notin OnTask
      BY DEF Pcs, Behind, OnTask
    <2>2. Plain(k) /\ tick'[k].pc = pc
      BY <1>3, <1>6, <2>1, GoesPlain
    <2> QED BY <1>1, <1>4, <2>2
  <1>7. CASE Read(k)
    <2>1. UNCHANGED plan /\ job' = job
      BY <1>7 DEF Read, files
    <2>2. CASE ~job.ratified
      BY <1>5, <1>7, <2>1, <2>2 DEF Read
    <2>3. CASE job.ratified
      <3>1. tick'[k].pc = "recover" /\ Only(k)
        BY <1>1, <1>7, <2>3 DEF Read, Only
      <3>2. Plain(k)
        BY <1>3, <2>1, <2>3, <3>1 DEF Plain, OnTask
      <3> QED BY <1>1, <1>4, <3>1, <3>2
    <2> QED BY <2>2, <2>3
  <1>8. CASE Recover(k)
    <2>1. Goes(k, "end") /\ job' = job /\ tick[k].pc = "recover"
      BY <1>8 DEF Recover, At
    <2>2. tick'[k].pc = "end" /\ Only(k)
      BY <1>1, <2>1, GoesFacts DEF Only
    <2>3. PICK seen \in BOOLEAN :
              plan' = [plan EXCEPT !.task = [t \in Tasks |-> Recovered(t, seen)]]
      BY <1>8 DEF Recover
    <2>4. plan'.linked = plan.linked /\ \A t \in Tasks : plan'.task[t] = Recovered(t, seen)
      BY <1>1, <2>3 DEF Plans
    <2>5. \A t \in Tasks : /\ plan'.task[t].attempts = plan.task[t].attempts
                           /\ Status(t) = "done" => plan'.task[t].st = "done"
      BY <1>1, <2>4, RecoveredFacts DEF Status
    <2>6. Writes(k)
      BY <1>1, <1>3, <2>1, <2>2, <2>4, <2>5 DEF Writes, OnTask, At
    <2> QED BY <1>1, <1>2, <2>2, <2>6 DEF Inside, Shape
  <1>9. CASE End(k)
    <2>1. job'.ratified = job.ratified /\ UNCHANGED plan /\ tick[k].pc \in Inner
      BY <1>1, <1>9, TickFacts DEF End, MovesTo, Jobs, At
    <2> QED BY <1>5, <1>6, <1>9, <2>1 DEF End
  <1>10. CASE Sprint(k)
    <2>1. job'.ratified = job.ratified /\ UNCHANGED plan /\ tick[k].pc \in Inner
      BY <1>1, <1>10, TickFacts DEF Sprint, MovesTo, Jobs, At
    <2>2. CASE Goes(k, "pick")
      BY <1>6, <2>1, <2>2
    <2>3. CASE Leaves(k)
      BY <1>5, <2>1, <2>3
    <2>4. CASE ~Goes(k, "pick") /\ ~Leaves(k)
      <3>1. tick'[k].pc = "pick" /\ Only(k)
        BY <1>1, <1>10, <2>4 DEF Sprint, Only
      <3>2. Plain(k)
        BY <1>3, <2>1, <3>1 DEF Plain, OnTask
      <3> QED BY <1>1, <1>4, <3>1, <3>2
    <2> QED BY <2>2, <2>3, <2>4
  <1>11. CASE Pick(k)
    <2>1. UNCHANGED <<job, plan, entity>> /\ tick[k].pc \in Inner /\ At(k, "pick")
      BY <1>1, <1>11 DEF Pick, files, At
    <2>2. CASE Goes(k, "idle")
      BY <1>6, <2>1, <2>2
    <2>3. CASE ~Goes(k, "idle")
      <3>1. PICK t \in Candidates : tick' = [tick EXCEPT ![k] = [pc |-> "mark", task |-> t, saw |-> None]]
        BY <1>11, <2>3 DEF Pick
      <3>2. tick'[k].pc = "mark" /\ tick'[k].task = t /\ Only(k)
        BY <1>1, <3>1 DEF Only
      <3>3. t \in Ready
        BY DEF Candidates
      <3>4. Picks(k)
        BY <1>3, <2>1, <3>2, <3>3 DEF Picks
      <3>5. "mark" \in Behind
        BY DEF Behind
      <3> QED BY <1>2, <3>2, <3>4, <3>5 DEF Inside, Shape
    <2> QED BY <2>2, <2>3
  <1>12. CASE NoHost(k)
    BY <1>5, <1>12 DEF NoHost, files
  <1>13. CASE Idle(k)
    <2>1. UNCHANGED plan /\ tick[k].pc \in Inner /\ Leaves(k)
      BY <1>1, <1>13 DEF Idle, At
    <2> QED BY <1>5, <2>1
  <1> QED BY <1>7, <1>8, <1>9, <1>10, <1>11, <1>12, <1>13

\* The run of a task.
LEMMA WorkShape ==
    ASSUME TInv, NEW k \in Ticks,
           \/ Mark(k) \/ Reconcile(k) \/ Discover(k) \/ Work(k) \/ Claim(k) \/ Act(k) \/ Success(k)
           \/ Book(k) \/ Park(k) \/ Defer(k) \/ Abandon(k) \/ Fail(k) \/ Retry(k)
    PROVE  Inside(k) /\ Shape(k)
  <1> DEFINE t == Task(k)
  <1>1. /\ tick \in [Ticks -> TickStates] /\ tick[k] \in TickStates /\ plan \in Plans
        /\ entity \in [Tasks -> Entities] /\ starts \in [Tasks -> Nat]
        /\ {"look", "run", "claim", "act", "settle", "book", "defer", "end"}
               \subseteq Pcs \cap Behind \cap Inner
        /\ "release" \in Behind /\ "mark" \in Inner
    BY TickFacts DEF Pcs, Behind, Inner
  <1>2. /\ tick[k].pc \in {"mark", "look", "run", "claim", "act", "settle", "book", "defer"}
        /\ Held(k) /\ ~At(k, "release") /\ tick[k].pc \in Inner /\ t \in Tasks
        /\ UNCHANGED <<lock, loose, met>> /\ UNCHANGED Person /\ job' = job
    <2>1. tick[k].pc \in {"mark", "look", "run", "claim", "act", "settle", "book", "defer"}
      BY DEF Mark, Reconcile, Discover, Work, Claim, Act, Success, Book, Park, Defer, Abandon, Fail,
             Retry, At
    <2>2. t \in Tasks
      BY <2>1, TickFacts DEF Informed, Task
    <2>3. UNCHANGED <<lock, loose, met>> /\ UNCHANGED Person /\ job' = job
      BY DEF Mark, Reconcile, Discover, Work, Claim, Act, Success, Book, Park, Defer, Abandon, Fail,
             Retry, history, files, Person
    <2> QED BY <1>1, <2>1, <2>2, <2>3 DEF Held, At, Behind, Inner
  <1>3. ASSUME Shape(k), tick'[k].pc \in Behind PROVE Inside(k) /\ Shape(k)
    BY <1>2, <1>3 DEF Inside, Shape, Plain, Picks, Begins, Claims, Acts, Writes
  \* What moves on without the plan.
  <1>4. ASSUME NEW pc \in {"run", "claim", "settle", "defer"}, Goes(k, pc),
               UNCHANGED <<plan, starts, fired>>, SameClaims, tick[k].pc \in OnTask
        PROVE  Inside(k) /\ Shape(k)
    <2>1. Plain(k) /\ tick'[k].pc = pc
      BY <1>1, <1>2, <1>4, GoesPlain
    <2> QED BY <1>1, <1>3, <2>1 DEF Shape
  \* What writes a status and goes on, or leaves.
  <1>5. ASSUME UNCHANGED <<asked, starts, fired>>, SameClaims, Only(k), tick'[k].pc \in Behind,
               plan'.linked = plan.linked,
               \A u \in Tasks : plan'.task[u].attempts = plan.task[u].attempts,
               \A u \in Tasks : Status(u) = "done" /\ plan'.task[u].st # "done" => u = t,
               tick[k].pc \in OnTask, tick'[k].pc \in OnTask => FALSE
        PROVE  Inside(k) /\ Shape(k)
    <2>1. tick'[k].pc # "act"
      BY <1>5 DEF OnTask
    <2>2. Writes(k)
      BY <1>2, <1>5, <2>1 DEF Writes
    <2> QED BY <1>3, <1>5, <2>2 DEF Shape
  <1>6. ASSUME NEW st \in Statuses, Sets(t, st), UNCHANGED <<asked, starts, fired>>, SameClaims,
               Leaves(k) \/ Goes(k, "book") \/ Goes(k, "end"), tick[k].pc \in OnTask
        PROVE  Inside(k) /\ Shape(k)
    <2>1. Only(k) /\ tick'[k].pc \in {"release", "book", "end"}
      BY <1>1, <1>6, GoesFacts, LeavesFacts DEF Only
    <2>2. /\ plan'.linked = plan.linked
          /\ \A u \in Tasks : plan'.task[u].attempts = plan.task[u].attempts
          /\ \A u \in Tasks : u # t => plan'.task[u] = plan.task[u]
      BY <1>1, <1>2, <1>6, SetsFacts
    <2>3. tick'[k].pc \in Behind /\ tick'[k].pc \notin OnTask
      BY <2>1 DEF Behind, OnTask
    <2>4. \A u \in Tasks : Status(u) = "done" /\ plan'.task[u].st # "done" => u = t
      BY <2>2 DEF Status
    <2> QED BY <1>5, <1>6, <2>1, <2>2, <2>3, <2>4
  <1>7. {"done", "deferred", "failed", "pending", "running", "abandoned"} \subseteq Statuses
    BY DEF Statuses
  <1>8. CASE Mark(k)
    <2>1. /\ plan' = [plan EXCEPT !.task[t] =
                [st |-> "running", attempts |->
                    IF plan.task[t].attempts > Cap THEN plan.task[t].attempts
                    ELSE plan.task[t].attempts + 1]]
          /\ starts' = [starts EXCEPT ![t] = starts[t] + 1] /\ Goes(k, "look") /\ At(k, "mark")
          /\ UNCHANGED <<entity, asked, fired>>
      BY <1>1, <1>8 DEF Mark, Plans
    <2>2. /\ tick'[k].pc = "look" /\ tick'[k].task = t /\ Only(k)
      BY <1>1, <2>1, GoesFacts DEF Only, Task
    <2> DEFINE more == IF plan.task[t].attempts > Cap THEN plan.task[t].attempts
                       ELSE plan.task[t].attempts + 1
               new == [st |-> "running", attempts |-> more]
    <2>3. plan' = [plan EXCEPT !.task[t] = new]
      BY <2>1
    <2>4. new.st = "running" /\ new.attempts = more
      OBVIOUS
    <2> HIDE DEF new
    <2>5. /\ plan'.linked = plan.linked /\ plan'.task[t] = new
          /\ \A u \in Tasks \ {t} : plan'.task[u] = plan.task[u]
      BY <1>1, <1>2, <2>3 DEF Plans
    <2>6. /\ starts'[t] = starts[t] + 1 /\ \A u \in Tasks \ {t} : starts'[u] = starts[u]
      BY <1>1, <1>2, <2>1
    <2>7. Begins(k)
      BY <1>2, <2>1, <2>2, <2>4, <2>5, <2>6 DEF Begins
    <2> QED BY <1>1, <1>3, <2>2, <2>7 DEF Shape
  <1>9. CASE Reconcile(k)
    <2>1. UNCHANGED <<asked, starts, fired>> /\ tick[k].pc \in OnTask
      BY <1>9 DEF Reconcile, history, OnTask, At
    <2>2. CASE Goes(k, "run") /\ UNCHANGED <<plan, entity>>
      BY <1>4, <2>1, <2>2 DEF SameClaims
    <2>3. CASE entity' = [entity EXCEPT ![t].journal = "verified"] /\ Sets(t, "done") /\ Leaves(k)
      <3>1. SameClaims
        BY <1>1, <2>3 DEF SameClaims, Entities
      <3> QED BY <1>6, <1>7, <2>1, <2>3, <3>1
    <2> QED BY <1>9, <2>2, <2>3 DEF Reconcile
  <1>10. CASE Discover(k)
    <2>1. UNCHANGED <<entity, tick, asked, starts, fired>> /\ tick[k].pc = "run"
      BY <1>10 DEF Discover, At, history
    <2>2. PICK u \in spec.finds : Status(u) = "absent" /\ Sets(u, "pending")
      BY <1>10 DEF Discover
    <2>3. /\ plan'.linked = plan.linked
          /\ \A v \in Tasks : plan'.task[v].attempts = plan.task[v].attempts
          /\ \A v \in Tasks : plan'.task[v] = plan.task[v]
                              \/ (v = u /\ plan'.task[v].st = "pending")
      BY <1>1, <1>7, <2>2, SetsFacts
    <2>4. \A v \in Tasks : (Status(v) = "done" <=> plan'.task[v].st = "done")
      BY <2>2, <2>3 DEF Status
    <2>5. Writes(k)
      BY <1>2, <2>1, <2>3, <2>4 DEF Writes, SameClaims, Only, OnTask, At
    <2> QED BY <1>1, <1>3, <2>1, <2>5 DEF Shape
  <1>11. CASE Work(k)
    <2>1. UNCHANGED <<plan, starts, fired>> /\ tick[k].pc \in OnTask /\ (Goes(k, "settle") \/ Goes(k, "claim"))
      BY <1>11 DEF Work, history, OnTask, At
    <2>2. SameClaims
      BY <1>1, <1>11 DEF Work, SameClaims, Entities
    <2> QED BY <1>4, <2>1, <2>2
  <1>12. CASE Claim(k)
    <2>1. UNCHANGED <<plan, asked, starts, fired>> /\ At(k, "claim") /\ tick[k].pc \in OnTask
      BY <1>12 DEF Claim, history, OnTask, At
    <2>2. CASE entity[t].consumed /\ Goes(k, "settle") /\ UNCHANGED entity
      BY <1>4, <2>1, <2>2 DEF SameClaims
    <2>3. CASE ~entity[t].consumed /\ Goes(k, "act") /\ entity' = [entity EXCEPT ![t].consumed = TRUE]
      <3>1. /\ tick'[k].pc = "act" /\ tick'[k].task = t /\ Only(k)
        BY <1>1, <2>3, GoesFacts DEF Only, Task
      <3>2. entity'[t].consumed /\ \A u \in Tasks \ {t} : entity'[u] = entity[u]
        BY <1>1, <1>2, <2>3 DEF Entities
      <3>3. Claims(k)
        BY <1>2, <2>1, <2>3, <3>1, <3>2 DEF Claims, Task
      <3> QED BY <1>1, <1>3, <3>1, <3>3 DEF Shape
    <2> QED BY <1>12, <2>2, <2>3 DEF Claim
  <1>13. CASE Act(k)
    <2>1. Goes(k, "settle") /\ At(k, "act") /\ fired' = fired \cup {t} /\ UNCHANGED <<plan, entity, asked, starts>>
      BY <1>13 DEF Act, files
    <2>2. /\ tick'[k].pc = "settle" /\ tick'[k].task = t /\ Only(k)
      BY <1>1, <2>1, GoesFacts DEF Only, Task
    <2>3. Acts(k)
      BY <1>2, <2>1, <2>2 DEF Acts, Task
    <2> QED BY <1>1, <1>3, <2>2, <2>3 DEF Shape
  <1>14. CASE Success(k) \/ Defer(k) \/ Fail(k) \/ Retry(k)
    <2>1. /\ UNCHANGED <<entity, asked, starts, fired>> /\ tick[k].pc \in OnTask
          /\ Leaves(k) \/ Goes(k, "book") \/ Goes(k, "end")
          /\ \E st \in {"done", "deferred", "failed", "pending"} : Sets(t, st)
      BY <1>14 DEF Success, Defer, Fail, Retry, history, OnTask, At
    <2> QED BY <1>6, <1>7, <2>1 DEF SameClaims
  <1>15. CASE Book(k)
    <2>1. UNCHANGED <<plan, starts, fired>> /\ Leaves(k)
      BY <1>15 DEF Book, history
    <2>2. SameClaims
      <3>1. entity' = [entity EXCEPT ![t].journal = IF entity[t].journal = "none" THEN "none" ELSE "verified"]
        BY <1>1, <1>2, <1>15 DEF Book
      <3> QED BY <1>1, <3>1 DEF SameClaims, Entities
    <2>3. Plain(k) /\ tick'[k].pc = "release"
      BY <1>1, <1>2, <2>1, <2>2, LeavesPlain, LeavesFacts
    <2> QED BY <1>1, <1>3, <2>3 DEF Shape
  <1>16. CASE Park(k)
    BY <1>4, <1>16 DEF Park, SameClaims, history, OnTask, At
  <1>17. CASE Abandon(k)
    <2>1. UNCHANGED <<entity, asked, starts, fired>> /\ Leaves(k) /\ tick[k].pc \in OnTask
      BY <1>17 DEF Abandon, history, OnTask, At
    <2>2. Only(k) /\ tick'[k].pc = "release"
      BY <1>1, <2>1, LeavesFacts DEF Only
    <2> DEFINE left == {u \in Siblings(t) : Status(u) # "done"}
    <2>3. plan' = [plan EXCEPT !.task = [u \in Tasks |-> IF u \in left
                       THEN [plan.task[u] EXCEPT !.st = "abandoned"] ELSE plan.task[u]]]
      BY <1>1, <1>17 DEF Abandon
    <2>4. plan'.linked = plan.linked
          /\ \A u \in Tasks : plan'.task[u] = IF u \in left
                       THEN [plan.task[u] EXCEPT !.st = "abandoned"] ELSE plan.task[u]
      BY <1>1, <2>3 DEF Plans
    <2>5. \A u \in Tasks : /\ plan'.task[u].attempts = plan.task[u].attempts
                           /\ Status(u) = "done" => plan'.task[u].st = "done"
      <3> SUFFICES ASSUME NEW u \in Tasks
                   PROVE  /\ plan'.task[u].attempts = plan.task[u].attempts
                          /\ Status(u) = "done" => plan'.task[u].st = "done"
        OBVIOUS
      <3>1. plan.task[u] \in [st : Statuses, attempts : 0..Cap + 1]
        BY <1>1 DEF Plans
      <3>2. [plan.task[u] EXCEPT !.st = "abandoned"].attempts = plan.task[u].attempts
        BY <3>1
      <3>3. Status(u) = "done" => u \notin left
        OBVIOUS
      <3> HIDE DEF left
      <3> QED BY <2>4, <3>2, <3>3 DEF Status
    <2> QED BY <1>1, <1>5, <2>1, <2>2, <2>4, <2>5 DEF SameClaims, OnTask
  <1> QED BY <1>8, <1>9, <1>10, <1>11, <1>12, <1>13, <1>14, <1>15, <1>16, <1>17


----------------------------------------------------------------------------
(* What a step of a tick keeps of the work.                                *)

\* Behind the lease a tick is alone until two meet, and what is done stays done.
LEMMA ShapeFacts ==
    ASSUME IInv, NEW k \in Ticks, Shape(k), Plain(k) \/ Held(k), met => met'
    PROVE  /\ Only(k) /\ UNCHANGED Person /\ (Plain(k) \/ Held(k))
           /\ ~met' => /\ ~met
                       /\ Plain(k) \/ \A j \in Ticks \ {k} : tick[j].pc \notin Behind
                       /\ \A t \in Tasks : Status(t) = "done" => plan'.task[t].st = "done"
  <1>1. Only(k) /\ UNCHANGED Person
    BY DEF Shape, Plain, Picks, Begins, Claims, Acts, Writes
  <1>2. SUFFICES ASSUME ~met'
                 PROVE  /\ ~met
                        /\ Plain(k) \/ \A j \in Ticks \ {k} : tick[j].pc \notin Behind
                        /\ \A t \in Tasks : Status(t) = "done" => plan'.task[t].st = "done"
    BY <1>1
  <1>3. ~met
    BY <1>2
  <1>4. Plain(k) \/ \A j \in Ticks \ {k} : tick[j].pc \notin Behind
    BY <1>3 DEF IInv, OneTick, Held
  <1>5. tick[k].pc \in OnTask => Status(Task(k)) # "done"
    BY <1>3 DEF IInv, DoneKnown
  <1>6. ASSUME NEW t \in Tasks, Status(t) = "done"
        PROVE  plan'.task[t].st = "done"
    <2>1. CASE Plain(k) \/ Picks(k) \/ Claims(k) \/ Acts(k)
      BY <1>6, <2>1 DEF Plain, Picks, Claims, Acts, Status
    <2>2. CASE Begins(k)
      <3>1. t # Task(k)
        BY <1>5, <1>6, <2>2 DEF Begins, At, OnTask
      <3> QED BY <1>6, <2>2, <3>1 DEF Begins, Status
    <2>3. CASE Writes(k)
      BY <1>5, <1>6, <2>3 DEF Writes
    <2> QED BY <2>1, <2>2, <2>3 DEF Shape
  <1> QED BY <1>3, <1>4, <1>6

LEMMA ShapeDone ==
    ASSUME IInv, NEW k \in Ticks, Shape(k), Plain(k) \/ Held(k), met => met'
    PROVE  DoneKnown'
  <1>1. SUFFICES ASSUME ~met'
                 PROVE  /\ \A j \in Ticks : tick'[j].pc \in OnTask => plan'.task[tick'[j].task].st # "done"
                        /\ hand'.pc = "mark" =>
                               \A t \in Tasks : hand'.copy.task[t].st = "done" => plan'.task[t].st = "done"
    BY DEF DoneKnown, Status, Task
  <1>2. /\ ~met /\ Only(k) /\ hand' = hand /\ DoneKnown
        /\ Plain(k) \/ \A j \in Ticks \ {k} : tick[j].pc \notin Behind
        /\ \A t \in Tasks : Status(t) = "done" => plan'.task[t].st = "done"
    BY <1>1, ShapeFacts DEF Person, IInv
  <1>3. hand'.pc = "mark" =>
            \A t \in Tasks : hand'.copy.task[t].st = "done" => plan'.task[t].st = "done"
    BY <1>2 DEF DoneKnown
  <1>4. ASSUME NEW j \in Ticks, tick'[j].pc \in OnTask
        PROVE  plan'.task[tick'[j].task].st # "done"
    <2>1. CASE j # k
      <3>1. tick'[j] = tick[j] /\ tick[j].pc \in Behind
        BY <1>2, <1>4, <2>1 DEF Only, OnTask, Behind
      <3>2. plan' = plan
        BY <1>2, <2>1, <3>1 DEF Plain
      <3> QED BY <1>2, <1>4, <3>1, <3>2 DEF DoneKnown, Status, Task
    <2>2. CASE j = k
      <3>1. CASE Plain(k)
        BY <1>2, <1>4, <2>2, <3>1 DEF Plain, DoneKnown, Status, Task
      <3>2. CASE Picks(k)
        BY <2>2, <3>2 DEF Picks, Ready, Status
      <3>3. CASE Begins(k)
        BY <2>2, <3>3 DEF Begins
      <3>4. CASE Claims(k) \/ Acts(k)
        BY <1>2, <2>2, <3>4 DEF Claims, Acts, DoneKnown, Status, Task, At, OnTask
      <3>5. CASE Writes(k)
        BY <1>2, <1>4, <2>2, <3>5 DEF Writes, DoneKnown, Task
      <3> QED BY <3>1, <3>2, <3>3, <3>4, <3>5 DEF Shape
    <2> QED BY <2>1, <2>2
  <1> QED BY <1>3, <1>4

LEMMA ShapeCount ==
    ASSUME IInv, NEW k \in Ticks, Shape(k), Plain(k) \/ Held(k), met => met'
    PROVE  CountKnown'
  <1>1. SUFFICES ASSUME ~met', ~rewrote'
                 PROVE  /\ \A t \in Tasks : /\ starts'[t] <= plan'.task[t].attempts
                                            /\ plan'.task[t].attempts <= Cap
                        /\ \A j \in Ticks : tick'[j].pc = "mark" => plan'.task[tick'[j].task].attempts < Cap
    BY DEF CountKnown, At, Task
  <1>2. /\ ~met /\ ~rewrote /\ Only(k) /\ CountKnown
        /\ Plain(k) \/ \A j \in Ticks \ {k} : tick[j].pc \notin Behind
    BY <1>1, ShapeFacts DEF Person, IInv
  <1>3. /\ \A t \in Tasks : starts[t] <= plan.task[t].attempts /\ plan.task[t].attempts <= Cap
        /\ \A j \in Ticks : tick[j].pc = "mark" => plan.task[tick[j].task].attempts < Cap
    BY <1>2 DEF CountKnown, At, Task
  <1>4. \A j \in Ticks \ {k} : tick'[j] = tick[j] /\ (tick[j].pc = "mark" => plan' = plan)
    BY <1>2 DEF Only, Behind, Plain
  <1>5. CASE Plain(k)
    <2>1. tick'[k].pc = "mark" => tick[k].pc = "mark" /\ tick'[k].task = tick[k].task
      BY <1>5 DEF Plain, OnTask
    <2> QED BY <1>3, <1>4, <1>5, <2>1 DEF Plain
  <1>6. CASE Picks(k)
    <2>1. plan.task[tick'[k].task].attempts < Cap /\ plan' = plan /\ starts' = starts
      BY <1>6 DEF Picks, Ready
    <2> QED BY <1>3, <1>4, <2>1
  <1>7. CASE Begins(k)
    <2>1. /\ Task(k) \in Tasks /\ plan.task[Task(k)].attempts < Cap /\ tick'[k].pc # "mark"
          /\ plan.task[Task(k)].attempts \in Nat /\ starts[Task(k)] \in Nat
          /\ Cap \in Nat
      BY <1>3, <1>7, TickFacts, NumbersAreNatural DEF Begins, At, Task, IInv
    <2>2. /\ plan'.task[Task(k)].attempts = plan.task[Task(k)].attempts + 1
          /\ starts'[Task(k)] = starts[Task(k)] + 1
          /\ \A u \in Tasks \ {Task(k)} : plan'.task[u] = plan.task[u] /\ starts'[u] = starts[u]
      BY <1>7, <2>1 DEF Begins
    <2>3. \A t \in Tasks : starts'[t] <= plan'.task[t].attempts /\ plan'.task[t].attempts <= Cap
      BY <1>3, <2>1, <2>2
    <2> QED BY <1>3, <1>4, <2>1, <2>3
  <1>8. CASE Claims(k) \/ Acts(k)
    BY <1>3, <1>4, <1>8 DEF Claims, Acts
  <1>9. CASE Writes(k)
    <2>1. tick'[k].pc # "mark"
      BY <1>9 DEF Writes, OnTask
    <2> QED BY <1>3, <1>4, <1>9, <2>1 DEF Writes
  <1> QED BY <1>5, <1>6, <1>7, <1>8, <1>9 DEF Shape

LEMMA ShapeAct ==
    ASSUME IInv, NEW k \in Ticks, Shape(k), Plain(k) \/ Held(k), met => met'
    PROVE  ActKnown'
  <1>1. SUFFICES ASSUME ~met', ~rewrote'
                 PROVE  /\ \A t \in fired' : entity'[t].consumed
                        /\ \A j \in Ticks : tick'[j].pc = "act" =>
                               entity'[tick'[j].task].consumed /\ tick'[j].task \notin fired'
    BY DEF ActKnown, At, Task
  <1>2. /\ ~met /\ ~rewrote /\ Only(k) /\ ActKnown
        /\ Plain(k) \/ \A j \in Ticks \ {k} : tick[j].pc \notin Behind
        /\ fired \subseteq Tasks
        /\ \A j \in Ticks : tick[j].pc = "act" => tick[j].task \in Tasks
    BY <1>1, ShapeFacts, NeedsArePlanned DEF Person, IInv, TInv, TypeOK, Known, Informed
  <1>3. /\ \A t \in fired : entity[t].consumed
        /\ \A j \in Ticks : tick[j].pc = "act" =>
               entity[tick[j].task].consumed /\ tick[j].task \notin fired
    BY <1>2 DEF ActKnown, At, Task
  <1>4. \A j \in Ticks \ {k} : tick'[j] = tick[j] /\ (tick[j].pc = "act" => Plain(k))
    BY <1>2 DEF Only, Behind
  <1>5. CASE Plain(k)
    <2>1. fired' = fired /\ \A t \in Tasks : entity'[t].consumed = entity[t].consumed
      BY <1>5 DEF Plain, SameClaims
    <2>2. \A j \in Ticks : tick'[j].pc = "act" => tick[j].pc = "act" /\ tick'[j].task = tick[j].task
      BY <1>4, <1>5 DEF Plain, OnTask
    <2> QED BY <1>2, <1>3, <2>1, <2>2
  <1>6. CASE Picks(k) \/ Begins(k)
    <2>1. tick'[k].pc # "act" /\ entity' = entity /\ fired' = fired
      BY <1>6 DEF Picks, Begins
    <2> QED BY <1>3, <1>4, <2>1
  <1>7. CASE Claims(k)
    <2>1. /\ fired' = fired /\ ~entity[Task(k)].consumed /\ entity'[Task(k)].consumed
          /\ tick'[k].task = Task(k) /\ \A u \in Tasks \ {Task(k)} : entity'[u] = entity[u]
      BY <1>7 DEF Claims, Task
    <2>2. Task(k) \notin fired
      BY <1>3, <2>1
    <2>3. \A j \in Ticks \ {k} : tick'[j].pc # "act"
      BY <1>2, <1>4, <1>7 DEF Behind, Claims, Plain, OnTask, At
    <2> QED BY <1>2, <1>3, <2>1, <2>2, <2>3
  <1>8. CASE Acts(k)
    <2>1. /\ fired' = fired \cup {Task(k)} /\ entity' = entity /\ tick'[k].pc = "settle"
          /\ entity[Task(k)].consumed /\ ~Plain(k)
      BY <1>3, <1>8 DEF Acts, Task, At, Plain
    <2> QED BY <1>3, <1>4, <2>1
  <1>9. CASE Writes(k)
    <2>1. tick'[k].pc # "act" /\ fired' = fired /\ \A t \in Tasks : entity'[t].consumed = entity[t].consumed
      BY <1>9 DEF Writes, SameClaims
    <2> QED BY <1>2, <1>3, <1>4, <2>1
  <1> QED BY <1>5, <1>6, <1>7, <1>8, <1>9 DEF Shape

LEMMA ShapeLink ==
    ASSUME IInv, NEW k \in Ticks, Shape(k), Plain(k) \/ Held(k), met => met'
    PROVE  LinkKnown'
  <1>1. SUFFICES ASSUME ~rewrote', ~cut'
                 PROVE  /\ job'.ratified \/ asked' # {} \/ HandAt("mark") \/ HandAt("activate") => plan'.linked
                        /\ \A j \in Ticks : tick'[j].pc \in Inner => plan'.linked
                        /\ (\E t \in Tasks : plan'.task[t].st # "absent") =>
                               plan'.linked \/ hand.pc \in {"add", "link"}
    BY ShapeFacts DEF LinkKnown, HandAt, Person, Status
  <1>2. ~rewrote /\ ~cut /\ Only(k) /\ LinkKnown
    BY <1>1, ShapeFacts DEF Person, IInv
  <1>3. /\ plan'.linked = plan.linked
        /\ job'.ratified => job.ratified \/ tick[k].pc \in Inner
        /\ asked' = asked \/ tick[k].pc \in Inner
        /\ tick'[k].pc \in Inner => tick[k].pc \in Inner \/ job.ratified
        /\ plan'.task = plan.task \/ tick[k].pc \in Inner
    BY DEF Shape, Plain, Picks, Begins, Claims, Acts, Writes, At, Inner, Behind
  <1> QED BY <1>2, <1>3 DEF LinkKnown, Only, Status

LEMMA DepsAreTasks ==
    ASSUME TInv, NEW t \in Tasks
    PROVE  Deps(t) \subseteq Tasks
  BY NeedsArePlanned DEF Deps

LEMMA ShapeDeps ==
    ASSUME IInv, NEW k \in Ticks, Shape(k), Plain(k) \/ Held(k), met => met'
    PROVE  DepsKnown'
  <1>1. SUFFICES ASSUME ~met', ~rewrote', ~cut'
                 PROVE  /\ \A t \in Tasks : starts'[t] > 0 => \A d \in Deps(t) : plan'.task[d].st = "done"
                        /\ \A j \in Ticks : tick'[j].pc = "mark" =>
                               \A d \in Deps(tick'[j].task) : plan'.task[d].st = "done"
    BY ShapeFacts DEF DepsKnown, Deps, At, Task, Person, Status
  <1>2. /\ ~met /\ ~rewrote /\ ~cut /\ Only(k) /\ DepsKnown /\ LinkKnown
        /\ \A t \in Tasks : Status(t) = "done" => plan'.task[t].st = "done"
        /\ \A t \in Tasks : Deps(t) \subseteq Tasks
        /\ \A j \in Ticks : tick[j].pc = "mark" => tick[j].task \in Tasks
    BY <1>1, ShapeFacts, DepsAreTasks DEF Person, IInv, TInv, Known, Informed
  <1>3. /\ \A t \in Tasks : starts[t] > 0 => \A d \in Deps(t) : plan'.task[d].st = "done"
        /\ \A j \in Ticks : tick[j].pc = "mark" => \A d \in Deps(tick[j].task) : plan'.task[d].st = "done"
    BY <1>2 DEF DepsKnown, At, Task
  <1>4. \A j \in Ticks \ {k} : tick'[j] = tick[j]
    BY <1>2 DEF Only
  <1>5. CASE Begins(k)
    <2>1. /\ tick[k].pc = "mark" /\ tick'[k].pc # "mark"
          /\ \A u \in Tasks \ {tick[k].task} : starts'[u] = starts[u]
      BY <1>5 DEF Begins, At, Task
    <2> QED BY <1>3, <1>4, <2>1
  <1>6. CASE Picks(k)
    <2>1. /\ tick[k].pc \in Inner /\ starts' = starts /\ tick'[k].task \in Ready
      BY <1>6 DEF Picks, At, Inner, Behind
    <2>2. plan.linked
      BY <1>2, <2>1 DEF LinkKnown
    <2>3. \A d \in Deps(tick'[k].task) : Status(d) = "done"
      BY <2>1, <2>2 DEF Ready
    <2>4. tick'[k].task \in Tasks
      BY <2>1 DEF Ready
    <2>5. \A d \in Deps(tick'[k].task) : plan'.task[d].st = "done"
      BY <1>2, <2>3, <2>4
    <2> QED BY <1>3, <1>4, <2>1, <2>5
  <1>7. CASE ~Begins(k) /\ ~Picks(k)
    <2>1. starts' = starts /\ (tick'[k].pc = "mark" => tick' = tick)
      BY <1>7 DEF Shape, Plain, Claims, Acts, Writes, OnTask
    <2> QED BY <1>3, <1>4, <2>1
  <1> QED BY <1>5, <1>6, <1>7


----------------------------------------------------------------------------
(* What a step of the person, or of time, keeps of the work.               *)

Hands ==
    \/ Redraft \/ Revise \/ Propose \/ Await \/ Approve \/ Add \/ Link \/ Activate
    \/ Toggle \/ Answer \/ AnswerMark \/ AnswerUnpark \/ Due \/ CrashHand

\* The ticks go on as they were.
Beside ==
    /\ UNCHANGED <<lock, tick, loose, met, asked, starts, fired>> /\ spec'.finds = spec.finds
    /\ rewrote => rewrote'
    /\ cut => cut'

\* A step that is not an answer's writing makes no task done and reopens none,
\* and counts no attempt.
SameWork ==
    /\ \A t \in Tasks : /\ plan'.task[t].attempts = plan.task[t].attempts
                        /\ plan'.task[t].st = "done" <=> Status(t) = "done"

LEMMA HandsBeside ==
    ASSUME TInv, Hands
    PROVE  Beside
  <1>1. UNCHANGED <<lock, tick, loose, met, asked, starts, fired>>
    BY DEF Hands, Redraft, Revise, Propose, Await, Approve, Add, Link, Activate, Toggle, Answer,
           AnswerMark, AnswerUnpark, Due, CrashHand, history, files
  <1>2. rewrote => rewrote'
    BY DEF Hands, Redraft, Revise, Propose, Await, Approve, Add, Link, Activate, Toggle, Answer,
           AnswerMark, AnswerUnpark, Due, CrashHand, history, files
  <1>3. cut => cut'
    BY DEF Hands, Redraft, Revise, Propose, Await, Approve, Add, Link, Activate, Toggle, Answer,
           AnswerMark, AnswerUnpark, Due, CrashHand, history, files
  <1>4. spec'.finds = spec.finds
    <2>1. spec \in [st : {"draft", "proposed", "approved"}, finds : {{}, Finds}]
      BY DEF TInv, TypeOK
    <2>2. spec' = spec \/ \E st \in {"draft", "proposed", "approved"} : spec' = [spec EXCEPT !.st = st]
      BY DEF Hands, Redraft, Revise, Propose, Await, Approve, Add, Link, Activate, Toggle, Answer,
             AnswerMark, AnswerUnpark, Due, CrashHand, history, files
    <2> QED BY <2>1, <2>2
  <1> QED BY <1>1, <1>2, <1>3, <1>4 DEF Beside

\* What a status written over another that is not done keeps.
LEMMA SetsWork ==
    ASSUME plan \in Plans, NEW t \in Tasks, NEW st \in Statuses \ {"done"},
           Sets(t, st), Status(t) # "done"
    PROVE  SameWork /\ plan'.linked = plan.linked
  BY SetsFacts DEF SameWork, Status

LEMMA HandsWork ==
    ASSUME TInv, Hands, ~AnswerMark
    PROVE  /\ SameWork
           /\ Link \/ plan'.linked = plan.linked
           /\ Add \/ Due \/ plan'.task = plan.task
  <1>1. plan \in Plans /\ {"pending", "parked"} \subseteq Statuses \ {"done"}
    BY DEF TInv, TypeOK, Statuses
  <1>2. CASE Add
    <2>1. PICK t \in Missing : Sets(t, "pending")
      BY <1>2 DEF Add
    <2>2. t \in Tasks /\ Status(t) # "done"
      BY DEF Missing
    <2> QED BY <1>1, <1>2, <2>1, <2>2, SetsWork
  <1>3. CASE Due
    <2>1. PICK t \in Tasks : Status(t) = "deferred" /\ Sets(t, "parked")
      BY <1>3 DEF Due
    <2> QED BY <1>1, <1>3, <2>1, SetsWork
  <1>4. CASE Link
    <2>1. plan'.task = plan.task
      BY <1>1, <1>4 DEF Link, Plans
    <2> QED BY <1>4, <2>1 DEF SameWork, Status
  <1>5. CASE ~Add /\ ~Due /\ ~Link
    <2>1. UNCHANGED plan
      BY <1>5 DEF Hands, Redraft, Revise, Propose, Await, Approve, Activate, Toggle, Answer,
                  AnswerUnpark, CrashHand, files
    <2> QED BY <2>1 DEF SameWork, Status
  <1> QED BY <1>2, <1>3, <1>4, <1>5

\* An answer that writes its copy makes nothing done, and where it undoes no
\* tick's writing it only makes its task pending.
LEMMA MarkWork ==
    ASSUME IInv, AnswerMark
    PROVE  /\ ~met => \A t \in Tasks : plan'.task[t].st = "done" => Status(t) = "done"
           /\ ~rewrote' => SameWork /\ plan'.linked = plan.linked
           /\ hand.pc = "mark" /\ hand'.pc = "unpark" /\ job' = job
  <1> DEFINE t == hand.task
             copy == hand.copy
  <1>1. /\ plan \in Plans /\ hand.pc = "mark" /\ t \in Tasks /\ copy \in Plans /\ hand \in HandStates
    BY DEF IInv, TInv, TypeOK, Known, AnswerMark, HandAt
  <1>2. /\ hand' = [hand EXCEPT !.pc = "unpark", !.copy = entity[t]] /\ job' = job
    BY DEF AnswerMark
  <1>3. hand'.pc = "unpark"
    BY <1>1, <1>2 DEF HandStates
  <1>4. CASE UNCHANGED plan
    BY <1>1, <1>2, <1>3, <1>4 DEF SameWork, Status
  <1>5. CASE /\ plan' = [copy EXCEPT !.task[t].st = "pending"]
             /\ rewrote' = (rewrote \/ copy # plan \/ Status(t) = "done")
    <2>1. ~met => \A u \in Tasks : copy.task[u].st = "done" => Status(u) = "done"
      BY <1>1 DEF IInv, DoneKnown
    <2> HIDE DEF t, copy
    <2>2. /\ plan'.linked = copy.linked /\ plan'.task[t].st = "pending"
          /\ \A u \in Tasks : plan'.task[u].attempts = copy.task[u].attempts
          /\ \A u \in Tasks \ {t} : plan'.task[u] = copy.task[u]
      BY <1>1, <1>5 DEF Plans
    <2>3. ~met => \A u \in Tasks : plan'.task[u].st = "done" => Status(u) = "done"
      <3> SUFFICES ASSUME ~met, NEW u \in Tasks, plan'.task[u].st = "done" PROVE Status(u) = "done"
        OBVIOUS
      <3>1. u # t
        BY <2>2
      <3> QED BY <2>1, <2>2, <3>1
    <2>4. ~rewrote' => SameWork /\ plan'.linked = plan.linked
      BY <1>1, <1>5, <2>2 DEF SameWork, Status
    <2> QED BY <1>1, <1>2, <1>3, <2>3, <2>4
  <1> QED BY <1>4, <1>5 DEF AnswerMark

LEMMA HandDone ==
    ASSUME IInv, Hands
    PROVE  DoneKnown'
  <1>1. SUFFICES ASSUME ~met'
                 PROVE  /\ \A j \in Ticks : tick'[j].pc \in OnTask => plan'.task[tick'[j].task].st # "done"
                        /\ hand'.pc = "mark" =>
                               \A t \in Tasks : hand'.copy.task[t].st = "done" => plan'.task[t].st = "done"
    BY DEF DoneKnown, Status, Task
  <1>2. /\ ~met /\ DoneKnown /\ TInv /\ Beside /\ tick' = tick
        /\ \A j \in Ticks : tick[j].pc \in OnTask => tick[j].task \in Tasks
    <2>1. TInv /\ DoneKnown
      BY DEF IInv
    <2> QED BY <1>1, <2>1, HandsBeside DEF Beside, TInv, Known, Informed, OnTask
  <1>3. \A t \in Tasks : plan'.task[t].st = "done" => Status(t) = "done"
    BY <1>2, HandsWork, MarkWork DEF SameWork
  <1>4. \A j \in Ticks : tick'[j].pc \in OnTask => plan'.task[tick'[j].task].st # "done"
    BY <1>2, <1>3 DEF DoneKnown, Task
  <1>5. CASE AnswerMark
    BY <1>4, <1>5, MarkWork
  <1>6. CASE ~AnswerMark
    <2>1. \A t \in Tasks : Status(t) = "done" => plan'.task[t].st = "done"
      BY <1>2, <1>6, HandsWork DEF SameWork
    <2>2. CASE Answer
      BY <1>4, <2>1, <2>2 DEF Answer, Status
    <2>3. CASE ~Answer
      <3>1. hand'.pc = "mark" => hand' = hand
        BY <1>2, <1>6, <2>3 DEF Hands, Redraft, Revise, Propose, Await, Approve, Add, Link, Activate,
             Toggle, AnswerUnpark, Due, CrashHand, Free, HandAt, TInv, TypeOK, HandStates
      <3> QED BY <1>2, <1>4, <2>1, <3>1 DEF DoneKnown
    <2> QED BY <2>2, <2>3
  <1> QED BY <1>5, <1>6

LEMMA HandCount ==
    ASSUME IInv, Hands
    PROVE  CountKnown'
  <1>1. SUFFICES ASSUME ~met', ~rewrote' PROVE CountKnown'
    BY DEF CountKnown
  <1>2. TInv /\ CountKnown /\ Beside
    BY HandsBeside DEF IInv
  <1>3. SameWork
    BY <1>1, <1>2, HandsWork, MarkWork
  <1>4. \A j \in Ticks : tick[j].pc = "mark" => tick[j].task \in Tasks
    BY <1>2 DEF TInv, Known, Informed
  <1> QED BY <1>1, <1>2, <1>3, <1>4 DEF CountKnown, Beside, SameWork, At, Task

LEMMA HandAct ==
    ASSUME IInv, Hands
    PROVE  ActKnown'
  <1>1. SUFFICES ASSUME ~met', ~rewrote' PROVE ActKnown'
    BY DEF ActKnown
  <1>2. TInv /\ ActKnown /\ Beside
    BY HandsBeside DEF IInv
  <1>3. UNCHANGED entity
    <2>1. CASE AnswerUnpark
      <3>1. hand.copy = entity[hand.task] /\ entity \in [Tasks -> Entities]
            /\ entity' = [entity EXCEPT ![hand.task] = hand.copy]
        BY <1>1, <1>2, <2>1 DEF AnswerUnpark, TInv, TypeOK
      <3> QED BY <3>1
    <2>2. CASE ~AnswerUnpark
      BY <2>2 DEF Hands, Redraft, Revise, Propose, Await, Approve, Add, Link, Activate, Toggle,
                  Answer, AnswerMark, Due, CrashHand, files
    <2> QED BY <2>1, <2>2
  <1> QED BY <1>1, <1>2, <1>3 DEF ActKnown, Beside, At, Task

LEMMA HandDeps ==
    ASSUME IInv, Hands
    PROVE  DepsKnown'
  <1>1. SUFFICES ASSUME ~met', ~rewrote', ~cut' PROVE DepsKnown'
    BY DEF DepsKnown
  <1>2. TInv /\ DepsKnown /\ Beside
    BY HandsBeside DEF IInv
  <1>3. SameWork
    BY <1>1, <1>2, HandsWork, MarkWork
  <1>4. /\ \A t \in Tasks : Deps(t) \subseteq Tasks /\ Deps(t)' = Deps(t)
        /\ \A j \in Ticks : tick[j].pc = "mark" => tick[j].task \in Tasks
    BY <1>2, DepsAreTasks DEF TInv, Known, Informed, Deps, Beside
  <1>5. \A t \in Tasks : Status(t) = "done" => Status(t)' = "done"
    BY <1>3 DEF SameWork, Status
  <1>6. ~met /\ ~rewrote /\ ~cut /\ starts' = starts /\ tick' = tick
    BY <1>1, <1>2 DEF Beside
  <1>7. \A t \in Tasks : starts'[t] > 0 => \A d \in Deps(t)' : Status(d)' = "done"
    BY <1>2, <1>4, <1>5, <1>6 DEF DepsKnown
  <1>8. ASSUME NEW k \in Ticks, At(k, "mark")' PROVE \A d \in Deps(Task(k))' : Status(d)' = "done"
    <2>1. At(k, "mark") /\ Task(k)' = Task(k) /\ Task(k) \in Tasks
      BY <1>4, <1>6, <1>8 DEF At, Task
    <2>2. Deps(Task(k))' = Deps(Task(k))
      BY <1>2, <1>6 DEF Deps, Task, Beside
    <2> QED BY <1>2, <1>4, <1>5, <1>6, <2>1, <2>2 DEF DepsKnown
  <1> QED BY <1>7, <1>8 DEF DepsKnown

LEMMA HandLink ==
    ASSUME IInv, Hands
    PROVE  LinkKnown'
  <1>1. SUFFICES ASSUME ~rewrote', ~cut'
                 PROVE  /\ job'.ratified \/ asked' # {} \/ hand'.pc = "mark" \/ hand'.pc = "activate"
                               => plan'.linked
                        /\ \A j \in Ticks : tick'[j].pc \in Inner => plan'.linked
                        /\ (\E t \in Tasks : plan'.task[t].st # "absent") =>
                               plan'.linked \/ hand'.pc \in {"add", "link"}
    BY DEF LinkKnown, HandAt, Status
  <1>2. TInv /\ LinkKnown /\ Beside /\ ~rewrote /\ ~cut
    BY <1>1, HandsBeside DEF IInv, Beside
  <1>3. /\ job.ratified \/ asked # {} \/ hand.pc = "mark" \/ hand.pc = "activate" => plan.linked
        /\ \A j \in Ticks : tick[j].pc \in Inner => plan.linked
        /\ (\E t \in Tasks : Status(t) # "absent") => plan.linked \/ hand.pc \in {"add", "link"}
        /\ tick' = tick /\ asked' = asked
    BY <1>2 DEF LinkKnown, HandAt, Beside
  <1>4. plan \in Plans /\ hand \in HandStates /\ job \in Jobs
    BY <1>2 DEF TInv, TypeOK
  <1>5. CASE plan.linked
    <2>1. plan'.linked
      <3>1. CASE AnswerMark
        BY <1>1, <1>5, <3>1, MarkWork
      <3>2. CASE Link
        BY <1>4, <3>2 DEF Link, Plans
      <3>3. CASE ~AnswerMark /\ ~Link
        BY <1>2, <1>5, <3>3, HandsWork
      <3> QED BY <3>1, <3>2, <3>3
    <2> QED BY <2>1
  <1>6. CASE Link
    <2>1. plan'.linked
      BY <1>4, <1>6 DEF Link, Plans
    <2> QED BY <2>1
  <1>7. CASE ~plan.linked /\ ~Link
    <2>1. /\ ~job.ratified /\ asked = {} /\ hand.pc \notin {"mark", "activate"}
          /\ \A j \in Ticks : tick[j].pc \notin Inner
          /\ (\E t \in Tasks : Status(t) # "absent") => hand.pc \in {"add", "link"}
      BY <1>3, <1>7
    <2>2. ~AnswerMark /\ ~Answer /\ ~Activate
      BY <2>1 DEF AnswerMark, Answer, Activate, HandAt
    <2>3. ~job'.ratified
      <3>1. job' = job \/ \E to \in DOMAIN Moves : MovesTo(to)
        BY <2>2 DEF Hands, Redraft, Revise, Propose, Await, Approve, Add, Link, Activate, Toggle, Answer,
             AnswerMark, AnswerUnpark, Due, CrashHand, files, Moves
      <3> QED BY <1>4, <2>1, <3>1 DEF MovesTo, Jobs
    <2>4. hand'.pc \notin {"mark", "activate"}
      <3>1. CASE Approve
        BY <2>1, <3>1 DEF Approve, Free, HandAt
      <3>2. CASE ~Approve
        BY <1>4, <1>7, <2>1, <2>2, <3>2 DEF Hands, Redraft, Revise, Propose, Await, Add, Link, Toggle,
             AnswerUnpark, Due, CrashHand, Free, HandAt, HandStates
      <3> QED BY <3>1, <3>2
    <2>5. (\E t \in Tasks : plan'.task[t].st # "absent") => hand'.pc \in {"add", "link"}
      <3>1. CASE Add
        BY <1>4, <3>1 DEF Add, HandStates
      <3>2. CASE Due
        BY <2>1, <3>2 DEF Due
      <3>3. CASE ~Add /\ ~Due
        <4>1. plan'.task = plan.task
          BY <1>2, <2>2, <3>3, HandsWork
        <4>2. hand.pc \in {"add", "link"} => hand' = hand
          BY <1>1, <1>7, <2>2, <3>3 DEF Hands, Redraft, Revise, Propose, Await, Approve, Toggle,
             AnswerUnpark, CrashHand, HandAt
        <4> QED BY <2>1, <4>1, <4>2 DEF Status
      <3> QED BY <3>1, <3>2, <3>3
    <2> QED BY <1>3, <2>1, <2>3, <2>4, <2>5
  <1> QED BY <1>5, <1>6, <1>7


----------------------------------------------------------------------------
(* The invariant.                                                          *)

LEMMA IInvInit == Init => IInv
  <1> SUFFICES ASSUME Init PROVE IInv
    OBVIOUS
  <1>1. TInv
    BY TInvInit
  <1>2. \A k \in Ticks : tick[k].pc = "off"
    BY DEF Init, Off
  <1>3. \A k \in Ticks : tick[k].pc \notin Behind \cup {"hold", "remove", "steal", "again"}
    BY <1>2 DEF Behind
  <1>4. hand.pc = "free"
    BY DEF Init, Free
  <1>5. \A t \in Tasks : Status(t) = "absent" /\ plan.task[t].attempts = 0 /\ starts[t] = 0
    BY DEF Init, Status
  <1>6. LeaseKnown /\ OneTick
    BY <1>3 DEF LeaseKnown, OneTick, Owners, Displacers, Held, At
  <1>7. DoneKnown /\ CountKnown /\ ActKnown
    BY <1>2, <1>4, <1>5, NumbersAreNatural DEF DoneKnown, CountKnown, ActKnown, OnTask, At, Init
  <1>8. ~job.ratified /\ asked = {}
    BY DEF Init
  <1>9. LinkKnown /\ DepsKnown
    BY <1>2, <1>3, <1>4, <1>5, <1>8 DEF LinkKnown, DepsKnown, HandAt, At, Inner
  <1> QED BY <1>1, <1>6, <1>7, <1>9 DEF IInv

\* Every step of a tick is a plain one or is made behind the lease.
LEMMA TickShape ==
    ASSUME TInv, NEW k \in Ticks,
           Start(k) \/ Runs(k) \/ Discover(k) \/ Lapse(k) \/ Crash(k) \/ LapseDead
    PROVE  Shape(k) /\ (Plain(k) \/ Inside(k)) /\ (met => met')
  <1>1. CASE \/ Start(k) \/ MakeDir(k) \/ Steal(k) \/ MakeDirAgain(k) \/ Hold(k) \/ Lapse(k)
             \/ Release(k) \/ Remove(k) \/ Crash(k)
    <2>1. met => met'
      BY <1>1 DEF Start, MakeDir, Steal, MakeDirAgain, Hold, Lapse, Release, Remove, Crash, history
    <2> QED BY <1>1, <2>1, LeaseShape DEF Shape
  <1>2. CASE LapseDead
    BY <1>2 DEF LapseDead, Shape, Plain, Only, Person, SameClaims, files, history
  <1>3. CASE Read(k) \/ Recover(k) \/ End(k) \/ Sprint(k) \/ Pick(k) \/ NoHost(k) \/ Idle(k)
    BY <1>3, RunShape DEF Inside
  <1>4. CASE \/ Mark(k) \/ Reconcile(k) \/ Discover(k) \/ Work(k) \/ Claim(k) \/ Act(k)
             \/ Success(k) \/ Book(k) \/ Park(k) \/ Defer(k) \/ Abandon(k) \/ Fail(k) \/ Retry(k)
    BY <1>4, WorkShape DEF Inside
  <1> QED BY <1>1, <1>2, <1>3, <1>4 DEF Runs

\* Every step is a tick's, a person's or time's.
LEMMA Steps ==
    ASSUME TInv, Next
    PROVE  \/ Hands
           \/ \E k \in Ticks : Start(k) \/ Runs(k) \/ Discover(k) \/ Lapse(k) \/ Crash(k) \/ LapseDead
  BY DEF Next, Hands, LapseDead, TInv, TypeOK

LEMMA TickLease ==
    ASSUME TInv, LeaseKnown, OneTick, NEW k \in Ticks,
           Start(k) \/ Runs(k) \/ Discover(k) \/ Lapse(k) \/ Crash(k) \/ LapseDead
    PROVE  LeaseKnown' /\ OneTick'
  <1>1. CASE \/ Start(k) \/ MakeDir(k) \/ Steal(k) \/ MakeDirAgain(k) \/ Hold(k) \/ Lapse(k)
             \/ LapseDead \/ Release(k) \/ Remove(k) \/ Crash(k)
    BY <1>1, LeaseStep
  <1>2. CASE \/ Read(k) \/ Recover(k) \/ End(k) \/ Sprint(k) \/ Pick(k) \/ NoHost(k) \/ Idle(k)
             \/ Mark(k) \/ Reconcile(k) \/ Discover(k) \/ Work(k) \/ Claim(k) \/ Act(k)
             \/ Success(k) \/ Book(k) \/ Park(k) \/ Defer(k) \/ Abandon(k) \/ Fail(k) \/ Retry(k)
    BY <1>2, RunShape, WorkShape, InsideLease
  <1> QED BY <1>1, <1>2 DEF Runs

LEMMA IInvStep == IInv /\ [Next]_vars => IInv'
  <1> SUFFICES ASSUME IInv, [Next]_vars PROVE IInv'
    OBVIOUS
  <1>1. TInv /\ TInv' /\ LeaseKnown /\ OneTick
    BY TInvStep DEF IInv
  <1>2. CASE UNCHANGED vars
    BY <1>1, <1>2 DEF IInv, vars, files, history, LeaseKnown, OneTick, DoneKnown, CountKnown, ActKnown,
                 LinkKnown, DepsKnown, Owners, Displacers, Held, At, HandAt, Task, Status, Deps
  <1>3. CASE Hands
    <2>1. LeaseKnown' /\ OneTick'
      BY <1>1, <1>3, HandsBeside, StillLease DEF Beside
    <2> QED BY <1>1, <1>3, <2>1, HandDone, HandCount, HandAct, HandLink, HandDeps DEF IInv
  <1>4. ASSUME NEW k \in Ticks,
               Start(k) \/ Runs(k) \/ Discover(k) \/ Lapse(k) \/ Crash(k) \/ LapseDead
        PROVE  IInv'
    <2>1. LeaseKnown' /\ OneTick'
      BY <1>1, <1>4, TickLease
    <2>2. Shape(k) /\ (Plain(k) \/ Held(k)) /\ (met => met')
      BY <1>1, <1>4, TickShape DEF Inside
    <2> QED BY <1>1, <2>1, <2>2, ShapeDone, ShapeCount, ShapeAct, ShapeLink, ShapeDeps DEF IInv
  <1> QED BY <1>1, <1>2, <1>3, <1>4, Steps

\* What holds whatever the ticks, the person, time and crashes do.
LEMMA Invariance == Spec => []IInv
  BY IInvInit, IInvStep, PTL DEF Spec

----------------------------------------------------------------------------
(* The theorems.                                                           *)

\* Two ticks work on a job at once (core/lease.ts) only after a lease was taken
\* from somebody who still counted on it.
THEOREM LeaseKeepsOut == Spec => []LeaseExcludes
  <1>1. IInv => LeaseExcludes
    <2> SUFFICES ASSUME IInv, ~loose PROVE ~(Cardinality({k \in Ticks : Held(k)}) > 1)
      BY DEF LeaseExcludes
    <2> DEFINE Busy == {k \in Ticks : Held(k)}
    <2>1. Busy \subseteq {lock.holder}
      BY DEF IInv, LeaseKnown
    <2>2. IsFiniteSet({lock.holder}) /\ Cardinality({lock.holder}) = 1
      BY FS_Singleton
    <2>3. IsFiniteSet(Busy) /\ Cardinality(Busy) \in Nat /\ Cardinality(Busy) <= 1
      BY <2>1, <2>2, FS_Subset, FS_CardinalityType
    <2> QED BY <2>3
  <1> QED BY <1>1, Invariance, PTL

\* No task is started more than Cap times (markRunning, failExhausted), crashed
\* attempts included, unless two ticks met or an answer undid a tick's writing.
THEOREM AttemptsAreBounded == Spec => []AttemptsBounded
  <1>1. IInv => AttemptsBounded
    <2> SUFFICES ASSUME IInv, ~met, ~rewrote, NEW t \in Tasks PROVE starts[t] <= Cap
      BY DEF AttemptsBounded
    <2>1. /\ starts[t] \in Nat /\ plan.task[t].attempts \in Nat /\ Cap \in Nat
          /\ starts[t] <= plan.task[t].attempts /\ plan.task[t].attempts <= Cap
      BY NumbersAreNatural DEF IInv, CountKnown, TInv, TypeOK, Plans
    <2> QED BY <2>1
  <1> QED BY <1>1, Invariance, PTL

\* What has been started keeps its dependencies done (readyTasks), unless the
\* plan was left half made, two ticks met, or an answer reopened what was done.
THEOREM StartsAfterDeps == Spec => []StartedAfterDeps
  <1>1. IInv => StartedAfterDeps
    BY DEF IInv, DepsKnown, StartedAfterDeps
  <1> QED BY <1>1, Invariance, PTL

\* The action of a task is done once (GoalStore.claim), over crashes, parking
\* and retries, unless two ticks met or an answer wrote an older entity back.
THEOREM CommitsOnce == Spec => CommitOnce
  <1>1. IInv /\ [Next]_vars =>
            [\A k \in Ticks : At(k, "act") /\ tick'[k].pc = "settle" /\ Task(k) \in fired =>
                 met \/ rewrote]_vars
    BY DEF IInv, ActKnown
  <1> QED BY <1>1, Invariance, PTL DEF Spec, CommitOnce

\* A task that is done stays so (recoverRunning, replaceApproach and the run of
\* a task), but for an answer or a tick beside another.
THEOREM DoneIsKept == Spec => DoneStays
  <1>1. IInv /\ [Next]_vars =>
            [\A t \in Tasks : Status(t) = "done" /\ plan'.task[t].st # "done" =>
                 HandAt("mark") \/ met]_vars
    <2> SUFFICES ASSUME IInv, Next, NEW t \in Tasks, Status(t) = "done", ~HandAt("mark"), ~met
                 PROVE  plan'.task[t].st = "done"
      BY DEF vars
    <2>1. TInv
      BY DEF IInv
    <2>2. CASE Hands
      <3>1. ~AnswerMark
        BY DEF AnswerMark
      <3> QED BY <2>1, <2>2, <3>1, HandsWork DEF SameWork
    <2>3. ASSUME NEW k \in Ticks,
                 Start(k) \/ Runs(k) \/ Discover(k) \/ Lapse(k) \/ Crash(k) \/ LapseDead
          PROVE  plan'.task[t].st = "done"
      <3>1. Shape(k) /\ (Plain(k) \/ Inside(k)) /\ (met => met')
        BY <2>1, <2>3, TickShape
      <3>2. CASE Plain(k)
        BY <3>2 DEF Plain, Status
      <3>3. CASE Inside(k)
        BY <3>1, <3>3, ShapeFacts DEF Inside
      <3> QED BY <3>1, <3>2, <3>3
    <2> QED BY <2>1, <2>2, <2>3, Steps
  <1> QED BY <1>1, Invariance, PTL DEF Spec, DoneStays

====
