---- MODULE CoderRunsProofs ----
(***************************************************************************)
(* The subagent tool's workers are bounded, are extended only after they   *)
(* spoke, and are stopped by failures, for all tasks, times and limits.    *)
(***************************************************************************)
EXTENDS CoderRuns, TLAPS

\* A call under way is about a task, and only a call with a worker has a child.
CallKnown ==
    /\ call.pc # "idle" => call.task \in Tasks
    /\ ~child.live => child = NoChild

\* The latest deadline: the cap and one question, or a first slice beyond.
Latest == Most(Cap + Wait, child.slice)

\* The clock of a worker that has a deadline: it does not pass it, and the
\* deadline is not later than the latest.  A question stands since
\* Cap - budget, when the child had spoken within the silence allowed.
ClockKnown ==
    child.live /\ child.clock # "off" =>
        /\ child.slice \in Slices
        /\ child.age <= child.due /\ child.due <= Latest
        /\ child.kill <= Latest + Grace
        /\ child.clock = "slice" /\ child.extensions = 0 => child.due = child.slice
        /\ child.clock = "ask" =>
               /\ attended /\ child.slice < Cap
               /\ child.budget > 0 /\ child.extensions < MaxExtensions
               /\ child.due = Cap - child.budget + Wait
               /\ Cap - child.budget <= child.age
               /\ child.quiet <= Silence + child.age - (Cap - child.budget)

\* A worker whose clock has ended is being killed; an abort after that may
\* have counted the grace anew, once.
KillKnown ==
    /\ child.kill > 0 => child.age <= child.kill
    /\ child.live /\ child.clock = "off" =>
           /\ child.kill > 0
           /\ child.kill <= Latest + Grace + (IF child.signal THEN Grace ELSE 0)

\* Only a slice shorter than the cap is extended.
LongSlices == child.slice >= Cap => child.extensions = 0

\* A worker may start: the failures are too few, or its family is asked for.
LetThrough(p, t, failed) == failed < MaxFailures \/ p.required = t.family

\* The failures that count are at least those of the streak, and a streak that
\* is long enough has stopped the stream.  What is remembered is what is saved.
StreakKnown ==
    /\ streak <= progress.failures
    /\ streak >= MaxFailures => progress.blocked
    /\ progress.once => ~progress.blocked
    /\ saved = None => progress = EmptyProgress /\ streak = 0
    /\ saved # None => saved = progress
    /\ call.pc \in {"grant", "run"} => LetThrough(progress, call.task, streak)

IInv == TypeOK /\ CallKnown /\ ClockKnown /\ KillKnown /\ LongSlices /\ StreakKnown

----------------------------------------------------------------------------
(* The operators the actions are built from.                               *)

\* The initial progress is progress.
LEMMA EmptyIsProgress == EmptyProgress \in Progress
  BY DEF EmptyProgress, Progress

\* No worker is a state of the child.
LEMMA NoChildIsChild == NoChild \in Child
  BY LimitsAreNatural, TimesArePositive DEF NoChild, Child

\* What an operator or an unattended session chooses leaves progress, and
\* keeps a stop unless it lifts it, with the failures that led to it.
LEMMA AppliedFacts ==
    ASSUME NEW p \in Progress, NEW choice \in Choices,
           NEW family \in Families \cup {None}, p.once => ~p.blocked
    PROVE  LET q == Applied(p, choice, family) IN
           /\ q \in Progress
           /\ q.once => ~q.blocked
           /\ choice \in Lifts => q.failures = 0
           /\ choice \notin Lifts => q.failures = p.failures /\ q.blocked
  <1> DEFINE q == Applied(p, choice, family)
             to == IF choice = "change" THEN family
                   ELSE IF p.fp # None /\ choice \in {"narrow", "once"} THEN p.fp.family ELSE None
  <1>1. to \in Families \cup {None}
    BY TasksAreTasks DEF Progress
  <1>2. q = [p EXCEPT
              !.once = choice = "once",
              !.blocked = IF choice = "change" THEN family = None ELSE choice \notin Lifts,
              !.failures = IF choice \in Lifts THEN 0 ELSE @,
              !.stagnant = IF choice \in {"change", "narrow"} THEN 0 ELSE @,
              !.required = CASE choice = "change" -> family
                             [] choice = "once" -> None
                             [] OTHER -> @,
              !.tried = IF to = None THEN @ ELSE @ \cup {to}]
    BY DEF Applied, Progress
  <1>3. q.required \in Families \cup {None} /\ q.tried \subseteq Families
    BY <1>1, <1>2, NoneIsNothing DEF Progress
  <1>4. q \in Progress
    <2> DEFINE r == q.required
               tr == q.tried
               f == IF choice \in Lifts THEN 0 ELSE p.failures
               s == IF choice \in {"change", "narrow"} THEN 0 ELSE p.stagnant
               b == IF choice = "change" THEN family = None ELSE choice \notin Lifts
    <2>1. f \in Nat /\ s \in Nat /\ b \in BOOLEAN /\ (choice = "once") \in BOOLEAN
      BY DEF Progress
    <2>2. q = [p EXCEPT !.once = choice = "once", !.blocked = b, !.failures = f,
                        !.stagnant = s, !.required = r, !.tried = tr]
      BY <1>2 DEF Progress
    <2> HIDE DEF r, tr, f, s, b, q
    <2> QED BY <1>3, <2>1, <2>2 DEF Progress, r, tr
  <1> QED BY <1>2, <1>4 DEF Progress, Lifts, Choices

\* The versions that count for a task are versions of files.
LEMMA AcceptedFacts ==
    ASSUME TypeOK, NEW t \in Tasks
    PROVE  Accepted(t) \subseteq Hashes
  <1>1. \A f \in t.counts : f \in Files
    BY DEF Files
  <1>2. \A f \in Files : scratch.file[f] > 0 => scratch.file[f] \in 1..MaxWrites
    BY LimitsAreNatural DEF TypeOK
  <1> QED BY <1>1, <1>2 DEF Accepted, Hashes

\* A verdict is progress; one of a failure without a checkpoint counts one more
\* failure, and stops the stream when they are enough.
LEMMA EvaluatedFacts ==
    ASSUME NEW p \in Progress, NEW t \in Tasks, NEW ok \in BOOLEAN,
           NEW hashes \in SUBSET Hashes, NEW late \in BOOLEAN
    PROVE  LET q == Evaluated(p, t, ok, hashes, late) IN
           /\ q \in Progress
           /\ ~q.once
           /\ ~ok => q.failures = p.failures + 1
           /\ ~ok /\ hashes = {} /\ q.failures >= MaxFailures => q.blocked
  <1> DEFINE c == Counted(p, t, ok, hashes)
             h == Halts(p, t, ok, hashes, late)
             adv == Advances(p, t, hashes) /\ hashes # {}
             q == Evaluated(p, t, ok, hashes, late)
  <1>1. Noted(p, t, hashes) \in Progress /\ ~Noted(p, t, hashes).once
        /\ Noted(p, t, hashes).failures = p.failures
    BY DEF Noted, Progress
  <1>2. /\ c \in Progress /\ ~c.once
        /\ ~ok => c.failures = p.failures + 1
    <2> DEFINE n == Noted(p, t, hashes)
               fl == IF ok THEN 0 ELSE n.failures + 1
               st == IF SameStream(p, t) /\ ~Advances(p, t, hashes) THEN n.stagnant + 1 ELSE 0
    <2>1. st \in Nat /\ fl \in Nat
      BY <1>1 DEF Progress
    <2>2. c = [n EXCEPT !.failures = fl, !.stagnant = st]
      BY <1>1 DEF Counted, Progress
    <2>3. n \in Progress /\ ~n.once
      BY <1>1
    <2>4. ~ok => fl = p.failures + 1
      BY <1>1
    <2> HIDE DEF n, st, fl, c
    <2> QED BY <2>1, <2>2, <2>3, <2>4 DEF Progress
  <1>3. h \in BOOLEAN
    BY DEF Halts
  <1>4. q = IF adv THEN [c EXCEPT !.blocked = FALSE, !.required = None]
                   ELSE [c EXCEPT !.blocked = h]
    BY DEF Evaluated
  <1>5. q \in Progress /\ ~q.once /\ q.failures = c.failures
    <2> HIDE DEF c, h, adv
    <2> QED BY <1>2, <1>3, <1>4 DEF Progress
  <1>6. ASSUME ~ok, hashes = {}, q.failures >= MaxFailures PROVE q.blocked
    <2>1. h
      BY <1>5, <1>6 DEF Halts
    <2>2. q = [c EXCEPT !.blocked = h]
      BY <1>4, <1>6
    <2> HIDE DEF c, h, q
    <2> QED BY <1>2, <2>1, <2>2 DEF Progress
  <1> QED BY <1>2, <1>5, <1>6

\* A child that declined leaves progress without failures and without a stop.
LEMMA DeclinedFacts ==
    ASSUME NEW p \in Progress, NEW t \in Tasks, NEW hashes \in SUBSET Hashes
    PROVE  LET q == Declined(p, t, hashes) IN
           q \in Progress /\ ~q.once /\ ~q.blocked /\ q.failures = 0
  BY DEF Declined, Noted, Progress

----------------------------------------------------------------------------
(* The invariant, action by action.                                        *)

\* A step that leaves progress and its file alone keeps what they know.
LEMMA ProgressStays ==
    ASSUME StreakKnown, UNCHANGED <<progress, saved, streak>>,
           call'.pc \in {"grant", "run"} => LetThrough(progress, call'.task, streak)
    PROVE  StreakKnown'
  BY DEF StreakKnown, LetThrough

\* A step without a worker before and after has nothing to know of a clock.
LEMMA NoClock ==
    ASSUME child' = NoChild
    PROVE  ClockKnown' /\ KillKnown' /\ LongSlices'
  BY DEF NoChild, ClockKnown, KillKnown, LongSlices

\* A step that remembers new progress, and saves it.
LEMMA KeepKeeps ==
    ASSUME NEW p \in Progress, Keep(p), streak' <= p.failures,
           streak' >= MaxFailures => p.blocked, p.once => ~p.blocked,
           call'.pc \in {"grant", "run"} => LetThrough(p, call'.task, streak')
    PROVE  StreakKnown' /\ saved' \in Progress /\ progress' \in Progress
  <1>1. p # None
    BY NoneIsNoProgress
  <1> QED BY <1>1 DEF Keep, StreakKnown, LetThrough

\* A call that is under way, or none.
Calls == [pc : {"idle", "choose", "grant", "run", "judge", "recover"},
          task : Tasks \cup {None}, ok : BOOLEAN]

\* No call is a state of the call.
LEMMA IdleIsCall == Idle \in Calls /\ Idle.pc = "idle"
  BY DEF Idle, Calls

\* Whoever the gate lets through has failed too little or is asked for.
LEMMA AllowedFacts ==
    ASSUME StreakKnown, TypeOK, NEW t \in Tasks, Allowed(progress, t)
    PROVE  LetThrough(progress, t, streak)
  BY LimitsAreNatural DEF StreakKnown, TypeOK, Allowed, LetThrough, Progress

\* A step of the call that neither starts nor ends a worker.
LEMMA CallSteps ==
    ASSUME IInv, ~child.live, UNCHANGED <<attended, child, scratch>>,
           left' \in [calls : 0..MaxCalls, restarts : 0..MaxRestarts],
           call' \in Calls, call'.pc # "run", call'.pc # "idle" => call'.task \in Tasks,
           progress' \in Progress, saved' \in Progress \cup {None},
           streak' \in 0..(MaxFailures + 1), StreakKnown'
    PROVE  IInv'
  BY DEF IInv, TypeOK, Calls, CallKnown, ClockKnown, KillKnown, LongSlices, Latest, NoChild

\* A call is refused, let through or begins with a question or a new family.
LEMMA BeginKeeps ==
    ASSUME IInv, NEW t \in Tasks, Begin(t)
    PROVE  IInv'
  <1>1. /\ ~child.live /\ UNCHANGED <<attended, child, scratch>>
        /\ left' \in [calls : 0..MaxCalls, restarts : 0..MaxRestarts]
    BY LimitsAreNatural DEF Begin, IInv, TypeOK
  <1>2. /\ call' \in Calls /\ call'.pc # "run"
        /\ call'.pc # "idle" => call'.task \in Tasks
        /\ call'.pc = "grant" => call'.task = t
    BY DEF Begin, Idle, IInv, TypeOK, Calls
  <1>3. ASSUME UNCHANGED <<progress, saved, streak>>,
               call'.pc = "grant" => Allowed(progress, t)
        PROVE  IInv'
    <2>1. StreakKnown'
      BY <1>2, <1>3, ProgressStays, AllowedFacts DEF IInv
    <2> QED BY <1>1, <1>2, <1>3, <2>1, CallSteps DEF IInv, TypeOK
  <1>4. ASSUME Turns(progress, t), Keep(Applied(progress, "change", ByName(t.family))),
               streak' = 0
        PROVE  IInv'
    <2> DEFINE p == Applied(progress, "change", ByName(t.family))
    <2>1. ByName(t.family) \in Families
      BY AnyTextHasAFamily, TasksAreTasks DEF ByName
    <2>2. p \in Progress /\ (p.once => ~p.blocked) /\ p.failures = 0
      BY <2>1, AppliedFacts DEF IInv, TypeOK, StreakKnown, Choices, Lifts
    <2> HIDE DEF p
    <2>3. StreakKnown' /\ saved' \in Progress /\ progress' \in Progress
      BY <1>4, <2>2, KeepKeeps, LimitsAreNatural DEF LetThrough, p
    <2> QED BY <1>1, <1>2, <1>4, <2>3, CallSteps, LimitsAreNatural
  <1> QED
    <2>1. CASE Allowed(progress, t) /\ UNCHANGED <<progress, saved, streak>>
      BY <2>1, <1>3
    <2>2. CASE /\ Turns(progress, t) /\ streak' = 0
               /\ Keep(Applied(progress, "change", ByName(t.family)))
      BY <2>2, <1>4
    <2>3. CASE call'.pc \in {"choose", "idle"} /\ UNCHANGED <<progress, saved, streak>>
      BY <2>3, <1>3
    <2> QED BY <2>1, <2>2, <2>3 DEF Begin, Idle

\* What is answered keeps what is known of the progress.
LEMMA AnsweredKeeps ==
    ASSUME IInv, Answered, call' \in Calls,
           call'.pc \in {"grant", "run"} => call'.task \in Tasks /\ Allowed(progress', call'.task)
    PROVE  /\ StreakKnown' /\ saved' \in Progress /\ progress' \in Progress
           /\ streak' \in 0..(MaxFailures + 1)
  <1>1. ASSUME NEW p \in Progress, Keep(p), p.once => ~p.blocked,
               streak' \in 0..(MaxFailures + 1), streak' <= p.failures,
               streak' >= MaxFailures => p.blocked
        PROVE  StreakKnown' /\ saved' \in Progress /\ progress' \in Progress
    <2>1. call'.pc \in {"grant", "run"} => LetThrough(p, call'.task, streak')
      BY <1>1, LimitsAreNatural DEF Keep, Allowed, LetThrough, Progress
    <2> QED BY <1>1, <2>1, KeepKeeps
  <1>2. CASE Keep(progress) /\ UNCHANGED streak
    BY <1>1, <1>2 DEF IInv, TypeOK, StreakKnown
  <1>3. ASSUME NEW choice \in Choices, NEW family \in Families \cup {None},
               Keep(Applied(progress, choice, family)),
               streak' = IF choice \in Lifts THEN 0 ELSE streak
        PROVE  /\ StreakKnown' /\ saved' \in Progress /\ progress' \in Progress
               /\ streak' \in 0..(MaxFailures + 1)
    <2> DEFINE p == Applied(progress, choice, family)
    <2>1. /\ p \in Progress /\ (p.once => ~p.blocked)
          /\ choice \in Lifts => p.failures = 0
          /\ choice \notin Lifts => p.failures = progress.failures /\ p.blocked
      BY AppliedFacts DEF IInv, TypeOK, StreakKnown
    <2> HIDE DEF p
    <2>2. streak' \in 0..(MaxFailures + 1) /\ streak' <= p.failures
          /\ (streak' >= MaxFailures => p.blocked)
      BY <1>3, <2>1, LimitsAreNatural DEF IInv, TypeOK, StreakKnown
    <2>3. Keep(p)
      BY <1>3 DEF p
    <2> QED BY <1>1, <2>1, <2>2, <2>3
  <1> QED BY <1>2, <1>3 DEF Answered, IInv, TypeOK

\* The question before a worker and the question after a stop.
LEMMA QuestionsKeep ==
    ASSUME IInv, Choose \/ Recover
    PROVE  IInv'
  <1>1. Answered /\ ~child.live /\ UNCHANGED <<attended, child, scratch, left>>
    BY DEF Choose, Recover, Unmoved, IInv, TypeOK
  <1>2. /\ call' \in Calls /\ call'.pc # "run"
        /\ call'.pc # "idle" => call'.task \in Tasks
        /\ call'.pc = "grant" => Allowed(progress', call'.task)
    <2>1. call \in Calls /\ call.task \in Tasks
      BY DEF Choose, Recover, IInv, TypeOK, CallKnown, Calls
    <2>2. CASE call' = Idle
      BY <2>2, IdleIsCall
    <2>3. CASE Allowed(progress', call.task) /\ call' = [call EXCEPT !.pc = "grant"]
      BY <2>1, <2>3 DEF Calls
    <2> QED BY <2>2, <2>3 DEF Choose, Recover
  <1>3. /\ StreakKnown' /\ saved' \in Progress /\ progress' \in Progress
        /\ streak' \in 0..(MaxFailures + 1)
    BY <1>1, <1>2, AnsweredKeeps
  <1> QED BY <1>1, <1>2, <1>3, CallSteps DEF IInv, TypeOK

\* A worker starts with a fresh clock.
LEMMA SpawnKeeps ==
    ASSUME IInv, NEW slice \in Slices, Spawn(slice)
    PROVE  IInv'
  <1>1. /\ call' = [call EXCEPT !.pc = "run"] /\ call.pc = "grant"
        /\ UNCHANGED <<attended, progress, saved, scratch, left, streak>>
    BY DEF Spawn, Unmoved
  <1>2. slice \in Nat /\ slice > 0
    BY TimesArePositive
  <1>3. child' \in Child /\ child'.live /\ ClockKnown' /\ KillKnown' /\ LongSlices'
    <2>1. child' = [live |-> TRUE, age |-> 0, quiet |-> 0, clock |-> "slice", due |-> slice,
                    slice |-> slice, extensions |-> 0, budget |-> 0, kill |-> 0,
                    aborted |-> FALSE, signal |-> FALSE]
      BY DEF Spawn, NoChild
    <2>2. child' \in Child
      BY <1>2, <2>1, TimesArePositive, LimitsAreNatural DEF Child
    <2> QED BY <1>2, <2>1, <2>2, TimesArePositive
             DEF ClockKnown, KillKnown, LongSlices, Latest, Most
  <1>4. StreakKnown'
    BY <1>1, ProgressStays DEF IInv, TypeOK, StreakKnown
  <1> QED BY <1>1, <1>3, <1>4 DEF IInv, TypeOK, CallKnown

\* A worker that does not start leaves the call to be judged, or to nobody.
LEMMA NoSpawnKeeps ==
    ASSUME IInv, NoSpawn
    PROVE  IInv'
  <1>1. /\ ~child.live
        /\ UNCHANGED <<attended, child, progress, saved, scratch, left, streak>>
    BY DEF NoSpawn, Unmoved, IInv, TypeOK
  <1>2. /\ call' \in Calls /\ call'.pc \in {"judge", "idle"}
        /\ call'.pc # "idle" => call'.task \in Tasks
    <2>1. call \in Calls /\ call.task \in Tasks
      BY DEF NoSpawn, IInv, TypeOK, CallKnown, Calls
    <2>2. CASE call' = Idle
      BY <2>2, IdleIsCall
    <2>3. CASE call' = [call EXCEPT !.pc = "judge", !.ok = FALSE]
      BY <2>1, <2>3 DEF Calls
    <2> QED BY <2>2, <2>3 DEF NoSpawn
  <1>3. StreakKnown'
    BY <1>1, <1>2, ProgressStays DEF IInv
  <1> QED BY <1>1, <1>2, <1>3, CallSteps DEF IInv, TypeOK

\* A verdict counts the failure and stops the stream when they are enough.
LEMMA JudgeKeeps ==
    ASSUME IInv, NEW late \in BOOLEAN, Judge(late)
    PROVE  IInv'
  <1> DEFINE t == call.task
             hashes == Accepted(t)
             p == IF scratch.unfit THEN Declined(progress, t, hashes)
                  ELSE Evaluated(progress, t, call.ok, hashes, late)
  <1>1. /\ t \in Tasks /\ hashes \in SUBSET Hashes /\ call.ok \in BOOLEAN
        /\ ~child.live /\ UNCHANGED <<attended, child, scratch, left>>
        /\ progress \in Progress
    BY AcceptedFacts DEF Judge, IInv, TypeOK, CallKnown, Unmoved
  <1>2. /\ call' \in Calls /\ call'.pc \in {"recover", "idle"}
        /\ call'.pc # "idle" => call'.task \in Tasks
    BY <1>1 DEF Judge, Idle, IInv, TypeOK, Calls
  <1>3. /\ p \in Progress /\ ~p.once
        /\ ~call.ok /\ ~scratch.unfit => p.failures = progress.failures + 1
        /\ ~call.ok /\ ~scratch.unfit /\ hashes = {} /\ p.failures >= MaxFailures => p.blocked
    BY <1>1, EvaluatedFacts, DeclinedFacts
  <1>4. /\ Keep(p)
        /\ streak' = IF call.ok \/ scratch.unfit \/ hashes # {} THEN 0
                     ELSE IF streak > MaxFailures THEN streak ELSE streak + 1
    BY DEF Judge
  <1> HIDE DEF p, hashes
  <1>5. /\ streak' \in 0..(MaxFailures + 1) /\ streak' <= p.failures
        /\ streak' >= MaxFailures => p.blocked
    BY <1>3, <1>4, LimitsAreNatural DEF IInv, TypeOK, StreakKnown, Progress
  <1>6. StreakKnown' /\ saved' \in Progress /\ progress' \in Progress
    BY <1>2, <1>3, <1>4, <1>5, KeepKeeps
  <1> QED BY <1>1, <1>2, <1>5, <1>6, CallSteps DEF IInv, TypeOK

\* An attempt that is not judged leaves everything as it was, but the call.
LEMMA UnjudgedKeeps ==
    ASSUME IInv, Unjudged
    PROVE  IInv'
  <1>1. /\ ~child.live /\ call' = Idle
        /\ UNCHANGED <<attended, child, progress, saved, scratch, left, streak>>
    BY DEF Unjudged, Unmoved, IInv, TypeOK
  <1>2. StreakKnown'
    BY <1>1, IdleIsCall, ProgressStays DEF IInv
  <1> QED BY <1>1, <1>2, IdleIsCall, CallSteps DEF IInv, TypeOK

\* A step of the worker or of its clock that the call does not see.
LEMMA ChildSteps ==
    ASSUME IInv, NEW c \in Child, c.live, child.live, ChildIs(c),
           ClockKnown', KillKnown', LongSlices'
    PROVE  IInv'
  <1>1. /\ child' = c
        /\ UNCHANGED <<attended, call, progress, saved, scratch, left, streak>>
    BY DEF ChildIs, Unmoved
  <1>2. StreakKnown'
    BY <1>1, ProgressStays DEF IInv, StreakKnown
  <1> QED BY <1>1, <1>2 DEF IInv, TypeOK, CallKnown

\* The numbers of a child and of its clock.
LEMMA ChildNumbers ==
    ASSUME NEW c \in Child
    PROVE  /\ c.age \in Nat /\ c.due \in Nat /\ c.kill \in Nat /\ c.budget \in Nat
           /\ c.slice \in Nat /\ c.quiet \in Nat /\ c.extensions \in Nat
  <1>1. /\ c.age \in Nat /\ c.due \in Nat /\ c.kill \in Nat /\ c.budget \in 0..Cap
        /\ c.slice \in Slices \cup {0} /\ c.quiet \in 0..(Silence + Wait + 1)
        /\ c.extensions \in 0..MaxExtensions
    BY DEF Child
  <1>2. \A n \in Slices \cup {0} : n \in Nat
    BY TimesArePositive
  <1>3. c.slice \in Nat
    BY <1>1, <1>2
  <1> QED BY <1>1, <1>3

\* A worker that is being killed.
LEMMA KilledFacts ==
    ASSUME NEW c \in Child, c.live
    PROVE  /\ Killed(c) \in Child /\ Killed(c).live
           /\ Ended(c) \in Child /\ Ended(c).live
           /\ [Killed(c) EXCEPT !.signal = TRUE] \in Child
           /\ [Killed(c) EXCEPT !.signal = TRUE].live
  <1> DEFINE k == c.age + Grace
  <1>1. k \in Nat
    BY TimesArePositive DEF Child
  <1>2. Killed(c) = [c EXCEPT !.aborted = TRUE, !.kill = k]
    BY DEF Killed
  <1> HIDE DEF k
  <1>3. Killed(c) \in Child /\ Killed(c).live
    BY <1>1, <1>2 DEF Child
  <1>4. Ended(c) \in Child /\ Ended(c).live
    <2>1. 0 \in 0..Cap
      BY TimesArePositive
    <2> HIDE DEF Killed
    <2> QED BY <1>3, <2>1 DEF Ended, Child
  <1>5. /\ [Killed(c) EXCEPT !.signal = TRUE] \in Child
        /\ [Killed(c) EXCEPT !.signal = TRUE].live
    BY <1>3 DEF Child
  <1> QED BY <1>3, <1>4, <1>5

\* What a deadline that passed, and an operator's no, do to the worker.
LEMMA EndedKeeps ==
    ASSUME IInv, child.live, child.clock # "off", ChildIs(Ended(child))
    PROVE  IInv'
  <1>1. Ended(child) \in Child /\ Ended(child).live
    BY KilledFacts DEF IInv, TypeOK
  <1>2. child' = Ended(child)
    BY DEF ChildIs
  <1>3. ClockKnown' /\ KillKnown' /\ LongSlices'
    BY <1>2, TimesArePositive
       DEF Ended, Killed, Child, IInv, TypeOK, ClockKnown, KillKnown, LongSlices, Latest, Most
  <1> QED BY <1>1, <1>3, ChildSteps

\* An extension leaves a deadline before the cap and one question.
LEMMA ExtendedKeeps ==
    ASSUME IInv, NEW c \in Child, c.live, child.live, child.clock # "off", ChildIs(Extended(c)),
           c.extensions < MaxExtensions, c.budget > 0, c.slice \in Slices, c.slice < Cap,
           c.age + c.budget <= Cap + Wait, c.kill <= Cap + Wait + Grace,
           c.kill > 0 => c.age <= c.kill
    PROVE  IInv'
  <1>1. Extended(c) \in Child /\ Extended(c).live
    <2> DEFINE d == c.age + Least(c.slice, Most(1, c.budget))
               e == c.extensions + 1
    <2>1. d \in Nat /\ e \in 0..MaxExtensions /\ 0 \in 0..Cap
      <3>1. c.slice \in Nat /\ c.budget \in Nat /\ c.age \in Nat
        <4>1. c.budget \in 0..Cap /\ c.age \in Nat
          BY DEF Child
        <4>2. \A n \in Slices : n \in Nat
          BY TimesArePositive
        <4>3. c.slice \in Nat
          BY <4>2
        <4>4. c.budget \in Nat
          BY <4>1
        <4> QED BY <4>1, <4>3, <4>4
      <3>2. c.extensions \in 0..MaxExtensions /\ MaxExtensions \in Nat /\ Cap \in Nat
        BY TimesArePositive, LimitsAreNatural DEF Child
      <3> QED BY <3>1, <3>2 DEF Least, Most
    <2>2. Extended(c) = [c EXCEPT !.extensions = e, !.clock = "slice", !.budget = 0, !.due = d]
      BY DEF Extended, Child
    <2> HIDE DEF d, e
    <2> QED BY <2>1, <2>2 DEF Child
  <1>2. child' = Extended(c)
    BY DEF ChildIs
  <1>3. ClockKnown' /\ KillKnown' /\ LongSlices'
    BY <1>2, TimesArePositive, LimitsAreNatural
       DEF Extended, Least, Most, Child, ClockKnown, KillKnown, LongSlices, Latest
  <1> QED BY <1>1, <1>3, ChildSteps

\* The slice ends: the worker is killed, extended, or a question is asked.
LEMMA SliceEndsKeeps ==
    ASSUME IInv, SliceEnds
    PROVE  IInv'
  <1> DEFINE b == Cap - child.age
             asked == [child EXCEPT !.budget = b]
             due == child.age + Wait
             question == [child EXCEPT !.budget = b, !.clock = "ask", !.due = due]
  <1>1. /\ child.live /\ child.clock = "slice" /\ child.age >= child.due
        /\ child \in Child /\ attended \in BOOLEAN
        /\ child.slice \in Slices /\ child.age <= child.due /\ child.due <= Latest
        /\ child.kill <= Latest + Grace /\ (child.kill > 0 => child.age <= child.kill)
        /\ child.extensions = 0 => child.due = child.slice
        /\ LongSlices
    BY DEF SliceEnds, IInv, TypeOK, ClockKnown, KillKnown
  <1>5. CanAsk => child.slice < Cap /\ child.due <= Cap + Wait
                  /\ child.kill <= Cap + Wait + Grace
    <2>1. /\ child.age \in Nat /\ child.due \in Nat /\ child.kill \in Nat
          /\ child.slice \in Nat /\ child.extensions \in Nat
      BY <1>1, ChildNumbers
    <2>2. ASSUME CanAsk PROVE child.slice < Cap
      <3>1. child.extensions = 0 => child.slice < Cap
        BY <1>1, <2>1, <2>2, TimesArePositive DEF CanAsk
      <3> QED BY <1>1, <2>1, <3>1, TimesArePositive DEF LongSlices
    <2> QED BY <1>1, <2>1, <2>2, TimesArePositive DEF Latest, Most
  <1>2. CASE ~CanAsk
    BY <1>1, <1>2, EndedKeeps DEF SliceEnds
  <1>3. CASE CanAsk /\ CanConfirm
    <2>1. child' = question /\ ChildIs(question)
      BY <1>3, <1>1 DEF SliceEnds, ChildIs, Child
    <2>2. /\ b \in 1..Cap /\ due \in Nat /\ child.extensions < MaxExtensions
          /\ child.quiet <= Silence /\ attended
      BY <1>1, <1>3, TimesArePositive, LimitsAreNatural DEF CanAsk, Alive, CanConfirm, Child
    <2>3. question \in Child /\ question.live
      <3> HIDE DEF b, due
      <3>1. b \in 0..Cap
        BY <2>2, TimesArePositive
      <3> QED BY <1>1, <2>2, <3>1 DEF Child
    <2>4. attended' = attended
      BY <2>1 DEF ChildIs, Unmoved
    <2>5. ClockKnown' /\ KillKnown' /\ LongSlices'
      BY <1>1, <1>3, <1>5, <2>1, <2>2, <2>4, TimesArePositive
         DEF Child, ClockKnown, KillKnown, LongSlices, Latest, Most
    <2> QED BY <1>1, <2>1, <2>3, <2>5, ChildSteps
  <1>4. CASE CanAsk /\ ~CanConfirm
    <2>1. ChildIs(Extended(asked))
      BY <1>4, <1>1 DEF SliceEnds
    <2>2. b \in 1..Cap /\ child.extensions < MaxExtensions
      BY <1>1, <1>4, TimesArePositive, LimitsAreNatural DEF CanAsk, Child
    <2>3. asked \in Child /\ asked.live
      BY <1>1, <2>2 DEF Child
    <2>4. /\ asked.extensions < MaxExtensions /\ asked.budget > 0 /\ asked.slice \in Slices
          /\ asked.age + asked.budget <= Cap + Wait /\ asked.kill <= Cap + Wait + Grace
          /\ asked.slice < Cap
          /\ asked.kill > 0 => asked.age <= asked.kill
      BY <1>1, <1>4, <1>5, <2>2, TimesArePositive DEF Child
    <2> HIDE DEF asked
    <2> QED BY <1>1, <2>1, <2>3, <2>4, ExtendedKeeps
  <1> QED BY <1>2, <1>3, <1>4

\* The operator answers the question, or nobody does.
LEMMA ConfirmKeeps ==
    ASSUME IInv, NEW yes \in BOOLEAN, Confirm(yes)
    PROVE  IInv'
  <1>1. child.live /\ child.clock = "ask" /\ child \in Child
    BY DEF Confirm, IInv, TypeOK
  <1>2. CASE ~yes
    BY <1>1, <1>2, EndedKeeps DEF Confirm
  <1>3. CASE yes
    <2>1. ChildIs(Extended(child))
      BY <1>3 DEF Confirm
    <2>2. /\ child.extensions < MaxExtensions /\ child.budget > 0 /\ child.slice \in Slices
          /\ child.age + child.budget <= Cap + Wait /\ child.kill <= Cap + Wait + Grace
          /\ child.slice < Cap
          /\ child.kill > 0 => child.age <= child.kill
      <3>1. /\ child.age \in Nat /\ child.due \in Nat /\ child.kill \in Nat
            /\ child.slice \in Nat /\ child.budget \in Nat
        BY <1>1, ChildNumbers
      <3>2. ClockKnown /\ KillKnown
        BY DEF IInv
      <3>3. child.slice < Cap
        BY <1>1, <3>2 DEF ClockKnown
      <3>4. Latest = Cap + Wait
        BY <3>1, <3>3, TimesArePositive DEF Latest, Most
      <3> QED BY <1>1, <3>1, <3>2, <3>3, <3>4, TimesArePositive DEF ClockKnown, KillKnown
    <2> QED BY <1>1, <2>1, <2>2, ExtendedKeeps
  <1> QED BY <1>2, <1>3

\* An abort counts the grace anew.
LEMMA AbortKeeps ==
    ASSUME IInv, Abort
    PROVE  IInv'
  <1> DEFINE c == [Killed(child) EXCEPT !.signal = TRUE]
  <1>1. child.live /\ ~child.signal /\ child \in Child /\ ChildIs(c)
    BY DEF Abort, IInv, TypeOK
  <1>2. c \in Child /\ c.live
    BY <1>1, KilledFacts
  <1>3. child' = c /\ attended' = attended
    BY <1>1 DEF ChildIs, Unmoved
  <1>4. ClockKnown' /\ KillKnown' /\ LongSlices'
    <2>1. /\ child.age \in Nat /\ child.due \in Nat /\ child.kill \in Nat
          /\ child.slice \in Nat /\ Latest \in Nat
      BY <1>1, ChildNumbers, TimesArePositive DEF Latest, Most
    <2>2. child' = [child EXCEPT !.aborted = TRUE, !.kill = child.age + Grace, !.signal = TRUE]
      BY <1>1, <1>3 DEF Killed, Child
    <2>3. Latest' = Latest
      BY <1>1, <2>2 DEF Latest, Child
    <2>4. ClockKnown'
      <3>1. /\ child'.age = child.age /\ child'.due = child.due /\ child'.clock = child.clock
            /\ child'.kill = child.age + Grace /\ child'.slice = child.slice
            /\ child'.budget = child.budget /\ child'.extensions = child.extensions
            /\ child'.quiet = child.quiet
        BY <1>1, <2>2 DEF Child
      <3>2. ClockKnown
        BY DEF IInv
      <3> QED BY <1>1, <1>3, <2>1, <2>3, <3>1, <3>2, TimesArePositive DEF ClockKnown
    <2>5. KillKnown'
      BY <1>1, <2>1, <2>2, <2>3, TimesArePositive DEF Child, IInv, ClockKnown, KillKnown
    <2> QED BY <1>1, <2>2, <2>4, <2>5 DEF Child, IInv, LongSlices
  <1> HIDE DEF c
  <1> QED BY <1>1, <1>2, <1>4, ChildSteps

\* The worker says something, or time passes.
LEMMA TimeKeeps ==
    ASSUME IInv, Speaks \/ Tick
    PROVE  IInv'
  <1>1. child.live /\ child \in Child
    BY DEF Speaks, Tick, IInv, TypeOK
  <1>2. CASE Speaks
    <2> DEFINE c == [child EXCEPT !.quiet = 0]
    <2>1. c \in Child /\ c.live
      BY <1>1, TimesArePositive DEF Child
    <2>2. ChildIs(c) /\ child' = c /\ attended' = attended
      BY <1>2 DEF Speaks, ChildIs, Unmoved
    <2>3. ClockKnown' /\ KillKnown' /\ LongSlices'
      BY <1>1, <2>2, TimesArePositive
         DEF Child, IInv, ClockKnown, KillKnown, LongSlices, Latest, Most
    <2> HIDE DEF c
    <2> QED BY <1>1, <2>1, <2>2, <2>3, ChildSteps
  <1>3. CASE Tick
    <2> DEFINE a == child.age + 1
               qt == Least(child.quiet + 1, Silence + Wait + 1)
               c == [child EXCEPT !.age = a, !.quiet = qt]
    <2>1. a \in Nat /\ qt \in 0..(Silence + Wait + 1) /\ qt <= child.quiet + 1
      BY <1>1, TimesArePositive DEF Least, Child
    <2>2. ChildIs(c) /\ child' = c /\ attended' = attended
      BY <1>1, <1>3 DEF Tick, ChildIs, Unmoved, Child
    <2> HIDE DEF qt
    <2>3. c \in Child /\ c.live
      BY <1>1, <2>1 DEF Child
    <2>6. child.slice \in Nat /\ Latest \in Nat /\ Latest' = Latest
      BY <1>1, <2>2, ChildNumbers, TimesArePositive DEF Latest, Most, Child
    <2>4. /\ child.clock # "off" => child.age < child.due
          /\ child.kill > 0 => child.age < child.kill
      BY <1>1, <1>3 DEF Tick, SliceDue, KillDue, Child
    <2>5. ClockKnown' /\ KillKnown' /\ LongSlices'
      BY <1>1, <2>1, <2>2, <2>4, TimesArePositive
         DEF Child, IInv, ClockKnown, KillKnown, LongSlices, Latest, Most
    <2> HIDE DEF c
    <2> QED BY <1>1, <2>2, <2>3, <2>5, ChildSteps
  <1> QED BY <1>2, <1>3

\* The worker's process is closed, and its attempt judged next.
LEMMA ExitKeeps ==
    ASSUME IInv, Exit
    PROVE  IInv'
  <1>1. /\ call' \in Calls /\ call'.pc = "judge" /\ call'.task \in Tasks
        /\ child' = NoChild
        /\ UNCHANGED <<attended, progress, saved, scratch, left, streak>>
    BY DEF Exit, Unmoved, IInv, TypeOK, CallKnown, Calls, Child
  <1>2. StreakKnown'
    BY <1>1, ProgressStays DEF IInv
  <1>3. ~child'.live
    BY <1>1 DEF NoChild
  <1> QED BY <1>1, <1>2, <1>3, NoClock, NoChildIsChild DEF IInv, TypeOK, Calls, CallKnown

\* What a worker writes is no part of what the call or the clock know.
LEMMA ScratchKeeps ==
    ASSUME IInv, Admit \/ \E f \in Files : Write(f)
    PROVE  IInv'
  <1>1. UNCHANGED <<attended, call, child, progress, saved, left, streak>>
    BY DEF Admit, Write
  <1>2. scratch' \in [file : [Files -> 0..MaxWrites], unfit : BOOLEAN]
    <2>1. CASE Admit
      BY <2>1 DEF Admit, IInv, TypeOK
    <2>2. ASSUME NEW f \in Files, Write(f)
          PROVE  scratch' \in [file : [Files -> 0..MaxWrites], unfit : BOOLEAN]
      <3>1. scratch.file[f] + 1 \in 0..MaxWrites
        BY <2>2, LimitsAreNatural DEF Write, IInv, TypeOK
      <3>2. [scratch.file EXCEPT ![f] = @ + 1] \in [Files -> 0..MaxWrites]
        BY <3>1 DEF IInv, TypeOK
      <3>3. scratch' = [scratch EXCEPT !.file = [scratch.file EXCEPT ![f] = @ + 1]]
        BY <2>2 DEF Write, IInv, TypeOK
      <3> QED BY <3>2, <3>3 DEF IInv, TypeOK
    <2> QED BY <2>1, <2>2
  <1> QED BY <1>1, <1>2
       DEF IInv, TypeOK, CallKnown, ClockKnown, KillKnown, LongSlices, Latest, StreakKnown, LetThrough

\* The parent comes back with what it had saved, which is all it knew.
LEMMA RestartKeeps ==
    ASSUME IInv, Restart
    PROVE  IInv'
  <1>1. progress' = progress /\ UNCHANGED <<saved, scratch, streak>>
    BY DEF Restart, IInv, StreakKnown
  <1>2. /\ call' = Idle /\ child' = NoChild /\ attended' \in BOOLEAN
        /\ left' \in [calls : 0..MaxCalls, restarts : 0..MaxRestarts]
    BY LimitsAreNatural DEF Restart, IInv, TypeOK
  <1>3. StreakKnown'
    BY <1>1, <1>2 DEF IInv, StreakKnown, Idle
  <1> QED BY <1>1, <1>2, <1>3, NoClock, NoChildIsChild
       DEF IInv, TypeOK, CallKnown, Idle, NoChild

----------------------------------------------------------------------------
(* The theorems.                                                           *)

\* The invariant holds of every reachable state.
THEOREM Invariance == Spec => []IInv
  <1>1. Init => IInv
    <2> SUFFICES ASSUME Init PROVE IInv
      OBVIOUS
    <2>1. TypeOK
      <3>1. scratch \in [file : [Files -> 0..MaxWrites], unfit : BOOLEAN]
        BY LimitsAreNatural DEF Init
      <3>2. call = Idle /\ call.pc = "idle" /\ ~child.live
        BY DEF Init, Idle, NoChild
      <3> QED BY <3>1, <3>2, EmptyIsProgress, NoChildIsChild, LimitsAreNatural
           DEF Init, TypeOK, Idle
    <2> QED BY <2>1, LimitsAreNatural
         DEF Init, IInv, Idle, NoChild, EmptyProgress, CallKnown, ClockKnown, KillKnown,
             LongSlices, StreakKnown
  <1>2. IInv /\ [Next]_vars => IInv'
    <2> SUFFICES ASSUME IInv, [Next]_vars PROVE IInv'
      OBVIOUS
    <2>1. CASE UNCHANGED vars
      BY <2>1 DEF vars, IInv, TypeOK, CallKnown, ClockKnown, KillKnown, LongSlices, Latest,
                  StreakKnown, LetThrough
    <2>2. CASE \E t \in Tasks : Begin(t)
      BY <2>2, BeginKeeps
    <2>3. CASE Granted
      BY <2>3, SpawnKeeps DEF Granted
    <2>4. CASE NoSpawn
      BY <2>4, NoSpawnKeeps
    <2>5. CASE Judged
      BY <2>5, JudgeKeeps DEF Judged
    <2>6. CASE Choose \/ Recover
      BY <2>6, QuestionsKeep
    <2>7. CASE SliceEnds
      BY <2>7, SliceEndsKeeps
    <2>8. CASE ConfirmLapses
      BY <2>8, EndedKeeps DEF ConfirmLapses
    <2>9. CASE Speaks \/ Tick
      BY <2>9, TimeKeeps
    <2>10. CASE Exit
      BY <2>10, ExitKeeps
    <2>11. CASE Abort
      BY <2>11, AbortKeeps
    <2>12. CASE \E yes \in BOOLEAN : Confirm(yes)
      BY <2>12, ConfirmKeeps
    <2>13. CASE Admit \/ \E f \in Files : Write(f)
      BY <2>13, ScratchKeeps
    <2>14. CASE Restart
      BY <2>14, RestartKeeps
    <2>15. CASE Unjudged
      BY <2>15, UnjudgedKeeps
    <2> QED
      BY <2>1, <2>2, <2>3, <2>4, <2>5, <2>6, <2>7, <2>8, <2>9, <2>10, <2>11, <2>12, <2>13,
         <2>14, <2>15 DEF Next, Clock
  <1> QED BY <1>1, <1>2, PTL DEF Spec

\* Every variable has its type, and a child lives exactly while a call runs
\* it: the process, the clock and the call are never out of step.
THEOREM TypeCorrect == Spec => []TypeOK
  <1>1. IInv => TypeOK
    BY DEF IInv
  <1> QED BY <1>1, Invariance, PTL

\* A worker is over two graces after the cap and a question, or after its first
\* slice where that is longer; such a slice is not extended (runWorker).
THEOREM WorkersAreBounded == Spec => []RunIsBounded
  <1>1. IInv => RunIsBounded
    <2> SUFFICES ASSUME IInv PROVE RunIsBounded
      OBVIOUS
    <2>0. /\ child.age \in Nat /\ child.due \in Nat /\ child.kill \in Nat
          /\ child.slice \in Nat /\ Latest \in Nat
      BY ChildNumbers, TimesArePositive DEF IInv, TypeOK, Latest, Most
    <2> USE DEF RunIsBounded, IInv, LongSlices
    <2>1. CASE child.live /\ child.clock # "off"
      BY <2>0, <2>1, TimesArePositive DEF ClockKnown, KillKnown, Latest
    <2>2. CASE child.live /\ child.clock = "off"
      BY <2>0, <2>2, TimesArePositive DEF KillKnown, Latest
    <2>3. CASE ~child.live
      BY <2>0, <2>3, TimesArePositive DEF CallKnown, NoChild, Latest
    <2> QED BY <2>1, <2>2, <2>3
  <1> QED BY <1>1, Invariance, PTL

\* No worker is started, or runs, after as many failures without a checkpoint
\* as stop them, except of the family that is asked for (progress.ts).
THEOREM FailuresStopWorkers == Spec => []FailuresStop
  <1>1. IInv => FailuresStop
    BY DEF IInv, StreakKnown, LetThrough, FailuresStop
  <1> QED BY <1>1, Invariance, PTL

\* Only a child that spoke lately is extended (childIsAlive, confirmExtend).
THEOREM ExtendedAfterSpeaking == Spec => ExtendedSpoke
  <1> DEFINE Spoke == child'.extensions > child.extensions =>
                          child.quiet <= Silence + (IF attended THEN Wait ELSE 0)
  <1>1. ASSUME IInv, Next PROVE Spoke
    <2>0. child \in Child /\ attended \in BOOLEAN
      BY <1>1 DEF IInv, TypeOK
    <2>1. CASE SliceEnds
      <3>1. CASE CanAsk
        BY <2>0, <2>1, <3>1, TimesArePositive DEF CanAsk, Alive, Child
      <3>2. CASE ~CanAsk
        BY <2>0, <2>1, <3>2, LimitsAreNatural DEF SliceEnds, ChildIs, Ended, Killed, Child
      <3> QED BY <3>1, <3>2
    <2>2. CASE \E yes \in BOOLEAN : Confirm(yes)
      BY <1>1, <2>0, <2>2, TimesArePositive DEF Confirm, IInv, ClockKnown, Child
    <2>3. CASE UNCHANGED child
      BY <2>0, <2>3, LimitsAreNatural DEF Child
    <2>4. CASE ConfirmLapses
      BY <2>0, <2>4, LimitsAreNatural DEF ConfirmLapses, ChildIs, Ended, Killed, Child
    <2>5. CASE Abort
      BY <2>0, <2>5, LimitsAreNatural DEF Abort, ChildIs, Killed, Child
    <2>6. CASE Speaks \/ Tick
      <3>1. child'.extensions = child.extensions
        BY <2>0, <2>6 DEF Speaks, Tick, ChildIs, Child
      <3> QED BY <2>0, <3>1, LimitsAreNatural DEF Child
    <2>7. CASE child'.extensions = 0
      BY <2>0, <2>7, LimitsAreNatural DEF Child
    <2>8. CASE Granted \/ Exit \/ Restart
      <3>1. child'.extensions = 0
        <4>1. CASE Exit \/ Restart
          <5>1. child' = NoChild
            BY <4>1 DEF Exit, Restart
          <5> QED BY <5>1 DEF NoChild
        <4>2. ASSUME NEW slice \in Slices, Spawn(slice)
              PROVE  child'.extensions = 0
          BY <4>2 DEF Spawn, NoChild
        <4> QED BY <2>8, <4>1, <4>2 DEF Granted
      <3> QED BY <2>7, <3>1
    <2>9. CASE \/ \E t \in Tasks : Begin(t)
               \/ NoSpawn \/ Judged \/ Unjudged \/ Choose \/ Recover \/ Admit
               \/ \E f \in Files : Write(f)
      BY <2>3, <2>9 DEF Begin, NoSpawn, Judged, Judge, Unjudged, Choose, Recover, Admit, Write
    <2> QED BY <1>1, <2>1, <2>2, <2>4, <2>5, <2>6, <2>8, <2>9 DEF Next, Clock
  <1>2. IInv /\ [Next]_vars => [Spoke]_vars
    BY <1>1
  <1> QED BY <1>2, Invariance, PTL DEF Spec, ExtendedSpoke

====
