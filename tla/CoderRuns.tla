---- MODULE CoderRuns ----
(***************************************************************************)
(* The subagent tool (host/pi-subagent): the parent model asks for a       *)
(* worker, a gate that remembers how earlier workers did lets it through,  *)
(* asks the operator or refuses (progress.ts, bind.ts), and a child        *)
(* process runs in slices that an operator, or nobody, extends (spawn.ts). *)
(*                                                                         *)
(* Pi runs the tool's calls one after the other, so there is one call.     *)
(* Time passes in units while a child runs; the program's timers are       *)
(* prompt, the child's and the operator's steps take any time.  A task is  *)
(* what fingerprintTask makes of its text; a scratch file is its version,  *)
(* which is what the hash of name, size and time tells apart.  Files that  *)
(* count are not removed.  Text, models, usage, the live view and the copy *)
(* of the revisions in plan.json, which nothing here reads, are left out,  *)
(* and so are calls refused for their arguments, which change nothing.     *)
(***************************************************************************)
EXTENDS Integers

CONSTANTS
    Families,       \* families of strategies: harvest, extract, compose, verify, other
    Tasks,          \* records: family, deliverable, step (0: none), blockers, counts
    Slices,         \* the grants a call may get: those asked for, at most Cap, and
                    \* the default, which BSA_SUBAGENT_TIMEOUT_MS makes of any length
    Cap,            \* MAX_TOTAL_TIMEOUT_MS
    Wait,           \* CONFIRM_WAIT_MS
    Silence,        \* ALIVE_WITHIN_MS
    Grace,          \* from SIGTERM to SIGKILL
    MaxExtensions,  \* MAX_EXTENSIONS
    MaxFailures,    \* MAX_CONSECUTIVE_FAILURES
    MaxStagnant,    \* MAX_STAGNANT_ATTEMPTS
    MaxCalls,       \* bounds the calls
    MaxWrites,      \* bounds the versions of a file
    MaxRestarts,    \* bounds the restarts of the parent
    None

Files == UNION {t.counts : t \in Tasks}

ASSUME AnyTextHasAFamily == "other" \in Families
ASSUME TasksAreTasks == \A t \in Tasks : t.family \in Families /\ {t.step, t.blockers} \subseteq Nat
ASSUME TimesArePositive ==
    /\ {Cap, Wait, Silence, Grace} \subseteq Nat \ {0}
    /\ Slices \subseteq Nat \ {0}
ASSUME LimitsAreNatural ==
    /\ {MaxExtensions, MaxFailures, MaxStagnant, MaxCalls, MaxWrites, MaxRestarts} \subseteq Nat
    /\ MaxFailures > 0
ASSUME NoneIsNothing == None \notin Tasks /\ None \notin Families

VARIABLES
    attended,  \* somebody answers the questions of this process
    call,      \* the call of the tool, and how its worker did
    child,     \* the worker's process and the clock that watches it
    progress,  \* SubagentProgressState
    saved,     \* the last progress entry of the session's file
    scratch,   \* the versions of the files that may count; admission.json says unfit
    left,      \* what is left of the calls and restarts
    streak     \* history: failures without a checkpoint since a stop was lifted

vars == <<attended, call, child, progress, saved, scratch, left, streak>>

\* What the steps of the call and of the clock leave alone.
Unmoved == <<attended, scratch, left>>

----------------------------------------------------------------------------
(* The state.                                                              *)

Hashes == Files \X (1..MaxWrites)

Progress ==
    [failures : Nat, stagnant : Nat, fp : Tasks \cup {None}, hashes : SUBSET Hashes,
     blocked : BOOLEAN, once : BOOLEAN, required : Families \cup {None}, tried : SUBSET Families]

ASSUME NoneIsNoProgress == None \notin Progress

\* `fp` is the last fingerprint; its accepted hashes are `hashes`.  Of the
\* revisions only the families they turned to are read.  stagnantStartedAt is
\* there exactly when `stagnant` is not 0.
EmptyProgress ==
    [failures |-> 0, stagnant |-> 0, fp |-> None, hashes |-> {},
     blocked |-> FALSE, once |-> FALSE, required |-> None, tried |-> {}]

NoChild == [live |-> FALSE, age |-> 0, quiet |-> 0, clock |-> "off", due |-> 0, slice |-> 0,
            extensions |-> 0, budget |-> 0, kill |-> 0, aborted |-> FALSE, signal |-> FALSE]

Child ==
    [live : BOOLEAN, age : Nat, quiet : 0..(Silence + Wait + 1), clock : {"off", "slice", "ask"},
     due : Nat, slice : Slices \cup {0}, extensions : 0..MaxExtensions, budget : 0..Cap,
     kill : Nat, aborted : BOOLEAN, signal : BOOLEAN]

Idle == [pc |-> "idle", task |-> None, ok |-> FALSE]

TypeOK ==
    /\ attended \in BOOLEAN
    /\ call \in [pc : {"idle", "choose", "grant", "run", "judge", "recover"},
                 task : Tasks \cup {None}, ok : BOOLEAN]
    /\ child \in Child
    /\ progress \in Progress
    /\ saved \in Progress \cup {None}
    /\ scratch \in [file : [Files -> 0..MaxWrites], unfit : BOOLEAN]
    /\ left \in [calls : 0..MaxCalls, restarts : 0..MaxRestarts]
    /\ streak \in 0..(MaxFailures + 1)
    /\ child.live <=> call.pc = "run"

Init ==
    /\ attended \in BOOLEAN
    /\ call = Idle
    /\ child = NoChild
    /\ progress = EmptyProgress
    /\ saved = None
    /\ scratch = [file |-> [f \in Files |-> 0], unfit |-> FALSE]
    /\ left = [calls |-> MaxCalls, restarts |-> MaxRestarts]
    /\ streak = 0

----------------------------------------------------------------------------
(* progress.ts: the gate, the operator's choices and the verdict.          *)

Stream(t) == <<t.family, t.deliverable, t.step>>

Accepted(t) == {<<f, scratch.file[f]>> : f \in {g \in t.counts : scratch.file[g] > 0}}

\* Variant: to have dialogs is taken for somebody who answers them.
DialogsExist == TRUE

\* operatorCanConfirm
CanConfirm == attended

\* dispatchAllowed, without the change of strategy of an unattended session.
\* A family asked for lets its tasks through although the stream is blocked.
Allowed(p, t) ==
    IF p.required # None THEN t.family = p.required ELSE p.once \/ ~p.blocked

\* autoStrategyChange
Turns(p, t) ==
    /\ ~CanConfirm /\ ~Allowed(p, t)
    /\ p.required = None /\ p.fp # None /\ t.family # p.fp.family

\* classifyStrategy on a family's own name: "compose" needs a file's name too.
ByName(family) == IF family = "compose" THEN "other" ELSE family

\* Choices: the six of STAGNATION_CHOICES.  The family is the one the
\* operator's note is classified as, None for no note.
Choices == {"narrow", "change", "accept", "ask", "abandon", "once"}
Lifts == {"narrow", "change", "once"}

\* applyOperatorChoice
Applied(p, choice, family) ==
    LET q == [p EXCEPT !.once = choice = "once",
                       !.blocked = IF choice = "change" THEN family = None ELSE choice \notin Lifts,
                       !.failures = IF choice \in Lifts THEN 0 ELSE @,
                       !.stagnant = IF choice \in {"change", "narrow"} THEN 0 ELSE @]
        to == IF choice = "change" THEN family
              ELSE IF p.fp # None /\ choice \in {"narrow", "once"} THEN p.fp.family ELSE None
    IN  [q EXCEPT !.required = CASE choice = "change" -> family
                                 [] choice = "once" -> None
                                 [] OTHER -> @,
                  !.tried = IF to = None THEN @ ELSE @ \cup {to}]

\* hasSemanticProgress
Advances(p, t, hashes) ==
    IF p.fp = None THEN hashes # {}
    ELSE \/ t.step > p.fp.step /\ p.fp.step > 0
         \/ t.blockers < p.fp.blockers
         \/ ~(hashes \subseteq p.hashes)
         \/ t.family # p.fp.family /\ t.family \in p.tried

SameStream(p, t) == p.fp = None \/ Stream(p.fp) = Stream(t)

\* What every attempt leaves, before its verdict.
Noted(p, t, hashes) == [p EXCEPT !.fp = t, !.hashes = hashes, !.once = FALSE]

\* A child that declined, by admission.json, starts the counts anew.
Declined(p, t, hashes) ==
    [Noted(p, t, hashes) EXCEPT !.failures = 0, !.stagnant = 0, !.blocked = FALSE]

Counted(p, t, ok, hashes) ==
    [Noted(p, t, hashes) EXCEPT
        !.failures = IF ok THEN 0 ELSE @ + 1,
        !.stagnant = IF SameStream(p, t) /\ ~Advances(p, t, hashes) THEN @ + 1 ELSE 0]

\* The attempts or, with `late`, the ten minutes without progress are used up.
Stagnates(p, q, late) == q.stagnant > 0 /\ (q.stagnant >= MaxStagnant \/ (late /\ p.stagnant > 0))

Halts(p, t, ok, hashes, late) ==
    LET q == Counted(p, t, ok, hashes) IN
    /\ ~(Advances(p, t, hashes) /\ hashes # {})
    /\ \/ ~ok /\ q.failures >= MaxFailures /\ hashes = {}
       \/ Stagnates(p, q, late)

\* evaluateAttempt
Evaluated(p, t, ok, hashes, late) ==
    LET q == Counted(p, t, ok, hashes) IN
    IF Advances(p, t, hashes) /\ hashes # {}
    THEN [q EXCEPT !.blocked = FALSE, !.required = None]
    ELSE [q EXCEPT !.blocked = Halts(p, t, ok, hashes, late)]

----------------------------------------------------------------------------
(* The call: bind.ts execute.                                              *)

\* Variant: progress stays in memory.
KeepUnsaved(p) == progress' = p /\ UNCHANGED saved

\* Object.assign(progress, ...) and persistProgress, with nothing between.
Keep(p) == progress' = p /\ saved' = p

\* A call begins: it is let through, turns the strategy by itself, asks the
\* operator, or is refused and changes nothing.
Begin(t) ==
    LET to(pc) == call' = [Idle EXCEPT !.pc = pc, !.task = t] IN
    /\ call.pc = "idle" /\ left.calls > 0
    /\ left' = [left EXCEPT !.calls = @ - 1]
    /\ \/ /\ Allowed(progress, t) /\ to("grant")
          /\ UNCHANGED <<progress, saved, streak>>
       \/ /\ Turns(progress, t) /\ to("grant")
          /\ Keep(Applied(progress, "change", ByName(t.family)))
          /\ streak' = 0
       \/ /\ ~Allowed(progress, t) /\ CanConfirm /\ to("choose")
          /\ UNCHANGED <<progress, saved, streak>>
       \/ /\ ~Allowed(progress, t) /\ ~CanConfirm /\ ~Turns(progress, t)
          /\ UNCHANGED <<call, progress, saved, streak>>
    /\ UNCHANGED <<attended, child, scratch>>

\* The operator answers or closes the question.  askRecovery
Answered ==
    \/ Keep(progress) /\ UNCHANGED streak
    \/ \E choice \in Choices, family \in Families \cup {None} :
          /\ choice = "change" \/ family = None
          /\ Keep(Applied(progress, choice, family))
          /\ streak' = IF choice \in Lifts THEN 0 ELSE streak

\* The question before a worker: the gate is asked again.
Choose ==
    /\ attended /\ call.pc = "choose"
    /\ Answered
    /\ call' = IF Allowed(progress', call.task) THEN [call EXCEPT !.pc = "grant"] ELSE Idle
    /\ UNCHANGED <<child, Unmoved>>

\* confirmLongerRun, the scratch directory, and the child: runWorker.
Spawn(slice) ==
    /\ call.pc = "grant"
    /\ call' = [call EXCEPT !.pc = "run"]
    /\ child' = [NoChild EXCEPT !.live = TRUE, !.clock = "slice", !.slice = slice, !.due = slice]
    /\ UNCHANGED <<progress, saved, streak, Unmoved>>

\* An unknown worker or one that does not start is a failure; a directory that
\* cannot be made is thrown, and judged by nobody.
NoSpawn ==
    /\ call.pc = "grant"
    /\ call' \in {[call EXCEPT !.pc = "judge", !.ok = FALSE], Idle}
    /\ UNCHANGED <<child, progress, saved, streak, Unmoved>>

\* After the worker: the scratch directory is listed, admission.json read, the
\* attempt judged.  A stop that no failure brought is put to the operator.
Judge(late) ==
    LET t == call.task
        hashes == Accepted(t)
        declined == scratch.unfit
        halt == ~declined /\ Halts(progress, t, call.ok, hashes, late)
    IN
    /\ call.pc = "judge"
    /\ Keep(IF declined THEN Declined(progress, t, hashes)
            ELSE Evaluated(progress, t, call.ok, hashes, late))
    /\ streak' = IF call.ok \/ declined \/ hashes # {} THEN 0
                 ELSE IF streak > MaxFailures THEN streak ELSE streak + 1
    /\ call' = IF halt /\ call.ok /\ CanConfirm THEN [call EXCEPT !.pc = "recover"] ELSE Idle
    /\ UNCHANGED <<child, Unmoved>>

\* A file vanishes while the directory is listed: what is thrown leaves the
\* attempt judged and counted by nobody.
Unjudged ==
    /\ call.pc = "judge"
    /\ call' = Idle
    /\ UNCHANGED <<child, progress, saved, streak, Unmoved>>

\* The question after a stop: what is chosen matters to the next call.
Recover ==
    /\ attended /\ call.pc = "recover"
    /\ Answered
    /\ call' = Idle
    /\ UNCHANGED <<child, Unmoved>>

----------------------------------------------------------------------------
(* The child and its clock: spawn.ts runWorker.                            *)

\* killProc: SIGTERM now, SIGKILL after the grace, counted anew each time.
Killed(c) == [c EXCEPT !.aborted = TRUE, !.kill = c.age + Grace]

\* The clock's loop ends with a kill.
Ended(c) == [Killed(c) EXCEPT !.clock = "off", !.budget = 0]

Least(m, n) == IF m < n THEN m ELSE n
Most(m, n) == IF m > n THEN m ELSE n

\* Variant: every extension is a whole slice.
ExtendedFully(c) ==
    [c EXCEPT !.extensions = @ + 1, !.clock = "slice", !.budget = 0, !.due = c.age + c.slice]

\* The next slice is what was left when the question was asked, if less.
Extended(c) ==
    [c EXCEPT !.extensions = @ + 1, !.clock = "slice", !.budget = 0,
              !.due = c.age + Least(c.slice, Most(1, c.budget))]

ChildIs(c) ==
    /\ child' = c
    /\ UNCHANGED <<call, progress, saved, streak, Unmoved>>

\* childIsAlive
Alive == child.quiet <= Silence

\* Variant: an operator is asked about a silent child too.
CanAskOfSilent == child.extensions < MaxExtensions /\ Cap > child.age

CanAsk == Alive /\ child.extensions < MaxExtensions /\ Cap > child.age

\* The slice is over: without an operator a child that speaks is extended.
SliceEnds ==
    LET asked == [child EXCEPT !.budget = Cap - child.age] IN
    /\ child.live /\ child.clock = "slice" /\ child.age >= child.due
    /\ ChildIs(CASE ~CanAsk -> Ended(child)
                 [] CanAsk /\ CanConfirm -> [asked EXCEPT !.clock = "ask", !.due = child.age + Wait]
                 [] CanAsk /\ ~CanConfirm -> Extended(asked))

\* confirmExtend
Confirm(yes) ==
    /\ attended /\ child.live /\ child.clock = "ask"
    /\ ChildIs(IF yes THEN Extended(child) ELSE Ended(child))

\* Nobody answered in time; a later answer is not heard.
ConfirmLapses ==
    /\ child.live /\ child.clock = "ask" /\ child.age >= child.due
    /\ ChildIs(Ended(child))

\* The operator stops the turn: the child is killed, and the clock goes on.
Abort ==
    /\ child.live /\ ~child.signal
    /\ ChildIs([Killed(child) EXCEPT !.signal = TRUE])

\* A line of JSON.
Speaks ==
    /\ child.live /\ child.quiet > 0
    /\ ChildIs([child EXCEPT !.quiet = 0])

SliceDue == child.clock \in {"slice", "ask"} /\ child.age >= child.due
KillDue == child.kill > 0 /\ child.age >= child.kill

Tick ==
    /\ child.live /\ ~SliceDue /\ ~KillDue
    /\ ChildIs([child EXCEPT !.age = @ + 1, !.quiet = Least(@ + 1, Silence + Wait + 1)])

\* The process is closed.  One that a signal ended counts as exit 0; it failed
\* if the host had killed it, the code says so, or a line told of an error.
Exit ==
    /\ child.live
    /\ \E ok \in BOOLEAN : call' = [call EXCEPT !.pc = "judge", !.ok = ok /\ ~child.aborted]
    /\ child' = NoChild
    /\ UNCHANGED <<progress, saved, streak, Unmoved>>

----------------------------------------------------------------------------
(* The scratch directory, and the parent's end.                            *)

\* A worker that outlived its parent may be about.
Orphans == left.restarts < MaxRestarts

\* A worker writes, or the parent does by scratch_write when no worker runs.
Write(f) ==
    /\ child.live \/ Orphans \/ call.pc = "idle"
    /\ scratch.file[f] < MaxWrites
    /\ scratch' = [scratch EXCEPT !.file[f] = @ + 1]
    /\ UNCHANGED <<attended, call, child, progress, saved, left, streak>>

\* A worker says whether the grant is enough; nothing removes what it said.
Admit ==
    /\ child.live \/ Orphans
    /\ scratch' = [scratch EXCEPT !.unfit = ~@]
    /\ UNCHANGED <<attended, call, child, progress, saved, left, streak>>

\* The parent ends, its worker perhaps not, and comes back with the session:
\* reconstructProgress.
Restart ==
    /\ left.restarts > 0
    /\ left' = [left EXCEPT !.restarts = @ - 1]
    /\ call' = Idle
    /\ child' = NoChild
    /\ attended' \in BOOLEAN
    /\ progress' = IF saved = None THEN EmptyProgress ELSE saved
    /\ UNCHANGED <<saved, scratch, streak>>

\* What the program does by itself, and what the kernel does for it.
Clock == SliceEnds \/ ConfirmLapses \/ Tick \/ (KillDue /\ Exit)
Granted == \E slice \in Slices : Spawn(slice)
Judged == \E late \in BOOLEAN : Judge(late)

Next ==
    \/ \E t \in Tasks : Begin(t)
    \/ Granted \/ NoSpawn \/ Judged \/ Unjudged
    \/ Choose \/ Recover
    \/ Clock \/ Exit \/ Abort \/ Speaks
    \/ \E yes \in BOOLEAN : Confirm(yes)
    \/ \E f \in Files : Write(f)
    \/ Admit
    \/ Restart

\* Timers fire, a killed process dies, the program goes on.  No operator need
\* answer, no child speak or end by itself.
Fairness ==
    /\ WF_vars(Clock) /\ WF_vars(Judged \/ Unjudged)
    /\ WF_vars(~attended /\ (Granted \/ NoSpawn))

Spec == Init /\ [][Next]_vars /\ Fairness

----------------------------------------------------------------------------
(* What must hold.                                                         *)

\* The cap across slices: whatever is asked, answered and aborted, a worker of
\* this session has ended two graces after the cap and one unanswered question,
\* because what is left is counted before the question, and an abort counts the
\* grace anew.  Only a first slice that is longer than this, which a default
\* from the environment may be, is run to its end, and never extended.
RunIsBounded ==
    /\ child.age <= Most(Cap + Wait, child.slice) + 2 * Grace
    /\ child.slice >= Cap => child.extensions = 0
    /\ child.kill > 0 => child.age <= child.kill

\* A silent child is killed, not extended: one that is extended spoke within
\* the time that counts as silence, or, if an operator was asked, fell silent
\* no longer than the question before it.
ExtendedSpoke ==
    [][child'.extensions > child.extensions =>
          child.quiet <= Silence + (IF attended THEN Wait ELSE 0)]_vars

\* Two failures in a row that were judged, without a checkpoint, stop the
\* workers, across streams and restarts, until an operator lifts the stop or an
\* unattended session turns to another family; except that, while a family is
\* asked for, its own tasks are let through.
FailuresStop ==
    call.pc = "run" => streak < MaxFailures \/ progress.required = call.task.family

\* No worker runs for ever, and a call that nobody attends to waits for nobody.
CallsEnd ==
    /\ call.pc = "run" ~> call.pc # "run"
    /\ ~attended /\ call.pc # "idle" ~> call.pc = "idle"

====
