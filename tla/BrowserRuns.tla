---- MODULE BrowserRuns ----
(***************************************************************************)
(* The runs of one operator's browser: BrowserSession (session.ts) over    *)
(* its RunStore (store/run-store.ts), as the node agent drives it.         *)
(*                                                                         *)
(* The node agent starts a handler for every message and awaits none, so   *)
(* the calls of a session interleave at every await.  A call reads         *)
(* state.json once, keeps that copy to its end and writes it back; what    *)
(* it may do to the page is decided by the copy and by the tab records     *)
(* that live in memory only.  writeFile truncates and then fills.          *)
(*                                                                         *)
(* A run's tab never changes, so tabOf names it once and the file is only  *)
(* its status.  The evidence (events.jsonl), the observations and the      *)
(* attention items are left out: nothing here reads them.                  *)
(***************************************************************************)
EXTENDS Naturals

CONSTANTS
    Slots,        \* the calls that may be in flight together
    Runs,         \* the run ids startRun may draw
    MaxTabs,      \* bounds the tabs Chromium ever opens
    MaxCalls,     \* bounds the calls begun
    MaxRestarts,  \* bounds the restarts of the node process
    None

Tabs == 1..MaxTabs
Statuses == {"active", "paused", "awaiting", "completed"}

\* What state.json may be: nothing, just truncated, two writings mixed, or the
\* state of a run, of which the status counts.
Files == {"absent", "empty", "garbled"} \cup Statuses

ASSUME BoundsAreNumbers ==
    /\ MaxTabs \in Nat \ {0} /\ MaxCalls \in Nat /\ MaxRestarts \in Nat
ASSUME NoneIsNoRun == None \notin Runs \cup Nat

VARIABLES
    disk,        \* runs/<run>/state.json
    tabOf,       \* the tab a run claimed when it started
    tabs,        \* the session's tab records
    current,     \* currentRunId
    open, drawn, \* Chromium's tabs, and how many it has opened so far
    attached,    \* whether the worker holds a CDP connection
    call,        \* the calls in flight
    begun, restarts,
    handover     \* history: what became of the last takeover of a run

chromium == <<open, drawn, attached>>
vars == <<disk, tabOf, tabs, current, chromium, call, begun, restarts, handover>>

TabRecords == [owner : Runs \cup {None}, lock : {"unknown", "locked", "released"}]

\* op is the method of the session, pc the await it stands at, status the copy.
CallStates ==
    [op     : {"start", "act", "inspect", "takeover", "resume", "pause", "stop", "ask", "asked"},
     pc     : {"idle", "check", "page", "save", "fill", "again", "answer"},
     run    : Runs \cup {None},
     status : Statuses]

\* A takeover is "released" once the lock is, "settled" once the file says so
\* with no older copy in flight, and "lost" if the node restarts with a file
\* that says active.  A resume on the tab undoes it.
Handovers == {"none", "released", "settled", "lost"}

Unknown == [owner |-> None, lock |-> "unknown"]
Idle == [op |-> "start", pc |-> "idle", run |-> None, status |-> "active"]

TypeOK ==
    /\ disk \in [Runs -> Files]
    /\ tabOf \in [Runs -> Tabs \cup {None}]
    /\ tabs \in [Tabs -> TabRecords]
    /\ current \in Runs \cup {None}
    /\ open \subseteq Tabs /\ drawn \in 0..MaxTabs /\ attached \in BOOLEAN
    /\ call \in [Slots -> CallStates]
    /\ \A c \in Slots : call[c].pc # "idle" => call[c].run \in Runs
    /\ begun \in 0..MaxCalls /\ restarts \in 0..MaxRestarts
    /\ handover \in [Runs -> Handovers]

Init ==
    /\ disk = [r \in Runs |-> "absent"]
    /\ tabOf = [r \in Runs |-> None]
    /\ tabs = [t \in Tabs |-> Unknown]
    /\ current = None
    /\ open = {} /\ drawn = 0 /\ attached = FALSE
    /\ call = [c \in Slots |-> Idle]
    /\ begun = 0 /\ restarts = 0
    /\ handover = [r \in Runs |-> "none"]

\* The pages the worker tracks: those of Chromium, once it is connected.
Pages == IF attached THEN open ELSE {}

TabOf(c) == tabOf[call[c].run]
InFlight == {c \in Slots : call[c].pc # "idle"}

\* claim: the record of a run's tab is made anew.
Claim(t, r, lock) == [tabs EXCEPT ![t] = [owner |-> r, lock |-> lock]]

\* Variant: the tab is locked whatever the file says.
AdoptedLocked(r) ==
    IF tabs[tabOf[r]].lock # "unknown" THEN tabs ELSE Claim(tabOf[r], r, "locked")

\* requireState re-claims the tab of a run it loads, if no record knows it.
Adopted(r) ==
    IF tabs[tabOf[r]].lock # "unknown" THEN tabs
    ELSE Claim(tabOf[r], r, IF disk[r] = "active" THEN "locked" ELSE "released")

\* refreshTabMeta records every tracked page that has no record, as unowned.
Refreshed ==
    [t \in Tabs |-> IF t \in Pages /\ tabs[t].lock = "unknown"
                    THEN [owner |-> None, lock |-> "released"] ELSE tabs[t]]

----------------------------------------------------------------------------
(* How a call begins.                                                      *)

Begins(c) ==
    /\ c \notin InFlight /\ begun < MaxCalls
    /\ begun' = begun + 1

\* requireState: the file must be there and parse; the run becomes current.
Loads(r) ==
    /\ disk[r] \in Statuses
    /\ current' = r

Holds(c, op, pc, r, status) ==
    call' = [call EXCEPT ![c] = [op |-> op, pc |-> pc, run |-> r, status |-> status]]

\* Variant: the call gives up its run and keeps its slot.
EndsHalf(c) == call' = [call EXCEPT ![c].run = None]

Ends(c) == call' = [call EXCEPT ![c] = Idle]
Moves(c, pc) == call' = [call EXCEPT ![c].pc = pc]

\* act: the copy is read; the tabs are described before anything is checked.
Act(c, r) ==
    /\ Begins(c) /\ Loads(r)
    /\ tabs' = Adopted(r)
    /\ Holds(c, "act", "check", r, disk[r])
    /\ UNCHANGED <<disk, tabOf, chromium, restarts, handover>>

\* Variant: the status and the owner are enough.
CanActUnlocked(c) ==
    /\ call[c].status = "active"
    /\ Refreshed[TabOf(c)].owner = call[c].run

\* assertCanAct, over the copy and the records as they are now.
CanAct(c) ==
    /\ call[c].status = "active"
    /\ Refreshed[TabOf(c)] = [owner |-> call[c].run, lock |-> "locked"]

ActAdmit(c) ==
    /\ call[c].pc = "check"
    /\ tabs' = Refreshed
    /\ IF CanAct(c) THEN Moves(c, "page") ELSE Ends(c)
    /\ UNCHANGED <<disk, tabOf, current, chromium, begun, restarts, handover>>

\* inspect and takeover ask only that the run owns the tab: assertOwned with
\* allowTakeover.  Nothing is awaited between the read and the check.
Owns(r) == Adopted(r)[tabOf[r]].owner = r

Look(c, op, r) ==
    /\ Begins(c) /\ Loads(r)
    /\ tabs' = Adopted(r)
    /\ IF Owns(r) THEN Holds(c, op, "page", r, disk[r]) ELSE UNCHANGED call
    /\ UNCHANGED <<disk, tabOf, chromium, restarts, handover>>

Inspect(c, r) == Look(c, "inspect", r)
Takeover(c, r) == Look(c, "takeover", r)

\* resume asks for no ownership: it locks whatever record the tab has.
Resume(c, r) ==
    /\ Begins(c) /\ Loads(r)
    /\ tabs' = [Adopted(r) EXCEPT ![tabOf[r]].lock = "locked"]
    /\ Holds(c, "resume", "save", r, "active")
    /\ handover' = [q \in Runs |-> IF tabOf[q] = tabOf[r] THEN "none" ELSE handover[q]]
    /\ UNCHANGED <<disk, tabOf, chromium, restarts>>

\* pauseRun, stopRun and askUser: the copy with its new status is written.
\* stopRun may also write failed, which nothing treats otherwise.
Pause(c, r) ==
    /\ Begins(c) /\ Loads(r)
    /\ tabs' = Adopted(r)
    /\ Holds(c, "pause", "save", r, "paused")
    /\ UNCHANGED <<disk, tabOf, chromium, restarts, handover>>

Stop(c, r) ==
    /\ Begins(c) /\ disk[r] \in Statuses
    /\ current' = None
    /\ tabs' = Adopted(r)
    /\ Holds(c, "stop", "save", r, "completed")
    /\ UNCHANGED <<disk, tabOf, chromium, restarts, handover>>

Ask(c, r) ==
    /\ Begins(c) /\ Loads(r)
    /\ tabs' = Adopted(r)
    /\ Holds(c, "ask", "save", r, disk[r])
    /\ UNCHANGED <<disk, tabOf, chromium, restarts, handover>>

\* startRun: the first tab there is, whoever owns it, or else a new one.
Start(c, r) ==
    /\ Begins(c) /\ attached /\ tabOf[r] = None
    /\ \/ open # {} /\ UNCHANGED <<open, drawn>>
       \/ open = {} /\ drawn < MaxTabs /\ drawn' = drawn + 1 /\ open' = {drawn'}
    /\ \E t \in open' :
           /\ \A u \in open' : t <= u
           /\ tabs' = Claim(t, r, "locked")
           /\ tabOf' = [tabOf EXCEPT ![r] = t]
    /\ Holds(c, "start", "page", r, "active")
    /\ UNCHANGED <<disk, current, attached, restarts, handover>>

----------------------------------------------------------------------------
(* At the page, and back to the file.                                      *)

\* The page did as asked; a start without an address asks nothing of it.
Page(c) ==
    /\ call[c].pc = "page" /\ call[c].op # "takeover"
    /\ call[c].op = "start" \/ TabOf(c) \in Pages
    /\ Moves(c, "save")
    /\ UNCHANGED <<disk, tabOf, tabs, current, chromium, begun, restarts, handover>>

\* takeover: the tab is in front, its lock goes, whoever owns it by now.
Release(c) ==
    /\ call[c].pc = "page" /\ call[c].op = "takeover" /\ TabOf(c) \in Pages
    /\ tabs' = [tabs EXCEPT ![TabOf(c)].lock = "released"]
    /\ Holds(c, "takeover", "save", call[c].run, "awaiting")
    /\ handover' = [handover EXCEPT ![call[c].run] = IF @ = "settled" THEN @ ELSE "released"]
    /\ UNCHANGED <<disk, tabOf, current, chromium, begun, restarts>>

\* The page is gone, or the gesture failed: the error is the call's result.
Fail(c) ==
    /\ call[c].pc = "page"
    /\ Ends(c)
    /\ UNCHANGED <<disk, tabOf, tabs, current, chromium, begun, restarts, handover>>

Truncate(c) ==
    /\ call[c].pc = "save"
    /\ disk' = [disk EXCEPT ![call[c].run] = "empty"]
    /\ Moves(c, "fill")
    /\ UNCHANGED <<tabOf, tabs, current, chromium, begun, restarts, handover>>

\* Onto a file another call has filled since, the shorter text leaves the
\* tail of the longer one.
Written(c) ==
    LET r == call[c].run
    IN  \E text \in IF disk[r] = "empty" THEN {call[c].status}
                    ELSE {call[c].status, "garbled"} :
            disk' = [disk EXCEPT ![r] = text]

\* resume inspects once saved, askUser waits for its answer; the others end.
AfterSave(op) ==
    CASE op = "resume" -> "again" [] op = "ask" -> "answer" [] OTHER -> "idle"

\* A call that read the file before the takeover was saved, or resumes, and
\* may still write active.
OlderCopy(r) ==
    \E d \in InFlight :
        call[d].run = r /\ call[d].status = "active" /\ call[d].op # "takeover"

Settled(r) ==
    handover' = [handover EXCEPT ![r] =
        IF @ = "released" /\ disk'[r] \in Statuses \ {"active"} /\ ~OlderCopy(r)
        THEN "settled" ELSE @]

Fill(c) ==
    /\ call[c].pc = "fill"
    /\ Written(c)
    /\ Settled(call[c].run)
    /\ IF AfterSave(call[c].op) = "idle" THEN Ends(c) ELSE Moves(c, AfterSave(call[c].op))
    /\ current' = IF call[c].op = "start" THEN call[c].run ELSE current
    /\ UNCHANGED <<tabOf, tabs, chromium, begun, restarts>>

\* resume's own inspect: the file is read again.
ResumeLook(c) ==
    LET r == call[c].run
    IN  /\ call[c].pc = "again"
        /\ \/ /\ Loads(r) /\ tabs' = Adopted(r)
              /\ IF Owns(r) THEN Holds(c, "inspect", "page", r, disk[r]) ELSE Ends(c)
           \/ disk[r] \notin Statuses /\ Ends(c) /\ UNCHANGED <<current, tabs>>
        /\ UNCHANGED <<disk, tabOf, chromium, begun, restarts, handover>>

\* The answer to askUser came, and the same copy is saved again; or none did.
Answer(c) ==
    /\ call[c].pc = "answer"
    /\ \/ Holds(c, "asked", "save", call[c].run, call[c].status)
       \/ Ends(c)
    /\ UNCHANGED <<disk, tabOf, tabs, current, chromium, begun, restarts, handover>>

----------------------------------------------------------------------------
(* Calls of one step, Chromium, and the process.                           *)

\* runPlan and proposeKnowledge load the run; a plan goes on with calls of act
\* and inspect.
Peek(r) ==
    /\ Loads(r) /\ tabs' = Adopted(r)
    /\ UNCHANGED <<disk, tabOf, chromium, call, begun, restarts, handover>>

\* status: every file must parse before the tabs are looked at.
Status ==
    /\ \A r \in Runs : disk[r] \in Statuses \cup {"absent"}
    /\ tabs' = Refreshed
    /\ UNCHANGED <<disk, tabOf, current, chromium, call, begun, restarts, handover>>

\* worker.start, for a run that starts or for the first call of the agent's
\* port: Chromium is found running with its tabs, or is launched.
Attach ==
    /\ ~attached /\ attached' = TRUE
    /\ \/ open # {} /\ UNCHANGED <<open, drawn>>
       \/ open = {} /\ drawn < MaxTabs /\ drawn' = drawn + 1 /\ open' = {drawn'}
    /\ UNCHANGED <<disk, tabOf, tabs, current, call, begun, restarts, handover>>

\* worker.stop: Chromium goes, the records stay.
StopWorker ==
    /\ open # {} /\ open' = {} /\ attached' = FALSE
    /\ UNCHANGED <<disk, tabOf, tabs, current, drawn, call, begun, restarts, handover>>

\* A person, a page or the agent's port opens and closes tabs.
OpenTab ==
    /\ open # {} /\ drawn < MaxTabs
    /\ drawn' = drawn + 1 /\ open' = open \cup {drawn'}
    /\ UNCHANGED <<disk, tabOf, tabs, current, attached, call, begun, restarts, handover>>

CloseTab(t) ==
    /\ t \in open /\ open # {t} /\ open' = open \ {t}
    /\ UNCHANGED <<disk, tabOf, tabs, current, drawn, attached, call, begun, restarts, handover>>

\* The node process restarts: files and Chromium stay, the rest is lost.  A
\* run handed over whose file says active comes back with its tab locked.
Restart ==
    /\ restarts < MaxRestarts /\ restarts' = restarts + 1
    /\ tabs' = [t \in Tabs |-> Unknown]
    /\ current' = None /\ attached' = FALSE
    /\ call' = [c \in Slots |-> Idle]
    /\ handover' = [r \in Runs |-> IF handover[r] # "none" /\ disk[r] = "active"
                                   THEN "lost" ELSE handover[r]]
    /\ UNCHANGED <<disk, tabOf, open, drawn, begun>>

CallBegins ==
    \E c \in Slots, r \in Runs :
        \/ Act(c, r) \/ Inspect(c, r) \/ Takeover(c, r) \/ Resume(c, r)
        \/ Pause(c, r) \/ Stop(c, r) \/ Ask(c, r) \/ Start(c, r)

CallMoves ==
    \E c \in Slots :
        \/ ActAdmit(c) \/ Page(c) \/ Release(c) \/ Fail(c) \/ Truncate(c)
        \/ Fill(c) \/ ResumeLook(c) \/ Answer(c)

Next ==
    \/ CallBegins \/ CallMoves
    \/ \E r \in Runs : Peek(r)
    \/ Status \/ Attach \/ StopWorker \/ OpenTab
    \/ \E t \in Tabs : CloseTab(t)
    \/ Restart

Spec == Init /\ [][Next]_vars

----------------------------------------------------------------------------
(* What must hold.                                                         *)

\* A call passes the check of act.
Admitted(c) == call[c].pc = "check" /\ call'[c].pc = "page"

\* Once takeover has released the tab of a run, no act of that run is admitted
\* before somebody resumes a run of that tab, although calls in flight write
\* their older status over awaiting_takeover.  A restart may lose the takeover:
\* then the file says active, the tab comes back locked, and act is admitted
\* without a resume.
TakeoverHolds ==
    [][\A c \in Slots : Admitted(c) => handover[call[c].run] \in {"none", "lost"}]_vars

\* Why it holds, and what a restart cannot lose: the record of the tab keeps
\* the lock released; if there is none, the file that makes it again does not
\* say active; and a takeover saved while no call held an older copy is never
\* written over, so it is not lost.
LockReleased ==
    \A r \in Runs :
        /\ handover[r] \in {"released", "settled"} =>
               /\ tabs[tabOf[r]].lock = "unknown" => disk[r] # "active"
               /\ tabs[tabOf[r]].owner = r => tabs[tabOf[r]].lock # "locked"
        /\ handover[r] = "settled" => disk[r] # "active"

====
