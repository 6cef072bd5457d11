---- MODULE BrowserRunsProofs ----
(***************************************************************************)
(* The takeover lock of BrowserRuns holds for any number of calls in       *)
(* flight, runs, tabs and restarts.                                        *)
(***************************************************************************)
EXTENDS BrowserRuns, TLAPS

\* The runs whose takeover stands.
handed == {r \in Runs : handover[r] \in {"released", "settled"}}

\* The lock of a run handed over is released, or will come back released.
Locks ==
    \A r \in handed :
        /\ tabs[tabOf[r]].lock = "unknown" => disk[r] # "active"
        /\ tabs[tabOf[r]].owner = r => tabs[tabOf[r]].lock # "locked"

\* What Locks rests on: whatever is written, handed over or in flight
\* has its tab, and the tab of a call in flight has a record, so no call can
\* make the record anew from a file it is about to overwrite.
Known ==
    /\ \A r \in Runs : disk[r] # "absent" => tabOf[r] \in Tabs
    /\ \A r \in handed : tabOf[r] \in Tabs
    /\ \A c \in Slots : call[c].pc # "idle" =>
           /\ tabOf[call[c].run] \in Tabs
           /\ tabs[tabOf[call[c].run]].lock # "unknown"

LInv == TypeOK /\ Known /\ Locks

\* Of a settled takeover neither the file nor a call in flight says active,
\* except a second takeover, which will write something else.
SettledKnown ==
    \A r \in Runs : handover[r] = "settled" =>
        /\ disk[r] # "active"
        /\ \A c \in Slots : call[c].pc # "idle" /\ call[c].run = r =>
               \/ call[c].status # "active"
               \/ call[c].op = "takeover" /\ call[c].pc = "page"

\* A takeover writes only after it has released the lock.
TakeoverKnown ==
    \A c \in Slots : call[c].pc # "idle" /\ call[c].op = "takeover" =>
        call[c].pc = "page" \/ call[c].status = "awaiting"

IInv == LInv /\ SettledKnown /\ TakeoverKnown

\* The runs handed over are those of `handover`.
LEMMA SameHanded == ASSUME UNCHANGED handover PROVE handed' = handed
  BY DEF handed

----------------------------------------------------------------------------
(* The operators the actions are built from.                               *)

\* A call's slot takes the state it is given, and no other slot changes.
LEMMA HoldsFacts ==
    ASSUME call \in [Slots -> CallStates], NEW c \in Slots, NEW s \in CallStates,
           call' = [call EXCEPT ![c] = s]
    PROVE  /\ call' \in [Slots -> CallStates]
           /\ call'[c] = s
           /\ \A d \in Slots : d # c => call'[d] = call[d]
  OBVIOUS

\* A call that moves on keeps its run and its copy.
LEMMA MovesFacts ==
    ASSUME call \in [Slots -> CallStates], NEW c \in Slots,
           NEW pc \in {"idle", "check", "page", "save", "fill", "again", "answer"},
           Moves(c, pc)
    PROVE  /\ call' \in [Slots -> CallStates]
           /\ call'[c].pc = pc /\ call'[c].run = call[c].run
           /\ call'[c].op = call[c].op
           /\ \A d \in Slots : d # c => call'[d] = call[d]
  BY DEF Moves, CallStates

\* The slot of a call that ends is free, and no other slot changes.
LEMMA EndsFacts ==
    ASSUME call \in [Slots -> CallStates], NEW c \in Slots, Ends(c)
    PROVE  /\ call' \in [Slots -> CallStates]
           /\ call'[c].pc = "idle"
           /\ \A d \in Slots : d # c => call'[d] = call[d]
  <1>1. Idle \in CallStates /\ Idle.pc = "idle"
    BY DEF Idle, CallStates, Statuses
  <1> QED BY <1>1 DEF Ends

\* Loading a run leaves its tab recorded, keeps the records there were, and
\* does not lock the tab of a run that was handed over.
LEMMA AdoptedFacts ==
    ASSUME LInv, NEW r \in Runs, disk[r] \in Statuses
    PROVE  /\ tabOf[r] \in Tabs
           /\ Adopted(r) \in [Tabs -> TabRecords]
           /\ Adopted(r)[tabOf[r]].lock # "unknown"
           /\ \A t \in Tabs : tabs[t].lock # "unknown" => Adopted(r)[t] = tabs[t]
           /\ \A h \in handed :
                  /\ Adopted(r)[tabOf[h]].lock = "unknown" => disk[h] # "active"
                  /\ Adopted(r)[tabOf[h]].owner = h => Adopted(r)[tabOf[h]].lock # "locked"
  <1>1. tabOf[r] \in Tabs /\ tabs \in [Tabs -> TabRecords]
    BY DEF LInv, TypeOK, Known, Statuses
  <1>2. CASE tabs[tabOf[r]].lock # "unknown"
    BY <1>1, <1>2 DEF Adopted, LInv, Locks
  <1>3. CASE tabs[tabOf[r]].lock = "unknown"
    <2> DEFINE made == [owner |-> r, lock |-> IF disk[r] = "active" THEN "locked" ELSE "released"]
    <2>1. made \in TabRecords /\ made.lock # "unknown" /\ made.owner = r
      BY DEF TabRecords
    <2>2. Adopted(r) = [tabs EXCEPT ![tabOf[r]] = made]
      BY <1>3 DEF Adopted, Claim
    <2>3. ASSUME NEW h \in handed
          PROVE  /\ Adopted(r)[tabOf[h]].lock = "unknown" => disk[h] # "active"
                 /\ Adopted(r)[tabOf[h]].owner = h => Adopted(r)[tabOf[h]].lock # "locked"
      <3>1. tabOf[h] \in Tabs
        BY DEF LInv, Known
      <3>2. CASE tabOf[h] = tabOf[r]
        <4>1. disk[h] # "active"
          BY <3>2, <1>3 DEF LInv, Locks
        <4>2. h = r => made.lock = "released"
          BY <4>1
        <4> QED BY <4>2, <3>2, <2>1, <2>2, <1>1
      <3>3. CASE tabOf[h] # tabOf[r]
        BY <3>1, <3>3, <2>2, <1>1 DEF LInv, Locks
      <3> QED BY <3>2, <3>3
    <2> QED BY <1>1, <1>3, <2>1, <2>2, <2>3
  <1> QED BY <1>2, <1>3

\* Describing the tabs records the unknown ones as nobody's, and no other.
LEMMA RefreshedFacts ==
    ASSUME tabs \in [Tabs -> TabRecords]
    PROVE  /\ Refreshed \in [Tabs -> TabRecords]
           /\ \A t \in Tabs : tabs[t].lock # "unknown" => Refreshed[t] = tabs[t]
           /\ \A t \in Tabs : tabs[t].lock = "unknown" =>
                  \/ Refreshed[t] = tabs[t]
                  \/ Refreshed[t] = [owner |-> None, lock |-> "released"]
  BY DEF Refreshed, TabRecords

----------------------------------------------------------------------------
(* The invariant, by kinds of steps.                                       *)

\* A step that loads a run, and starts, continues or ends calls of it.
LEMMA LoadKeeps ==
    ASSUME LInv, NEW r \in Runs, disk[r] \in Statuses,
           tabs' = Adopted(r), call' \in [Slots -> CallStates],
           \A d \in Slots : call'[d].pc # "idle" =>
               \/ call'[d].run = r
               \/ call[d].pc # "idle" /\ call'[d].run = call[d].run,
           UNCHANGED <<disk, tabOf, handover>>
    PROVE  /\ tabs' \in [Tabs -> TabRecords]
           /\ \A d \in Slots : call'[d].pc # "idle" => call'[d].run \in Runs
           /\ Known' /\ Locks'
  <1>1. /\ tabOf[r] \in Tabs
        /\ Adopted(r) \in [Tabs -> TabRecords]
        /\ Adopted(r)[tabOf[r]].lock # "unknown"
        /\ \A t \in Tabs : tabs[t].lock # "unknown" => Adopted(r)[t] = tabs[t]
        /\ \A h \in handed :
               /\ Adopted(r)[tabOf[h]].lock = "unknown" => disk[h] # "active"
               /\ Adopted(r)[tabOf[h]].owner = h => Adopted(r)[tabOf[h]].lock # "locked"
    BY AdoptedFacts
  <1>2. \A d \in Slots : call'[d].pc # "idle" =>
            /\ call'[d].run \in Runs
            /\ tabOf[call'[d].run] \in Tabs
            /\ tabs'[tabOf[call'[d].run]].lock # "unknown"
    BY <1>1 DEF LInv, TypeOK, Known
  <1>3. Known'
    BY <1>2, SameHanded DEF LInv, Known
  <1>4. Locks'
    BY <1>1, SameHanded DEF Locks
  <1> QED BY <1>1, <1>2, <1>3, <1>4

\* A step that leaves the records alone and writes only files of calls in
\* flight.
LEMMA QuietKeeps ==
    ASSUME LInv, UNCHANGED <<tabs, tabOf>>, handed' = handed,
           \A d \in Slots : call'[d].pc # "idle" =>
               call[d].pc # "idle" /\ call'[d].run = call[d].run,
           \A r \in Runs : disk'[r] = disk[r] \/
               \E d \in Slots : call[d].pc # "idle" /\ call[d].run = r
    PROVE  /\ \A d \in Slots : call'[d].pc # "idle" => call'[d].run \in Runs
           /\ Known' /\ Locks'
  <1>1. Known' /\ \A d \in Slots : call'[d].pc # "idle" => call'[d].run \in Runs
    BY DEF LInv, TypeOK, Known
  <1>2. ASSUME NEW h \in handed
        PROVE  /\ tabs[tabOf[h]].lock = "unknown" => disk'[h] # "active"
               /\ tabs[tabOf[h]].owner = h => tabs[tabOf[h]].lock # "locked"
    <2>1. h \in Runs
      BY DEF handed
    <2>2. tabs[tabOf[h]].lock = "unknown" => disk'[h] = disk[h]
      BY <2>1 DEF LInv, Known
    <2> QED BY <2>2 DEF LInv, Locks
  <1> QED BY <1>1, <1>2 DEF Locks

\* The types that a call's beginning disturbs: the counter.
LEMMA BeginsTypes ==
    ASSUME TypeOK, NEW c \in Slots, Begins(c)
    PROVE  begun' \in 0..MaxCalls
  BY BoundsAreNumbers DEF TypeOK, Begins

\* The calls that only load and take a slot, whatever they hold.
LEMMA BeginKeeps ==
    ASSUME LInv, NEW c \in Slots, NEW r \in Runs, Begins(c), disk[r] \in Statuses,
           NEW s \in CallStates, s.run = r,
           call' = [call EXCEPT ![c] = s] \/ UNCHANGED call,
           tabs' = Adopted(r), current' \in Runs \cup {None},
           UNCHANGED <<disk, tabOf, chromium, restarts, handover>>
    PROVE  LInv'
  <1>1. call' \in [Slots -> CallStates] /\ \A d \in Slots : d # c => call'[d] = call[d]
    BY DEF LInv, TypeOK
  <1>2. call'[c].run = r \/ call'[c] = call[c]
    BY DEF LInv, TypeOK
  <1>3. \A d \in Slots : call'[d].pc # "idle" =>
            \/ call'[d].run = r
            \/ call[d].pc # "idle" /\ call'[d].run = call[d].run
    BY <1>1, <1>2
  <1>4. /\ tabs' \in [Tabs -> TabRecords]
        /\ \A d \in Slots : call'[d].pc # "idle" => call'[d].run \in Runs
        /\ Known' /\ Locks'
    BY <1>1, <1>3, LoadKeeps
  <1>5. begun' \in 0..MaxCalls
    BY BeginsTypes DEF LInv
  <1>6. TypeOK'
    BY <1>1, <1>4, <1>5 DEF LInv, TypeOK, chromium
  <1> QED BY <1>4, <1>6 DEF LInv

----------------------------------------------------------------------------
(* The invariant, action by action.                                        *)

\* The calls that only load keep the invariant.
LEMMA LoadingCallsKeep ==
    ASSUME LInv, NEW c \in Slots, NEW r \in Runs,
           \/ Act(c, r) \/ Inspect(c, r) \/ Takeover(c, r)
           \/ Pause(c, r) \/ Stop(c, r) \/ Ask(c, r)
    PROVE  LInv'
  <1> DEFINE state(op, pc, status) == [op |-> op, pc |-> pc, run |-> r, status |-> status]
  <1>1. CASE Act(c, r)
    <2>1. state("act", "check", disk[r]) \in CallStates
      BY <1>1 DEF Act, Loads, CallStates
    <2> QED BY <1>1, <2>1, BeginKeeps DEF Act, Loads, Holds
  <1>2. ASSUME NEW op \in {"inspect", "takeover"}, Look(c, op, r)
        PROVE  LInv'
    <2>1. state(op, "page", disk[r]) \in CallStates
      BY <1>2 DEF Look, Loads, CallStates
    <2> QED BY <1>2, <2>1, BeginKeeps DEF Look, Loads, Holds
  <1>3. CASE Pause(c, r)
    <2>1. state("pause", "save", "paused") \in CallStates
      BY DEF CallStates, Statuses
    <2> QED BY <1>3, <2>1, BeginKeeps DEF Pause, Loads, Holds
  <1>4. CASE Stop(c, r)
    <2>1. state("stop", "save", "completed") \in CallStates
      BY DEF CallStates, Statuses
    <2> QED BY <1>4, <2>1, BeginKeeps DEF Stop, Loads, Holds
  <1>5. CASE Ask(c, r)
    <2>1. state("ask", "save", disk[r]) \in CallStates
      BY <1>5 DEF Ask, Loads, CallStates
    <2> QED BY <1>5, <2>1, BeginKeeps DEF Ask, Loads, Holds
  <1> QED BY <1>1, <1>2, <1>3, <1>4, <1>5 DEF Inspect, Takeover

\* resume locks the tab, and nobody it was handed over for keeps it.
LEMMA ResumeKeeps ==
    ASSUME LInv, NEW c \in Slots, NEW r \in Runs, Resume(c, r)
    PROVE  LInv'
  <1> DEFINE s == [op |-> "resume", pc |-> "save", run |-> r, status |-> "active"]
  <1>1. s \in CallStates /\ s.pc = "save" /\ s.run = r
    BY DEF CallStates, Statuses
  <1>2. /\ tabOf[r] \in Tabs
        /\ Adopted(r) \in [Tabs -> TabRecords]
        /\ Adopted(r)[tabOf[r]].lock # "unknown"
        /\ \A t \in Tabs : tabs[t].lock # "unknown" => Adopted(r)[t] = tabs[t]
        /\ \A h \in handed :
               /\ Adopted(r)[tabOf[h]].lock = "unknown" => disk[h] # "active"
               /\ Adopted(r)[tabOf[h]].owner = h => Adopted(r)[tabOf[h]].lock # "locked"
    BY AdoptedFacts DEF Resume, Loads
  <1>3. /\ tabs' \in [Tabs -> TabRecords]
        /\ tabs'[tabOf[r]].lock = "locked"
        /\ \A t \in Tabs : t # tabOf[r] => tabs'[t] = Adopted(r)[t]
    BY <1>2 DEF Resume, TabRecords
  <1>4. /\ call' \in [Slots -> CallStates] /\ call'[c] = s
        /\ \A d \in Slots : d # c => call'[d] = call[d]
    BY <1>1, HoldsFacts DEF Resume, Holds, LInv, TypeOK
  <1>0. /\ handover' \in [Runs -> Handovers]
        /\ handed' = {h \in handed : tabOf[h] # tabOf[r]}
    <2>1. handover' = [q \in Runs |-> IF tabOf[q] = tabOf[r] THEN "none" ELSE handover[q]]
      BY DEF Resume
    <2> QED BY <2>1 DEF LInv, TypeOK, Handovers, handed
  <1>5. Locks'
    BY <1>0, <1>2, <1>3 DEF Resume, Locks, LInv, Known
  <1>6. Known'
    <2>1. \A d \in Slots : call'[d].pc # "idle" =>
              /\ tabOf[call'[d].run] \in Tabs
              /\ tabs'[tabOf[call'[d].run]].lock # "unknown"
      BY <1>1, <1>2, <1>3, <1>4 DEF LInv, Known
    <2> QED BY <1>0, <2>1 DEF Resume, LInv, Known
  <1>7. begun' \in 0..MaxCalls
    BY BeginsTypes DEF LInv, Resume
  <1>8. TypeOK'
    <2>1. \A d \in Slots : call'[d].pc # "idle" => call'[d].run \in Runs
      BY <1>1, <1>4 DEF LInv, TypeOK
    <2> QED BY <1>0, <1>3, <1>4, <1>7, <2>1 DEF LInv, TypeOK, Resume, Loads, chromium
  <1> QED BY <1>5, <1>6, <1>8 DEF LInv

\* A new run claims a tab; it was not handed over, and the records of the
\* others are there as before.
LEMMA StartKeeps ==
    ASSUME LInv, NEW c \in Slots, NEW r \in Runs, Start(c, r)
    PROVE  LInv'
  <1> DEFINE s == [op |-> "start", pc |-> "page", run |-> r, status |-> "active"]
  <1>1. s \in CallStates /\ s.pc = "page" /\ s.run = r
    BY DEF CallStates, Statuses
  <1>2. open' \subseteq Tabs /\ drawn' \in 0..MaxTabs
    <2>1. /\ open \subseteq Tabs /\ drawn \in 0..MaxTabs
          /\ \/ UNCHANGED <<open, drawn>>
             \/ drawn < MaxTabs /\ drawn' = drawn + 1 /\ open' = {drawn'}
      BY DEF Start, LInv, TypeOK
    <2>2. CASE UNCHANGED <<open, drawn>>
      BY <2>1, <2>2
    <2>3. CASE drawn < MaxTabs /\ drawn' = drawn + 1 /\ open' = {drawn'}
      <3>1. drawn' \in 1..MaxTabs
        BY <2>1, <2>3, BoundsAreNumbers
      <3> QED BY <2>3, <3>1 DEF Tabs
    <2> QED BY <2>1, <2>2, <2>3
  <1>3. PICK t \in open' :
            /\ tabs' = Claim(t, r, "locked")
            /\ tabOf' = [tabOf EXCEPT ![r] = t]
    BY DEF Start
  <1>4. t \in Tabs
    BY <1>2
  <1>5. None \notin Tabs
    BY NoneIsNoRun DEF Tabs
  <1>6. /\ disk[r] = "absent" /\ r \notin handed
        /\ \A d \in Slots : call[d].pc # "idle" => call[d].run # r
    BY <1>5 DEF Start, LInv, Known, TypeOK
  <1>7. /\ call' \in [Slots -> CallStates] /\ call'[c] = s
        /\ \A d \in Slots : d # c => call'[d] = call[d]
    BY <1>1, HoldsFacts DEF Start, Holds, LInv, TypeOK
  <1>8. /\ tabs' \in [Tabs -> TabRecords]
        /\ tabs'[t].owner = r /\ tabs'[t].lock = "locked"
        /\ \A u \in Tabs : u # t => tabs'[u] = tabs[u]
    BY <1>3, <1>4 DEF LInv, TypeOK, Claim, TabRecords
  <1>9. tabOf' \in [Runs -> Tabs \cup {None}] /\ tabOf'[r] = t
        /\ \A q \in Runs : q # r => tabOf'[q] = tabOf[q]
    BY <1>3, <1>4 DEF LInv, TypeOK
  <1>10. UNCHANGED <<disk, current, attached, restarts, handover>>
    BY DEF Start
  <1>11. Locks'
    <2>1. ASSUME NEW h \in handed
          PROVE  /\ tabs'[tabOf'[h]].lock = "unknown" => disk[h] # "active"
                 /\ tabs'[tabOf'[h]].owner = h => tabs'[tabOf'[h]].lock # "locked"
      <3>1. h \in Runs /\ h # r /\ tabOf'[h] = tabOf[h] /\ tabOf[h] \in Tabs
        BY <1>6, <1>9 DEF LInv, Known, handed
      <3>2. CASE tabOf[h] = t
        BY <3>1, <3>2, <1>8
      <3>3. CASE tabOf[h] # t
        BY <3>1, <3>3, <1>8 DEF LInv, Locks
      <3> QED BY <3>2, <3>3
    <2> QED BY <2>1, <1>10, SameHanded DEF Locks
  <1>12. Known'
    <2>1. ASSUME NEW d \in Slots, call'[d].pc # "idle"
          PROVE  /\ tabOf'[call'[d].run] \in Tabs
                 /\ tabs'[tabOf'[call'[d].run]].lock # "unknown"
      <3>1. CASE d = c
        BY <3>1, <1>1, <1>4, <1>7, <1>8, <1>9
      <3>2. CASE d # c
        <4> DEFINE q == call[d].run
        <4>1. /\ call'[d] = call[d] /\ q \in Runs /\ q # r
              /\ tabOf[q] \in Tabs /\ tabs[tabOf[q]].lock # "unknown"
          BY <2>1, <3>2, <1>6, <1>7 DEF LInv, Known, TypeOK
        <4> HIDE DEF q
        <4>2. tabOf'[q] = tabOf[q] /\ tabs'[tabOf[q]].lock # "unknown"
          BY <4>1, <1>8, <1>9
        <4> QED BY <4>1, <4>2 DEF q
      <3> QED BY <3>1, <3>2
    <2>2. \A h \in handed : tabOf'[h] \in Tabs
      BY <1>6, <1>9 DEF LInv, Known, handed
    <2>3. \A q \in Runs : disk'[q] # "absent" => tabOf'[q] \in Tabs
      BY <1>4, <1>9, <1>10 DEF LInv, Known
    <2> QED BY <2>1, <2>2, <2>3, <1>10, SameHanded DEF Known
  <1>13. begun' \in 0..MaxCalls
    BY BeginsTypes DEF LInv, Start
  <1>14. TypeOK'
    <2>1. \A d \in Slots : call'[d].pc # "idle" => call'[d].run \in Runs
      BY <1>1, <1>7 DEF LInv, TypeOK
    <2> QED BY <1>2, <1>7, <1>8, <1>9, <1>10, <1>13, <2>1 DEF LInv, TypeOK
  <1> QED BY <1>11, <1>12, <1>14 DEF LInv

\* A call that goes on, fails, ends or writes, and the records stay.
LEMMA MovingCallsKeep ==
    ASSUME LInv, NEW c \in Slots,
           \/ Page(c) \/ Fail(c) \/ Truncate(c) \/ Fill(c) \/ Answer(c)
    PROVE  LInv'
  <1> DEFINE s == [op |-> "asked", pc |-> "save", run |-> call[c].run, status |-> call[c].status]
  <1>1. /\ call \in [Slots -> CallStates] /\ call[c].pc # "idle"
        /\ call[c].run \in Runs /\ call[c].status \in Statuses
    BY DEF LInv, TypeOK, CallStates, Page, Fail, Truncate, Fill, Answer
  <1>2. \/ Ends(c)
        \/ \E pc \in {"save", "fill", "again", "answer"} : Moves(c, pc)
        \/ call' = [call EXCEPT ![c] = s]
    BY DEF Page, Fail, Truncate, Fill, Answer, AfterSave, Holds
  <1>3. s \in CallStates /\ s.run = call[c].run
    BY <1>1 DEF CallStates
  <1>4. /\ call' \in [Slots -> CallStates]
        /\ \A d \in Slots : call'[d].pc # "idle" =>
               call[d].pc # "idle" /\ call'[d].run = call[d].run
    <2>1. CASE Ends(c)
      BY <2>1, <1>1, EndsFacts
    <2>2. CASE \E pc \in {"save", "fill", "again", "answer"} : Moves(c, pc)
      BY <2>2, <1>1, MovesFacts
    <2>3. CASE call' = [call EXCEPT ![c] = s]
      <3>1. /\ call' \in [Slots -> CallStates] /\ call'[c] = s
            /\ \A d \in Slots : d # c => call'[d] = call[d]
        BY <2>3, <1>1, <1>3, HoldsFacts
      <3> QED BY <3>1, <1>1, <1>3
    <2> QED BY <1>2, <2>1, <2>2, <2>3
  <1>5. /\ disk' \in [Runs -> Files]
        /\ \A r \in Runs : r # call[c].run => disk'[r] = disk[r]
    <2>1. CASE disk' = disk
      BY <2>1 DEF LInv, TypeOK
    <2>2. CASE \E text \in Files : disk' = [disk EXCEPT ![call[c].run] = text]
      BY <2>2, <1>1 DEF LInv, TypeOK
    <2>3. disk' = disk \/ \E text \in Files : disk' = [disk EXCEPT ![call[c].run] = text]
      BY <1>1 DEF Page, Fail, Truncate, Fill, Answer, Written, Files
    <2> QED BY <2>1, <2>2, <2>3
  <1>6. UNCHANGED <<tabs, tabOf, attached, open, drawn, begun, restarts>>
    BY DEF Page, Fail, Truncate, Fill, Answer, chromium
  <1>11. handover' \in [Runs -> Handovers] /\ handed' = handed
    <2>1. CASE UNCHANGED handover
      BY <2>1, SameHanded DEF LInv, TypeOK
    <2>2. CASE Settled(call[c].run)
      BY <2>2, <1>1 DEF Settled, LInv, TypeOK, Handovers, handed
    <2> QED BY <2>1, <2>2 DEF Page, Fail, Truncate, Fill, Answer
  <1>7. \A r \in Runs : disk'[r] = disk[r] \/
            \E d \in Slots : call[d].pc # "idle" /\ call[d].run = r
    BY <1>1, <1>5
  <1>8. /\ \A d \in Slots : call'[d].pc # "idle" => call'[d].run \in Runs
        /\ Known' /\ Locks'
    BY <1>4, <1>6, <1>7, <1>11, QuietKeeps
  <1>9. current' \in Runs \cup {None}
    BY <1>1 DEF LInv, TypeOK, Page, Fail, Truncate, Fill, Answer
  <1>10. TypeOK'
    BY <1>4, <1>5, <1>6, <1>8, <1>9, <1>11 DEF LInv, TypeOK
  <1> QED BY <1>8, <1>10 DEF LInv

\* takeover: the run joins those handed over when its tab's lock is released.
LEMMA ReleaseKeeps ==
    ASSUME LInv, NEW c \in Slots, Release(c)
    PROVE  LInv'
  <1> DEFINE q == call[c].run
             s == [op |-> "takeover", pc |-> "save", run |-> q, status |-> "awaiting"]
  <1>1. /\ call \in [Slots -> CallStates] /\ call[c].pc # "idle" /\ q \in Runs
        /\ tabOf[q] \in Tabs /\ tabs[tabOf[q]].lock # "unknown"
        /\ tabs \in [Tabs -> TabRecords]
    BY DEF LInv, TypeOK, Known, Release
  <1>2. s \in CallStates /\ s.run = q
    BY <1>1 DEF CallStates, Statuses
  <1>3. /\ tabs' = [tabs EXCEPT ![tabOf[q]].lock = "released"]
        /\ call' = [call EXCEPT ![c] = s]
        /\ handover' = [handover EXCEPT ![q] = IF @ = "settled" THEN @ ELSE "released"]
        /\ UNCHANGED <<disk, tabOf, current, open, drawn, attached, begun, restarts>>
    BY DEF Release, Holds, TabOf, chromium
  <1>0. handover' \in [Runs -> Handovers] /\ handed' = handed \cup {q}
    BY <1>1, <1>3 DEF LInv, TypeOK, Handovers, handed
  <1> HIDE DEF s, q
  <1>4. /\ call' \in [Slots -> CallStates] /\ call'[c] = s
        /\ \A d \in Slots : d # c => call'[d] = call[d]
    BY <1>1, <1>2, <1>3, HoldsFacts
  <1>5. /\ tabs' \in [Tabs -> TabRecords]
        /\ tabs'[tabOf[q]].lock = "released"
        /\ \A t \in Tabs : t # tabOf[q] => tabs'[t] = tabs[t]
    BY <1>1, <1>3 DEF TabRecords
  <1>6. ASSUME NEW h \in handed'
        PROVE  /\ tabOf[h] \in Tabs
               /\ tabs'[tabOf[h]].lock = "unknown" => disk[h] # "active"
               /\ tabs'[tabOf[h]].owner = h => tabs'[tabOf[h]].lock # "locked"
    <2>1. tabOf[h] \in Tabs
      BY <1>0, <1>1 DEF LInv, Known
    <2>2. CASE tabOf[h] = tabOf[q]
      BY <2>2, <1>5, <2>1
    <2>3. CASE tabOf[h] # tabOf[q]
      <3>1. h \in handed
        BY <2>3, <1>0
      <3> QED BY <2>1, <2>3, <3>1, <1>5 DEF LInv, Locks
    <2> QED BY <2>1, <2>2, <2>3
  <1>7. Known'
    <2>1. ASSUME NEW d \in Slots, call'[d].pc # "idle"
          PROVE  tabOf[call'[d].run] \in Tabs /\ tabs'[tabOf[call'[d].run]].lock # "unknown"
      <3>1. CASE d = c
        BY <3>1, <1>1, <1>2, <1>4, <1>5
      <3>2. CASE d # c
        BY <3>2, <2>1, <1>4, <1>5 DEF LInv, Known
      <3> QED BY <3>1, <3>2
    <2> QED BY <2>1, <1>3, <1>6 DEF LInv, Known
  <1>8. Locks'
    BY <1>3, <1>6 DEF Locks
  <1>9. TypeOK'
    <2>1. \A d \in Slots : call'[d].pc # "idle" => call'[d].run \in Runs
      BY <1>1, <1>2, <1>4 DEF LInv, TypeOK
    <2> QED BY <2>1, <1>0, <1>1, <1>3, <1>4, <1>5 DEF LInv, TypeOK
  <1> QED BY <1>7, <1>8, <1>9 DEF LInv

\* resume's second look loads the run again, or ends.
LEMMA ResumeLookKeeps ==
    ASSUME LInv, NEW c \in Slots, ResumeLook(c)
    PROVE  LInv'
  <1> DEFINE q == call[c].run
             s == [op |-> "inspect", pc |-> "page", run |-> q, status |-> disk[q]]
  <1>1. call \in [Slots -> CallStates] /\ call[c].pc # "idle" /\ q \in Runs
    BY DEF LInv, TypeOK, ResumeLook
  <1>2. CASE disk[q] \in Statuses /\ tabs' = Adopted(q)
    <2>1. s \in CallStates /\ s.run = q
      BY <1>1, <1>2 DEF CallStates
    <2>2. call' = [call EXCEPT ![c] = s] \/ Ends(c)
      BY <1>2 DEF ResumeLook, Holds
    <2>3. /\ call' \in [Slots -> CallStates]
          /\ call'[c].pc = "idle" \/ call'[c].run = q
          /\ \A d \in Slots : d # c => call'[d] = call[d]
      <3>1. CASE call' = [call EXCEPT ![c] = s]
        BY <3>1, <2>1, <1>1, HoldsFacts
      <3>2. CASE Ends(c)
        BY <3>2, <1>1, EndsFacts
      <3> QED BY <2>2, <3>1, <3>2
    <2>4. UNCHANGED <<disk, tabOf, handover>>
      BY DEF ResumeLook
    <2>5. /\ tabs' \in [Tabs -> TabRecords]
          /\ \A d \in Slots : call'[d].pc # "idle" => call'[d].run \in Runs
          /\ Known' /\ Locks'
      BY <1>1, <1>2, <2>3, <2>4, LoadKeeps
    <2>6. TypeOK'
      <3>1. current' \in Runs \cup {None}
        BY <1>1, <1>2 DEF ResumeLook, Loads
      <3> QED BY <2>3, <2>5, <3>1 DEF LInv, TypeOK, ResumeLook, chromium
    <2> QED BY <2>5, <2>6 DEF LInv
  <1>3. CASE Ends(c) /\ UNCHANGED <<current, tabs>>
    <2>1. /\ call' \in [Slots -> CallStates] /\ call'[c].pc = "idle"
          /\ \A d \in Slots : d # c => call'[d] = call[d]
      BY <1>1, <1>3, EndsFacts
    <2>2. UNCHANGED <<disk, tabs, tabOf, handover>> /\ handed' = handed
      BY <1>3, SameHanded DEF ResumeLook
    <2>3. /\ \A d \in Slots : call'[d].pc # "idle" => call'[d].run \in Runs
          /\ Known' /\ Locks'
      BY <2>1, <2>2, QuietKeeps
    <2>4. TypeOK'
      BY <1>3, <2>1, <2>3 DEF LInv, TypeOK, ResumeLook, chromium
    <2> QED BY <2>3, <2>4 DEF LInv
  <1> QED BY <1>2, <1>3 DEF ResumeLook, Loads

\* A step that records tracked pages as nobody's.
LEMMA RefreshKeeps ==
    ASSUME LInv, tabs' = Refreshed, call' \in [Slots -> CallStates],
           \A d \in Slots : call'[d].pc # "idle" =>
               call[d].pc # "idle" /\ call'[d].run = call[d].run,
           UNCHANGED <<disk, tabOf, current, chromium, begun, restarts, handover>>
    PROVE  LInv'
  <1>1. /\ tabs \in [Tabs -> TabRecords] /\ handed \subseteq Runs /\ None \notin Runs
    BY NoneIsNoRun DEF LInv, TypeOK, handed
  <1>2. /\ tabs' \in [Tabs -> TabRecords]
        /\ \A t \in Tabs : tabs[t].lock # "unknown" => tabs'[t] = tabs[t]
        /\ \A t \in Tabs : tabs[t].lock = "unknown" =>
               tabs'[t] = tabs[t] \/ tabs'[t] = [owner |-> None, lock |-> "released"]
    BY <1>1, RefreshedFacts
  <1>3. UNCHANGED <<disk, tabOf, current, open, drawn, attached, begun, restarts, handover>>
    BY DEF chromium
  <1>4. Locks'
    <2>1. ASSUME NEW h \in handed
          PROVE  /\ tabs'[tabOf[h]].lock = "unknown" => disk[h] # "active"
                 /\ tabs'[tabOf[h]].owner = h => tabs'[tabOf[h]].lock # "locked"
      <3>1. tabOf[h] \in Tabs
        BY DEF LInv, Known
      <3>2. CASE tabs'[tabOf[h]] = tabs[tabOf[h]]
        BY <3>2 DEF LInv, Locks
      <3>3. CASE tabs'[tabOf[h]] = [owner |-> None, lock |-> "released"]
        BY <3>3
      <3> QED BY <3>1, <3>2, <3>3, <1>2
    <2> QED BY <2>1, <1>3, SameHanded DEF Locks
  <1>5. Known'
    <2>1. \A d \in Slots : call'[d].pc # "idle" =>
              /\ tabOf[call'[d].run] \in Tabs
              /\ tabs'[tabOf[call'[d].run]].lock # "unknown"
      BY <1>2 DEF LInv, Known
    <2> QED BY <2>1, <1>3, SameHanded DEF LInv, Known
  <1>6. TypeOK'
    <2>1. \A d \in Slots : call'[d].pc # "idle" => call'[d].run \in Runs
      BY DEF LInv, TypeOK
    <2> QED BY <2>1, <1>2, <1>3 DEF LInv, TypeOK
  <1> QED BY <1>4, <1>5, <1>6 DEF LInv

\* The check of act comes with a refresh; the call goes to the page or ends.
LEMMA AdmitKeeps ==
    ASSUME LInv, NEW c \in Slots, ActAdmit(c)
    PROVE  LInv'
  <1>1. call \in [Slots -> CallStates] /\ call[c].pc # "idle"
    BY DEF LInv, TypeOK, ActAdmit
  <1>2. Moves(c, "page") \/ Ends(c)
    BY DEF ActAdmit
  <1>3. /\ call' \in [Slots -> CallStates]
        /\ call'[c].pc = "idle" \/ call'[c].run = call[c].run
        /\ \A d \in Slots : d # c => call'[d] = call[d]
    <2>1. CASE Moves(c, "page")
      BY <1>1, <2>1, MovesFacts
    <2>2. CASE Ends(c)
      BY <1>1, <2>2, EndsFacts
    <2> QED BY <1>2, <2>1, <2>2
  <1>4. \A d \in Slots : call'[d].pc # "idle" =>
            call[d].pc # "idle" /\ call'[d].run = call[d].run
    BY <1>1, <1>3
  <1> QED BY <1>3, <1>4, RefreshKeeps DEF ActAdmit

\* runPlan and proposeKnowledge load a run and hold no slot.
LEMMA PeekKeeps ==
    ASSUME LInv, NEW r \in Runs, Peek(r)
    PROVE  LInv'
  <1>1. /\ disk[r] \in Statuses /\ tabs' = Adopted(r) /\ current' = r
        /\ UNCHANGED <<disk, tabOf, open, drawn, attached, call, begun, restarts, handover>>
    BY DEF Peek, Loads, chromium
  <1>2. call' \in [Slots -> CallStates]
    BY <1>1 DEF LInv, TypeOK
  <1>3. /\ tabs' \in [Tabs -> TabRecords]
        /\ \A d \in Slots : call'[d].pc # "idle" => call'[d].run \in Runs
        /\ Known' /\ Locks'
    BY <1>1, <1>2, LoadKeeps
  <1>4. TypeOK'
    BY <1>1, <1>2, <1>3 DEF LInv, TypeOK
  <1> QED BY <1>3, <1>4 DEF LInv

\* Chromium's tabs come and go, and the records of the session stay.
LEMMA ChromiumKeeps ==
    ASSUME LInv, Attach \/ StopWorker \/ OpenTab \/ \E t \in Tabs : CloseTab(t)
    PROVE  LInv'
  <1>1. UNCHANGED <<disk, tabOf, tabs, current, call, begun, restarts, handover>>
    BY DEF Attach, StopWorker, OpenTab, CloseTab
  <1>2. attached' \in BOOLEAN
    BY DEF LInv, TypeOK, Attach, StopWorker, OpenTab, CloseTab
  <1>3. open' \subseteq Tabs /\ drawn' \in 0..MaxTabs
    <2>1. open \subseteq Tabs /\ drawn \in 0..MaxTabs
      BY DEF LInv, TypeOK
    <2>2. CASE drawn' = drawn /\ open' \subseteq open
      BY <2>1, <2>2
    <2>3. CASE drawn < MaxTabs /\ drawn' = drawn + 1 /\ open' \subseteq open \cup {drawn'}
      <3>1. drawn' \in 1..MaxTabs
        BY <2>1, <2>3, BoundsAreNumbers
      <3> QED BY <2>1, <2>3, <3>1 DEF Tabs
    <2>4. \/ drawn' = drawn /\ open' \subseteq open
          \/ drawn < MaxTabs /\ drawn' = drawn + 1 /\ open' \subseteq open \cup {drawn'}
      BY DEF Attach, StopWorker, OpenTab, CloseTab
    <2> QED BY <2>2, <2>3, <2>4
  <1>4. Known' /\ Locks'
    BY <1>1, SameHanded DEF LInv, Known, Locks
  <1>5. TypeOK'
    BY <1>1, <1>2, <1>3 DEF LInv, TypeOK
  <1> QED BY <1>4, <1>5 DEF LInv

\* After a restart there is no record and no call, and of those handed over
\* only the runs whose file is not active.
LEMMA RestartKeeps ==
    ASSUME LInv, Restart
    PROVE  LInv'
  <1>1. Unknown \in TabRecords /\ Unknown.lock = "unknown" /\ Unknown.owner = None
    BY DEF Unknown, TabRecords
  <1>2. Idle \in CallStates /\ Idle.pc = "idle"
    BY DEF Idle, CallStates, Statuses
  <1>3. /\ tabs' = [t \in Tabs |-> Unknown] /\ call' = [c \in Slots |-> Idle]
        /\ UNCHANGED <<disk, tabOf>>
    BY DEF Restart
  <1>9. /\ handover' \in [Runs -> Handovers]
        /\ handed' = {r \in handed : disk[r] # "active"}
    <2>1. handover' = [r \in Runs |-> IF handover[r] # "none" /\ disk[r] = "active"
                                     THEN "lost" ELSE handover[r]]
      BY DEF Restart
    <2> QED BY <2>1 DEF LInv, TypeOK, Handovers, handed
  <1>4. None \notin Runs
    BY NoneIsNoRun
  <1>5. Locks'
    <2>1. ASSUME NEW h \in handed'
          PROVE  /\ tabs'[tabOf[h]].lock = "unknown" => disk[h] # "active"
                 /\ tabs'[tabOf[h]].owner = h => tabs'[tabOf[h]].lock # "locked"
      <3>1. h \in handed /\ disk[h] # "active"
        BY <1>9
      <3>2. tabOf[h] \in Tabs
        BY <3>1 DEF LInv, Known
      <3> QED BY <3>1, <3>2, <1>1, <1>3
    <2> QED BY <2>1, <1>3 DEF Locks
  <1>6. Known'
    BY <1>2, <1>3, <1>9 DEF LInv, Known
  <1>7. restarts' \in 0..MaxRestarts
    BY BoundsAreNumbers DEF Restart, LInv, TypeOK
  <1>8. TypeOK'
    <2>1. tabs' \in [Tabs -> TabRecords] /\ call' \in [Slots -> CallStates]
      BY <1>1, <1>2, <1>3
    <2>2. \A d \in Slots : call'[d].pc # "idle" => call'[d].run \in Runs
      BY <1>2, <1>3
    <2> QED BY <1>3, <1>7, <1>9, <2>1, <2>2 DEF LInv, TypeOK, Restart
  <1> QED BY <1>5, <1>6, <1>8 DEF LInv

----------------------------------------------------------------------------
(* Takeovers that were settled, and the copies of calls in flight.         *)

\* The calls of a step that changes one slot: the others hold what they held.
LEMMA SlotKeeps ==
    ASSUME IInv, NEW c \in Slots, NEW s \in CallStates,
           call' = [call EXCEPT ![c] = s],
           \A r \in Runs : handover'[r] = "settled" => handover[r] = "settled",
           \A r \in Runs : disk'[r] = "active" => disk[r] = "active",
           s.status = "active" /\ handover'[s.run] = "settled" =>
               s.pc = "idle" \/ (s.op = "takeover" /\ s.pc = "page"),
           s.op = "takeover" => s.pc \in {"idle", "page"} \/ s.status = "awaiting"
    PROVE  SettledKnown' /\ TakeoverKnown'
  <1>1. /\ call'[c] = s /\ \A d \in Slots : d # c => call'[d] = call[d]
    BY HoldsFacts DEF IInv, LInv, TypeOK
  <1>2. SettledKnown'
    BY <1>1 DEF IInv, SettledKnown
  <1>3. TakeoverKnown'
    BY <1>1 DEF IInv, TakeoverKnown
  <1> QED BY <1>2, <1>3

\* A step that leaves files, calls and handovers alone.
LEMMA StillKeeps ==
    ASSUME IInv, UNCHANGED <<disk, call, handover>>
    PROVE  SettledKnown' /\ TakeoverKnown'
  BY DEF IInv, SettledKnown, TakeoverKnown

\* The calls that begin read no active file of a settled takeover; resume ends
\* the takeover, and a run that starts was never handed over.
LEMMA BeginSettles ==
    ASSUME IInv, CallBegins
    PROVE  SettledKnown' /\ TakeoverKnown'
  <1>1. PICK c \in Slots, r \in Runs :
            \/ Act(c, r) \/ Inspect(c, r) \/ Takeover(c, r) \/ Resume(c, r)
            \/ Pause(c, r) \/ Stop(c, r) \/ Ask(c, r) \/ Start(c, r)
    BY DEF CallBegins
  <1> DEFINE state(op, pc, status) == [op |-> op, pc |-> pc, run |-> r, status |-> status]
  <1>2. handover[r] = "settled" => disk[r] # "active" /\ tabOf[r] \in Tabs
    BY DEF IInv, SettledKnown, LInv, Known, handed
  <1>3. CASE Act(c, r)
    <2>1. state("act", "check", disk[r]) \in CallStates
      BY <1>3 DEF Act, Loads, CallStates
    <2> QED BY <1>2, <1>3, <2>1, SlotKeeps DEF Act, Holds
  <1>4. ASSUME NEW op \in {"inspect", "takeover"}, Look(c, op, r)
        PROVE  SettledKnown' /\ TakeoverKnown'
    <2>1. state(op, "page", disk[r]) \in CallStates
      BY <1>4 DEF Look, Loads, CallStates
    <2>2. CASE call' = [call EXCEPT ![c] = state(op, "page", disk[r])]
      BY <1>2, <1>4, <2>1, <2>2, SlotKeeps DEF Look
    <2>3. CASE UNCHANGED call
      BY <1>4, <2>3, StillKeeps DEF Look
    <2> QED BY <1>4, <2>2, <2>3 DEF Look, Holds
  <1>5. CASE Resume(c, r)
    <2>1. state("resume", "save", "active") \in CallStates
      BY DEF CallStates, Statuses
    <2>2. /\ handover'[r] = "none"
          /\ \A q \in Runs : handover'[q] = "settled" => handover[q] = "settled"
      BY <1>5 DEF Resume
    <2> QED BY <1>5, <2>1, <2>2, SlotKeeps DEF Resume, Holds
  <1>6. CASE Pause(c, r)
    <2>1. state("pause", "save", "paused") \in CallStates
      BY DEF CallStates, Statuses
    <2> QED BY <1>6, <2>1, SlotKeeps DEF Pause, Holds
  <1>7. CASE Stop(c, r)
    <2>1. state("stop", "save", "completed") \in CallStates
      BY DEF CallStates, Statuses
    <2> QED BY <1>7, <2>1, SlotKeeps DEF Stop, Holds
  <1>8. CASE Ask(c, r)
    <2>1. state("ask", "save", disk[r]) \in CallStates
      BY <1>8 DEF Ask, Loads, CallStates
    <2> QED BY <1>2, <1>8, <2>1, SlotKeeps DEF Ask, Holds
  <1>9. CASE Start(c, r)
    <2>1. state("start", "page", "active") \in CallStates
      BY DEF CallStates, Statuses
    <2>2. handover[r] # "settled"
      BY <1>2, <1>9, NoneIsNoRun DEF Start, Tabs
    <2> QED BY <1>9, <2>1, <2>2, SlotKeeps DEF Start, Holds
  <1> QED BY <1>1, <1>3, <1>4, <1>5, <1>6, <1>7, <1>8, <1>9 DEF Inspect, Takeover

\* A call that is saved writes no active over a settled takeover, and a
\* takeover is settled only if no call is left that might.
LEMMA FillSettles ==
    ASSUME IInv, NEW c \in Slots, Fill(c)
    PROVE  SettledKnown' /\ TakeoverKnown'
  <1> DEFINE q == call[c].run
  <1>1. /\ call \in [Slots -> CallStates] /\ call[c].pc = "fill" /\ q \in Runs
        /\ disk \in [Runs -> Files] /\ handover \in [Runs -> Handovers]
    BY DEF Fill, IInv, LInv, TypeOK
  <1>2. /\ disk'[q] = call[c].status \/ disk'[q] = "garbled"
        /\ \A r \in Runs : r # q => disk'[r] = disk[r]
    BY <1>1 DEF Fill, Written
  <1>3. /\ \A r \in Runs : r # q => handover'[r] = handover[r]
        /\ handover'[q] = "settled" =>
               \/ handover[q] = "settled"
               \/ disk'[q] # "active" /\ ~OlderCopy(q)
    BY <1>1 DEF Fill, Settled
  <1>4. /\ \A d \in Slots : d # c => call'[d] = call[d]
        /\ \/ call'[c].pc = "idle"
           \/ /\ call'[c].pc # "idle" /\ call'[c].run = q /\ call'[c].op = call[c].op
              /\ call'[c].status = call[c].status /\ call[c].op # "takeover"
    <2>1. CASE Ends(c)
      BY <1>1, <2>1, EndsFacts
    <2>2. ASSUME NEW pc \in {"again", "answer"}, Moves(c, pc), call[c].op # "takeover"
          PROVE  /\ call'[c].run = q /\ call'[c].op = call[c].op /\ call'[c].pc = pc
                 /\ call'[c].status = call[c].status
                 /\ \A d \in Slots : d # c => call'[d] = call[d]
      BY <1>1, <2>2 DEF Moves, CallStates
    <2> QED BY <1>1, <2>1, <2>2 DEF Fill, AfterSave
  <1>5. TakeoverKnown'
    BY <1>4 DEF IInv, TakeoverKnown
  <1>6. ASSUME handover'[q] = "settled"
        PROVE  /\ disk'[q] # "active"
               /\ \A d \in Slots : call[d].pc # "idle" /\ call[d].run = q =>
                      \/ call[d].status # "active"
                      \/ call[d].op = "takeover" /\ call[d].pc = "page"
    <2>1. CASE handover[q] = "settled"
      BY <1>1, <1>2, <2>1 DEF IInv, SettledKnown
    <2>2. CASE disk'[q] # "active" /\ ~OlderCopy(q)
      BY <2>2 DEF OlderCopy, InFlight, IInv, TakeoverKnown
    <2> QED BY <1>3, <1>6, <2>1, <2>2
  <1>7. SettledKnown'
    <2> SUFFICES ASSUME NEW r \in Runs, handover'[r] = "settled"
                 PROVE  /\ disk'[r] # "active"
                        /\ \A d \in Slots : call'[d].pc # "idle" /\ call'[d].run = r =>
                               \/ call'[d].status # "active"
                               \/ call'[d].op = "takeover" /\ call'[d].pc = "page"
      BY DEF SettledKnown
    <2>1. CASE r = q
      BY <1>1, <1>4, <1>6, <2>1
    <2>2. CASE r # q
      <3>1. handover[r] = "settled" /\ disk'[r] = disk[r]
        BY <1>2, <1>3, <2>2
      <3> QED BY <1>4, <2>2, <3>1 DEF IInv, SettledKnown
    <2> QED BY <2>1, <2>2
  <1> QED BY <1>5, <1>7

\* The other steps of calls in flight.
LEMMA MoveSettles ==
    ASSUME IInv, CallMoves
    PROVE  SettledKnown' /\ TakeoverKnown'
  <1>1. PICK c \in Slots :
            \/ ActAdmit(c) \/ Page(c) \/ Release(c) \/ Fail(c) \/ Truncate(c)
            \/ Fill(c) \/ ResumeLook(c) \/ Answer(c)
    BY DEF CallMoves
  <1> DEFINE q == call[c].run
             to(pc) == [call[c] EXCEPT !.pc = pc]
             state(op, pc, status) == [op |-> op, pc |-> pc, run |-> q, status |-> status]
  <1>2. /\ call[c].pc # "idle" /\ call[c] \in CallStates /\ q \in Runs
        /\ handover[q] = "settled" =>
               /\ disk[q] # "active"
               /\ \/ call[c].status # "active"
                  \/ call[c].op = "takeover" /\ call[c].pc = "page"
        /\ call[c].op = "takeover" => call[c].pc = "page" \/ call[c].status = "awaiting"
    BY <1>1 DEF IInv, LInv, TypeOK, SettledKnown, TakeoverKnown, CallStates, ActAdmit,
                Page, Release, Fail, Truncate, Fill, ResumeLook, Answer
  <1>3. Idle \in CallStates /\ Idle.pc = "idle" /\ Idle.op = "start"
    BY DEF Idle, CallStates, Statuses
  <1>4. ASSUME NEW pc \in {"page", "save", "fill"}
        PROVE  /\ to(pc) \in CallStates /\ to(pc).pc = pc /\ to(pc).run = q
               /\ to(pc).op = call[c].op /\ to(pc).status = call[c].status
    BY <1>2 DEF CallStates
  <1>5. ASSUME Ends(c), UNCHANGED <<disk, handover>>
        PROVE  SettledKnown' /\ TakeoverKnown'
    <2>1. call' = [call EXCEPT ![c] = Idle] /\ disk' = disk /\ handover' = handover
      BY <1>5 DEF Ends
    <2> QED BY <1>3, <2>1, SlotKeeps
  <1>6. CASE ActAdmit(c)
    <2>1. CASE Moves(c, "page")
      <3>1. call[c].pc = "check" /\ call' = [call EXCEPT ![c] = to("page")]
        BY <1>6, <2>1 DEF ActAdmit, Moves
      <3> HIDE DEF to
      <3> QED BY <1>2, <1>4, <1>6, <3>1, SlotKeeps DEF ActAdmit
    <2> QED BY <1>5, <1>6, <2>1 DEF ActAdmit
  <1>7. CASE Page(c)
    <2>1. /\ call[c].pc = "page" /\ call[c].op # "takeover"
          /\ call' = [call EXCEPT ![c] = to("save")]
      BY <1>7 DEF Page, Moves
    <2> HIDE DEF to
    <2> QED BY <1>2, <1>4, <1>7, <2>1, SlotKeeps DEF Page
  <1>8. CASE Release(c)
    <2>1. state("takeover", "save", "awaiting") \in CallStates
      BY <1>2 DEF CallStates, Statuses
    <2>2. \A r \in Runs : handover'[r] = "settled" => handover[r] = "settled"
      BY <1>8 DEF Release, IInv, LInv, TypeOK
    <2> QED BY <1>8, <2>1, <2>2, SlotKeeps DEF Release, Holds
  <1>9. CASE Fail(c)
    BY <1>5, <1>9 DEF Fail
  <1>10. CASE Truncate(c)
    <2>1. call[c].pc = "save" /\ call' = [call EXCEPT ![c] = to("fill")]
      BY <1>10 DEF Truncate, Moves
    <2>2. \A r \in Runs : disk'[r] = "active" => disk[r] = "active"
      BY <1>10 DEF Truncate, IInv, LInv, TypeOK
    <2> HIDE DEF to
    <2> QED BY <1>2, <1>4, <1>10, <2>1, <2>2, SlotKeeps DEF Truncate
  <1>11. CASE Fill(c)
    BY <1>11, FillSettles
  <1>12. CASE ResumeLook(c)
    <2>1. CASE disk[q] \in Statuses /\ call' = [call EXCEPT ![c] = state("inspect", "page", disk[q])]
      <3>1. state("inspect", "page", disk[q]) \in CallStates
        BY <1>2, <2>1 DEF CallStates
      <3> QED BY <1>2, <1>12, <2>1, <3>1, SlotKeeps DEF ResumeLook
    <2>2. UNCHANGED <<disk, handover>>
      BY <1>12 DEF ResumeLook
    <2>3. \/ Ends(c)
          \/ /\ disk[q] \in Statuses
             /\ call' = [call EXCEPT ![c] = state("inspect", "page", disk[q])]
      <3>1. CASE disk[q] \in Statuses /\ Holds(c, "inspect", "page", q, disk[q])
        BY <3>1 DEF Holds
      <3> QED BY <1>12, <3>1 DEF ResumeLook, Loads
    <2> QED BY <1>5, <2>1, <2>2, <2>3
  <1>13. CASE Answer(c)
    <2>1. CASE Holds(c, "asked", "save", q, call[c].status)
      <3>1. state("asked", "save", call[c].status) \in CallStates
        BY <1>2 DEF CallStates
      <3> QED BY <1>2, <1>13, <2>1, <3>1, SlotKeeps DEF Answer, Holds
    <2> QED BY <1>5, <1>13, <2>1 DEF Answer
  <1> QED BY <1>1, <1>6, <1>7, <1>8, <1>9, <1>10, <1>11, <1>12, <1>13

\* No step un-settles a takeover but a resume on its tab.
LEMMA SettledKeeps ==
    ASSUME IInv, Next
    PROVE  SettledKnown' /\ TakeoverKnown'
  <1>1. CASE Restart
    <2>1. \A c \in Slots : call'[c].pc = "idle"
      BY <1>1 DEF Restart, Idle
    <2>2. \A r \in Runs : handover'[r] = "settled" => handover[r] = "settled"
      BY <1>1 DEF Restart
    <2>3. disk' = disk
      BY <1>1 DEF Restart
    <2> QED BY <2>1, <2>2, <2>3 DEF IInv, SettledKnown, TakeoverKnown
  <1>2. CASE \/ \E r \in Runs : Peek(r)
             \/ Status \/ Attach \/ StopWorker \/ OpenTab
             \/ \E t \in Tabs : CloseTab(t)
    <2>1. UNCHANGED <<disk, call, handover>>
      BY <1>2 DEF Peek, Status, Attach, StopWorker, OpenTab, CloseTab
    <2> QED BY <2>1, StillKeeps
  <1> QED BY <1>1, <1>2, BeginSettles, MoveSettles DEF Next

----------------------------------------------------------------------------
(* The theorems.                                                           *)

\* IInv is an inductive invariant: no session state the code can reach has a
\* handed-over run that owns a locked tab, a call in flight on a tab the
\* session has no record of, or a settled takeover with an older copy about.
THEOREM Invariance == Spec => []IInv
  <1>1. Init => IInv
    <2> SUFFICES ASSUME Init PROVE IInv
      OBVIOUS
    <2>1. Unknown \in TabRecords /\ Idle \in CallStates /\ Idle.pc = "idle"
      BY DEF Unknown, TabRecords, Idle, CallStates, Statuses
    <2>2. handover = [r \in Runs |-> "none"] /\ handed = {}
      BY DEF Init, handed
    <2>3. TypeOK
      <3>1. 0 \in 0..MaxTabs /\ 0 \in 0..MaxCalls /\ 0 \in 0..MaxRestarts
        BY BoundsAreNumbers
      <3>2. "absent" \in Files /\ "none" \in Handovers
        BY DEF Files, Handovers
      <3> QED BY <2>1, <2>2, <3>1, <3>2 DEF Init, TypeOK
    <2>4. Known /\ Locks /\ SettledKnown /\ TakeoverKnown
      BY <2>1, <2>2 DEF Init, Known, Locks, SettledKnown, TakeoverKnown
    <2> QED BY <2>3, <2>4 DEF IInv, LInv
  <1>2. LInv /\ [Next]_vars => LInv'
    <2> SUFFICES ASSUME LInv, [Next]_vars PROVE LInv'
      OBVIOUS
    <2>1. ASSUME CallBegins PROVE LInv'
      BY <2>1, LoadingCallsKeep, ResumeKeeps, StartKeeps DEF CallBegins
    <2>2. ASSUME CallMoves PROVE LInv'
      BY <2>2, MovingCallsKeep, ReleaseKeeps, ResumeLookKeeps, AdmitKeeps DEF CallMoves
    <2>3. ASSUME NEW r \in Runs, Peek(r) PROVE LInv'
      BY <2>3, PeekKeeps
    <2>4. ASSUME Status PROVE LInv'
      <3>1. call' = call /\ call \in [Slots -> CallStates]
        BY <2>4 DEF Status, LInv, TypeOK
      <3> QED BY <2>4, <3>1, RefreshKeeps DEF Status
    <2>5. ASSUME Attach \/ StopWorker \/ OpenTab \/ \E t \in Tabs : CloseTab(t) PROVE LInv'
      BY <2>5, ChromiumKeeps
    <2>6. ASSUME Restart PROVE LInv'
      BY <2>6, RestartKeeps
    <2>7. ASSUME UNCHANGED vars PROVE LInv'
      BY <2>7, SameHanded DEF vars, chromium, LInv, TypeOK, Known, Locks
    <2> QED BY <2>1, <2>2, <2>3, <2>4, <2>5, <2>6, <2>7 DEF Next
  <1>3. IInv /\ [Next]_vars => SettledKnown' /\ TakeoverKnown'
    <2>1. ASSUME IInv, UNCHANGED vars PROVE SettledKnown' /\ TakeoverKnown'
      BY <2>1, StillKeeps DEF vars
    <2> QED BY <2>1, SettledKeeps
  <1>4. IInv /\ [Next]_vars => IInv'
    BY <1>2, <1>3 DEF IInv
  <1> QED BY <1>1, <1>4, PTL DEF Spec

\* The files, the tab records and the calls have their types.
THEOREM TypeCorrect == Spec => []TypeOK
  <1>1. IInv => TypeOK
    BY DEF IInv, LInv
  <1> QED BY <1>1, Invariance, PTL

\* A handed-over run never owns a locked tab, and the file of a settled
\* takeover never says active.
THEOREM LockIsReleased == Spec => []LockReleased
  <1>1. IInv => LockReleased
    BY DEF IInv, LInv, Locks, SettledKnown, LockReleased, handed
  <1> QED BY <1>1, Invariance, PTL

\* Only the check of act lets a call from "check" to "page".
LEMMA OnlyActAdmits ==
    ASSUME IInv, Next, NEW c \in Slots, Admitted(c)
    PROVE  CanAct(c)
  <1>1. call \in [Slots -> CallStates] /\ call[c].pc = "check" /\ call'[c].pc = "page"
    BY DEF Admitted, IInv, LInv, TypeOK
  <1>2. ASSUME call' = call PROVE FALSE
    BY <1>1, <1>2
  <1>3. ASSUME NEW d \in Slots, d # c, NEW s, call' = [call EXCEPT ![d] = s]
        PROVE  FALSE
    BY <1>1, <1>3
  <1>4. ASSUME NEW d \in Slots, NEW r \in Runs, Begins(d)
        PROVE  d # c
    BY <1>1, <1>4 DEF Begins, InFlight
  <1>5. ~CallBegins
    <2> SUFFICES ASSUME NEW d \in Slots, NEW r \in Runs,
                        \/ Act(d, r) \/ Inspect(d, r) \/ Takeover(d, r) \/ Resume(d, r)
                        \/ Pause(d, r) \/ Stop(d, r) \/ Ask(d, r) \/ Start(d, r)
                 PROVE  FALSE
      BY DEF CallBegins
    <2>1. Begins(d)
      BY DEF Act, Inspect, Takeover, Look, Resume, Pause, Stop, Ask, Start
    <2>2. call' = call \/ \E s : call' = [call EXCEPT ![d] = s]
      BY DEF Act, Inspect, Takeover, Look, Resume, Pause, Stop, Ask, Start, Holds
    <2> QED BY <1>2, <1>3, <1>4, <2>1, <2>2
  <1>6. CASE CallMoves
    <2>1. PICK d \in Slots :
              \/ ActAdmit(d) \/ Page(d) \/ Release(d) \/ Fail(d) \/ Truncate(d)
              \/ Fill(d) \/ ResumeLook(d) \/ Answer(d)
      BY <1>6 DEF CallMoves
    <2>2. \E s : call' = [call EXCEPT ![d] = s]
      <3>1. \/ Ends(d) \/ \E pc : Moves(d, pc)
            \/ \E op, pc, r, status : Holds(d, op, pc, r, status)
        BY <2>1 DEF ActAdmit, Page, Release, Fail, Truncate, Fill, ResumeLook, Answer
      <3>2. ASSUME NEW pc, Moves(d, pc)
            PROVE  call' = [call EXCEPT ![d] = [call[d] EXCEPT !.pc = pc]]
        BY <3>2 DEF Moves
      <3> QED BY <3>1, <3>2 DEF Ends, Holds
    <2>3. d = c
      BY <1>3, <2>2
    <2>4. ActAdmit(c)
      BY <1>1, <2>1, <2>3 DEF Page, Release, Fail, Truncate, Fill, ResumeLook, Answer
    <2>5. ASSUME Ends(c) PROVE FALSE
      BY <1>1, <2>5, EndsFacts
    <2> QED BY <2>4, <2>5 DEF ActAdmit
  <1>7. ASSUME \/ \E r \in Runs : Peek(r)
               \/ Status \/ Attach \/ StopWorker \/ OpenTab
               \/ \E t \in Tabs : CloseTab(t)
        PROVE  FALSE
    BY <1>2, <1>7 DEF Peek, Status, Attach, StopWorker, OpenTab, CloseTab
  <1>8. ~Restart
    BY <1>1 DEF Restart, Idle
  <1> QED BY <1>5, <1>6, <1>7, <1>8 DEF Next

\* assertCanAct admits no act of a run whose takeover stands, whatever status
\* the calls in flight write to its file: only a resume on its tab, or a restart
\* that finds active in the file of a takeover not settled, ends it.
THEOREM TakeoverIsHeld == Spec => TakeoverHolds
  <1>1. IInv /\ [Next]_vars =>
            [\A c \in Slots : Admitted(c) => handover[call[c].run] \in {"none", "lost"}]_vars
    <2> SUFFICES ASSUME IInv, Next, NEW c \in Slots, Admitted(c)
                 PROVE  handover[call[c].run] \in {"none", "lost"}
      OBVIOUS
    <2> DEFINE q == call[c].run
    <2>1. Refreshed[tabOf[q]] = [owner |-> q, lock |-> "locked"]
      BY OnlyActAdmits DEF CanAct, TabOf
    <2>2. /\ q \in Runs /\ handover[q] \in Handovers
          /\ tabOf[q] \in Tabs /\ tabs[tabOf[q]].lock # "unknown"
          /\ tabs \in [Tabs -> TabRecords]
      BY DEF Admitted, IInv, LInv, TypeOK, Known
    <2>3. tabs[tabOf[q]].owner = q /\ tabs[tabOf[q]].lock = "locked"
      BY <2>1, <2>2, RefreshedFacts
    <2>4. q \notin handed
      BY <2>3 DEF IInv, LInv, Locks
    <2> QED BY <2>2, <2>4 DEF handed, Handovers
  <1> QED BY <1>1, Invariance, PTL DEF Spec, TakeoverHolds

====
