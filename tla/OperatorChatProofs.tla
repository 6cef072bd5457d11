---- MODULE OperatorChatProofs ----
(***************************************************************************)
(* What OperatorChat promises, for any number of tasks, plans, turns and   *)
(* inputs: everything is an invariant of the plan's, the review's and the  *)
(* assembly's state between two awaits.                                    *)
(***************************************************************************)
EXTENDS OperatorChat, TLAPS

Pc(t) == task[t].pc

\* Who plans or reviews holds the tools, and a plan that is executed before its
\* coach has answered holds the file's, or is about to.
Held ==
  /\ plan.mode = "plan" => "plan-mode" \in holds
  /\ coach.on => "coach" \in holds
  /\ plan.mode = "exec" /\ Awaiting(plan, coach) =>
       "awaiting-coach" \in holds \/ \E t \in Tasks : Pc(t) = "leave"

\* The model is told so, or will be.
Ordered(text) == pi.text = text \/ \E i \in DOMAIN inbox : inbox[i] = text

\* What says that there is an artifact, and what says that there is a file.
ArtSaid ==
  \/ "coach" \in plan.done \/ Ordered("harvest") \/ "computer-use" \in holds
  \/ \E t \in Tasks : Pc(t) \in {"merge", "accepted"}
FileSaid ==
  "deliver" \in plan.done \/ Ordered("report") \/ file.made \/ \E t \in Tasks : Pc(t) = "copy"

Backed == (ArtSaid => coach.art) /\ (FileSaid => file.disk)

IInv == TypeOK /\ Held /\ Backed /\ AssemblyHasRunner

----------------------------------------------------------------------------
(* The operators the actions are built from.                               *)

Evs == {"none", "turn", "end", "report", "cmd", "void"}

\* A task that goes on keeps all but where it is.
LEMMA AtFacts ==
  ASSUME task \in [Tasks -> TaskStates], NEW t \in Tasks, NEW pc \in Pcs
  PROVE  /\ At(t, pc) \in [Tasks -> TaskStates] /\ At(t, pc)[t].pc = pc
         /\ \A u \in Tasks \ {t} : At(t, pc)[u] = task[u]
  <1> DEFINE new == [[[task[t] EXCEPT !.pc = pc] EXCEPT !.back = "none"] EXCEPT !.ok = FALSE]
  <1>1. task[t] \in TaskStates
    OBVIOUS
  <1>2. new \in TaskStates /\ new.pc = pc
    BY <1>1 DEF TaskStates
  <1>3. At(t, pc) = [task EXCEPT ![t] = new]
    BY DEF At
  <1> HIDE DEF new
  <1> QED BY <1>2, <1>3

LEMMA EndsFacts ==
  ASSUME task \in [Tasks -> TaskStates], NEW t \in Tasks, Ends(t)
  PROVE  /\ task' \in [Tasks -> TaskStates] /\ task'[t].pc = "idle"
         /\ \A u \in Tasks \ {t} : task'[u] = task[u]
  <1>1. Idle \in TaskStates /\ Idle.pc = "idle"
    BY BoundsAreNaturals DEF Idle, TaskStates, Pcs, NoMessage, Messages
  <1> QED BY <1>1 DEF Ends

\* Who is started was free.
LEMMA StartedFacts ==
  ASSUME task \in [Tasks -> TaskStates], SomeFree, NEW ev \in Evs, NEW pc \in Pcs,
         NEW msg \in Messages
  PROVE  /\ Started(ev, pc, msg).t \in Tasks /\ Free(Started(ev, pc, msg).t)
         /\ Started(ev, pc, msg).as \in TaskStates /\ Started(ev, pc, msg).as.pc = pc
  <1>1. PICK u \in Tasks : Free(u)
    BY DEF SomeFree
  <1>2. (CHOOSE v \in Tasks : Free(v)) \in Tasks /\ Free(CHOOSE v \in Tasks : Free(v))
    BY <1>1
  <1>3. Idle \in TaskStates
    BY BoundsAreNaturals DEF Idle, TaskStates, Pcs, NoMessage, Messages
  <1>4. [Idle EXCEPT !.pc = pc, !.ev = ev, !.msg = msg] \in TaskStates
        /\ [Idle EXCEPT !.pc = pc, !.ev = ev, !.msg = msg].pc = pc
    BY <1>3 DEF TaskStates, Evs
  <1>5. /\ Started(ev, pc, msg).t = (CHOOSE v \in Tasks : Free(v))
        /\ Started(ev, pc, msg).as = [Idle EXCEPT !.pc = pc, !.ev = ev, !.msg = msg]
    BY DEF Started
  <1> QED BY <1>2, <1>4, <1>5

\* The others are where they were, or begin.
Others(T) ==
  \A u \in Tasks \ T : \/ Pc(u)' = Pc(u)
                       \/ Pc(u) = "idle" /\ Pc(u)' \in {"begin", "send", "has"}

LEMMA StartsFacts ==
  ASSUME task \in [Tasks -> TaskStates], SomeFree, NEW ev \in Evs, NEW pc \in {"begin", "send", "has"},
         NEW msg \in Messages,
         task' = [task EXCEPT ![Started(ev, pc, msg).t] = Started(ev, pc, msg).as]
  PROVE  task' \in [Tasks -> TaskStates] /\ Others({})
  <1>1. pc \in Pcs
    BY DEF Pcs
  <1> QED BY <1>1, StartedFacts DEF Others, Pc, Free

\* Telling the report that waits moves nobody.
LEMMA ToldFacts ==
  ASSUME coach \in CoachStates, NEW ts \in [Tasks -> TaskStates],
         NEW verdict \in {"pass", "halted", "started"}
  PROVE  Told(ts, verdict) \in [Tasks -> TaskStates] /\ \A u \in Tasks : Told(ts, verdict)[u].pc = ts[u].pc
  <1>1. CASE coach.waiter \notin Tasks
    BY <1>1 DEF Told, CoachStates
  <1>2. CASE coach.waiter \in Tasks
    BY <1>2 DEF Told, TaskStates
  <1> QED BY <1>1, <1>2

\* A prompt is kept or refused, and it is the only one that is new.
LEMMA SendsFacts ==
  ASSUME inbox \in Seq(Texts), Len(inbox) <= MaxInbox, NEW text \in Texts, Sends(text)
  PROVE  /\ inbox' \in Seq(Texts) /\ Len(inbox') <= MaxInbox
         /\ \A i \in DOMAIN inbox' : inbox'[i] = text \/ \E j \in DOMAIN inbox : inbox'[i] = inbox[j]
  <1>1. CASE inbox' = inbox
    BY <1>1
  <1>2. CASE Len(inbox) < MaxInbox /\ inbox' = Append(inbox, text)
    BY <1>2, BoundsAreNaturals
  <1> QED BY <1>1, <1>2 DEF Sends

\* What the constraints that follow the plan hold, and what they leave alone.
LEMMA HoldFacts ==
  ASSUME NEW hs \in SUBSET DOMAIN Disables, NEW p \in PlanStates, NEW c \in CoachStates
  PROVE  /\ SyncComputer(hs, p, c) \in SUBSET DOMAIN Disables
         /\ \A h \in DOMAIN Disables \ {"computer-use"} : h \in SyncComputer(hs, p, c) <=> h \in hs
         /\ "computer-use" \in SyncComputer(hs, p, c) => c.art
         /\ AssembleHold(hs, p, c) \in SUBSET DOMAIN Disables
         /\ \A h \in DOMAIN Disables \ {"computer-use", "host-assemble"} :
              h \in AssembleHold(hs, p, c) <=> h \in hs
         /\ "computer-use" \in AssembleHold(hs, p, c) => c.art
         /\ AwaitingHold(hs, p, c) \in SUBSET DOMAIN Disables
         /\ \A h \in DOMAIN Disables \ {"computer-use", "awaiting-coach"} :
              h \in AwaitingHold(hs, p, c) <=> h \in hs
         /\ "awaiting-coach" \in AwaitingHold(hs, p, c) <=> Awaiting(p, c)
         /\ "computer-use" \in AwaitingHold(hs, p, c) => c.art
  BY DEF Disables, SyncComputer, AssembleHold, AwaitingHold, Hold

\* Marking steps changes what is done, within the plan.
LEMMA MarkedFacts ==
  ASSUME NEW p \in PlanStates, p.done \subseteq p.roles, NEW rs \in SUBSET Roles
  PROVE  /\ Marked(p, rs) \in PlanStates /\ Marked(p, rs).done = p.done \cup (rs \cap p.roles)
         /\ Marked(p, rs).done \subseteq Marked(p, rs).roles
         /\ Marked(p, rs).mode = p.mode /\ Marked(p, rs).roles = p.roles /\ Marked(p, rs).asm = p.asm
         /\ Marked(p, rs).coach = p.coach /\ Marked(p, rs).ready = p.ready
  BY DEF Marked, PlanStates

\* The host's own steps are not before the coach's.
LEMMA BeforeFacts ==
  ASSUME NEW p \in PlanStates
  PROVE  /\ Before("coach", p) \in SUBSET Roles
         /\ "coach" \notin Before("coach", p) /\ "deliver" \notin Before("coach", p)
  <1>1. Before("coach", p) \in SUBSET Roles
    BY DEF Before, PlanStates
  <1>2. Order = <<"scout", "coach", "harvest", "deliver", "report">> /\ DOMAIN Order = 1..5
    BY DEF Order
  <1>3. Rank("coach") = 2
    <2>1. \A i \in DOMAIN Order : Order[i] = "coach" <=> i = 2
      BY <1>2
    <2> QED BY <1>2, <2>1 DEF Rank
  <1>4. Rank("deliver") = 4
    <2>1. \A i \in DOMAIN Order : Order[i] = "deliver" <=> i = 4
      BY <1>2
    <2> QED BY <1>2, <2>1 DEF Rank
  <1> QED BY <1>1, <1>3, <1>4 DEF Before

\* A plan that awaits its coach stays so while the roles and the artifact do.
LEMMA AwaitingFacts ==
  ASSUME NEW p \in PlanStates, NEW c \in CoachStates
  PROVE  Awaiting(p, c) <=> "coach" \in p.roles /\ ~c.art
  BY DEF Awaiting


----------------------------------------------------------------------------
(* What the model's run and the operator do.                               *)

Outside ==
  RunStarts \/ Turn \/ RunEnds \/ CallsReport \/ Prompt \/ Abort \/ PlanCommand \/ PlanFor \/ CoachCommand

LEMMA OutsideTasks ==
  ASSUME TypeOK, Outside
  PROVE  task' \in [Tasks -> TaskStates] /\ Others({})
  <1>1. task \in [Tasks -> TaskStates] /\ pi \in RunStates /\ NoMessage \in Messages
    BY BoundsAreNaturals DEF TypeOK, NoMessage, Messages
  <1>2. CASE RunStarts \/ Prompt \/ Abort \/ PlanCommand
    BY <1>1, <1>2 DEF RunStarts, Prompt, Abort, PlanCommand, Others, Pc
  <1>3. ASSUME NEW ev \in Evs, NEW msg \in Messages, Starts(ev, msg)
        PROVE  task' \in [Tasks -> TaskStates] /\ Others({})
    <2>1. SomeFree /\ task' = [task EXCEPT ![Started(ev, "begin", msg).t] = Started(ev, "begin", msg).as]
      BY <1>3 DEF Starts
    <2> QED BY <1>1, <2>1, StartsFacts
  <1>4. CASE Turn
    <2>1. PICK is \in {"tools", "text", "artifact"} : Starts("turn", [turn |-> pi.turn + 1, is |-> is])
      BY <1>4 DEF Turn
    <2>2. pi.turn + 1 \in 0..MaxMoves
      BY <1>1, <1>4, BoundsAreNaturals DEF Turn, TypeOK, RunStates
    <2>3. [turn |-> pi.turn + 1, is |-> is] \in Messages
      BY <2>2 DEF Messages
    <2> QED BY <1>3, <2>1, <2>3 DEF Evs
  <1>5. CASE RunEnds
    BY <1>1, <1>3, <1>5 DEF RunEnds, Evs, RunStates
  <1>6. CASE CallsReport
    BY <1>1, <1>3, <1>6 DEF CallsReport, Evs
  <1>7. CASE CoachCommand
    BY <1>1, <1>3, <1>7 DEF CoachCommand, Evs
  <1>8. CASE PlanFor
    <2>1. SomeFree /\ task' = [task EXCEPT ![Started("cmd", "send", NoMessage).t] =
                                  Started("cmd", "send", NoMessage).as]
      BY <1>8 DEF PlanFor
    <2> QED BY <1>1, <2>1, StartsFacts DEF Evs
  <1> QED BY <1>2, <1>4, <1>5, <1>6, <1>7, <1>8 DEF Outside

LEMMA OutsideType ==
  ASSUME TypeOK, Outside
  PROVE  TypeOK'
  <1>1. task' \in [Tasks -> TaskStates]
    BY OutsideTasks
  <1>2. /\ pi \in RunStates /\ inbox \in Seq(Texts) /\ inputs \in 0..MaxInputs
        /\ NoMessage \in Messages /\ Len(inbox) <= MaxInbox
    BY BoundsAreNaturals DEF TypeOK, NoMessage, Messages
  <1>3. UNCHANGED <<coach, file>>
    BY DEF Outside, RunStarts, Turn, RunEnds, CallsReport, Prompt, Abort, PlanCommand, PlanFor, CoachCommand
  <1>4. inputs' \in 0..MaxInputs
    <2>1. inputs' = inputs \/ (inputs < MaxInputs /\ inputs' = inputs + 1)
      BY DEF Outside, RunStarts, Turn, RunEnds, CallsReport, Prompt, Abort, PlanCommand, PlanFor,
             CoachCommand, Types
    <2>2. MaxInputs \in Nat
      BY BoundsAreNaturals
    <2> QED BY <1>2, <2>1, <2>2
  <1>5. plan' \in PlanStates /\ plan'.done \subseteq plan'.roles /\ holds' \subseteq DOMAIN Disables
    <2>1. \A mode \in {"off", "plan"} : NewPlan(mode) \in PlanStates /\ NewPlan(mode).done = {}
      BY DEF NewPlan, PlanStates
    <2>2. /\ plan' = plan \/ \E mode \in {"off", "plan"} : plan' = NewPlan(mode)
          /\ holds' \subseteq holds \cup {"plan-mode"}
      BY DEF Outside, RunStarts, Turn, RunEnds, CallsReport, Prompt, Abort, PlanCommand, PlanFor,
             CoachCommand, Enable
    <2> QED BY <2>1, <2>2 DEF TypeOK, Disables
  <1>6. pi' \in RunStates /\ inbox' \in Seq(Texts) /\ Len(inbox') <= MaxInbox
    <2>1. CASE RunStarts
      <3>1. Head(inbox) \in Texts /\ Tail(inbox) \in Seq(Texts) /\ Len(Tail(inbox)) <= MaxInbox
        BY <1>2, <2>1, BoundsAreNaturals DEF RunStarts
      <3>2. /\ pi' = [pi EXCEPT !.st = "run", !.text = Head(inbox), !.said = NoMessage]
            /\ inbox' = Tail(inbox)
        BY <2>1 DEF RunStarts
      <3> QED BY <1>2, <3>1, <3>2 DEF RunStates
    <2>2. CASE Turn
      <3>1. PICK is \in {"tools", "text", "artifact"} :
              /\ pi' = [pi EXCEPT !.turn = pi.turn + 1, !.said = [turn |-> pi.turn + 1, is |-> is],
                                  !.st = IF is = "tools" THEN "run" ELSE "end"]
              /\ inbox' = inbox
        BY <1>2, <2>2 DEF Turn, RunStates
      <3>2. pi.turn + 1 \in 0..MaxMoves
        BY <1>2, <2>2, BoundsAreNaturals DEF Turn, TypeOK, RunStates
      <3>3. [turn |-> pi.turn + 1, is |-> is] \in Messages
        BY <3>2 DEF Messages
      <3> QED BY <1>2, <3>1, <3>2, <3>3 DEF RunStates
    <2>3. CASE RunEnds
      BY <1>2, <2>3 DEF RunEnds, RunStates
    <2>4. CASE Prompt
      BY <1>2, <2>4, BoundsAreNaturals DEF Prompt, Texts
    <2>5. CASE Abort
      BY <1>2, <2>5 DEF Abort, RunStates
    <2>6. CASE CallsReport \/ PlanCommand \/ PlanFor \/ CoachCommand
      BY <1>2, <2>6 DEF CallsReport, PlanCommand, PlanFor, CoachCommand
    <2> QED BY <2>1, <2>2, <2>3, <2>4, <2>5, <2>6 DEF Outside
  <1> QED BY <1>1, <1>3, <1>4, <1>5, <1>6 DEF TypeOK


----------------------------------------------------------------------------
(* What a task does: where it goes, and what it leaves of its types.       *)

Moves(t, pcs) == task' \in [Tasks -> TaskStates] /\ Pc(t)' \in pcs /\ Others({t})

LEMMA MovesFacts ==
  ASSUME task \in [Tasks -> TaskStates], NEW t \in Tasks
  PROVE  /\ \A pc \in Pcs : Goes(t, pc) => Moves(t, {pc})
         /\ Ends(t) => Moves(t, {"idle"})
         /\ \A back \in {"none", "cmd", "steer", "auto", "close"}, ok \in BOOLEAN :
              Returns(t, back, ok) => Moves(t, {"ret"})
         /\ \A new \in TaskStates : task' = [task EXCEPT ![t] = new] => Moves(t, {new.pc})
  <1>1. \A pc \in Pcs : Goes(t, pc) => Moves(t, {pc})
    BY AtFacts DEF Goes, Moves, Others, Pc
  <1>2. Ends(t) => Moves(t, {"idle"})
    BY EndsFacts DEF Moves, Others, Pc
  <1>3. ASSUME NEW new \in TaskStates, task' = [task EXCEPT ![t] = new] PROVE Moves(t, {new.pc})
    BY <1>3 DEF Moves, Others, Pc
  <1>4. ASSUME NEW back \in {"none", "cmd", "steer", "auto", "close"}, NEW ok \in BOOLEAN,
               Returns(t, back, ok)
        PROVE  Moves(t, {"ret"})
    <2> DEFINE new == [[[task[t] EXCEPT !.pc = "ret"] EXCEPT !.back = back] EXCEPT !.ok = ok]
    <2>1. new \in TaskStates /\ new.pc = "ret"
      BY DEF TaskStates, Pcs
    <2>2. task' = [task EXCEPT ![t] = new]
      BY <1>4 DEF Returns
    <2> HIDE DEF new
    <2> QED BY <1>3, <2>1, <2>2
  <1> QED BY <1>1, <1>2, <1>3, <1>4

\* A review is asked for: it is under way, or its digest is compiled.
LEMMA HandleFacts ==
  ASSUME TypeOK, NEW t \in Tasks,
         NEW back \in {"none", "cmd", "steer", "auto", "close"}, HandleCoach(t, back)
  PROVE  Moves(t, {"ret", "compile"})
  <1>1. task \in [Tasks -> TaskStates]
    BY DEF TypeOK
  <1>2. CASE Returns(t, back, FALSE)
    <2>1. Moves(t, {"ret"})
      BY <1>1, <1>2, MovesFacts
    <2> QED BY <2>1 DEF Moves
  <1>3. CASE task' = [task EXCEPT ![t].pc = "compile", ![t].back = back]
    <2> DEFINE new == [[task[t] EXCEPT !.pc = "compile"] EXCEPT !.back = back]
    <2>1. new \in TaskStates /\ new.pc = "compile"
      BY <1>1 DEF TaskStates, Pcs
    <2>2. task' = [task EXCEPT ![t] = new]
      BY <1>3
    <2> HIDE DEF new
    <2>3. Moves(t, {"compile"})
      BY <1>1, <2>1, <2>2, MovesFacts
    <2> QED BY <2>3 DEF Moves
  <1> QED BY <1>2, <1>3 DEF HandleCoach

LEMMA OffFacts ==
  ASSUME NEW c \in CoachStates
  PROVE  ReviewOff(c) \in CoachStates /\ ReviewOff(c).art = c.art /\ ~ReviewOff(c).on
  <1>1. NoMessage \in Messages /\ 0 \in 0..COACH_RETRY_MAX
    BY BoundsAreNaturals DEF COACH_RETRY_MAX, NoMessage, Messages
  <1> DEFINE a == [[c EXCEPT !.on = FALSE] EXCEPT !.tried = NoMessage]
             b == [[a EXCEPT !.rejects = 0] EXCEPT !.rescue = FALSE]
  <1>2. a \in CoachStates /\ a.art = c.art /\ ~a.on
    BY <1>1 DEF CoachStates
  <1>3. ReviewOff(c) = b
    BY DEF ReviewOff
  <1> HIDE DEF a
  <1>4. b \in CoachStates /\ b.art = c.art /\ ~b.on
    BY <1>1, <1>2 DEF CoachStates
  <1> QED BY <1>3, <1>4

----------------------------------------------------------------------------
(* A step that neither takes nor gives anything that is promised.          *)

Calm(T) ==
  /\ Others(T)
  /\ \A t \in T : /\ Pc(t) \notin Assembling \cup {"leave"}
                  /\ Pc(t)' \notin {"merge", "accepted", "copy"}
  /\ plan'.mode = plan.mode /\ plan'.asm = plan.asm
  /\ plan'.roles = plan.roles \/ plan.mode # "exec"
  /\ plan'.done \subseteq plan.done \cup (Roles \ {"coach", "deliver"})
  /\ holds' = holds /\ file' = file
  /\ coach'.art = coach.art
  /\ coach'.on => coach.on
  /\ \A x \in {"harvest", "report"} : Ordered(x)' => Ordered(x)

LEMMA CalmKeeps ==
  ASSUME TypeOK, Held, Backed, AssemblyHasRunner, NEW T \in SUBSET Tasks, Calm(T)
  PROVE  Held' /\ Backed' /\ AssemblyHasRunner'
  <1>1. \A t \in Tasks : /\ Pc(t) \in Assembling \cup {"leave"} => Pc(t)' = Pc(t)
                         /\ Pc(t)' \in {"merge", "accepted", "copy"} => Pc(t)' = Pc(t)
    BY DEF Calm, Others, Assembling
  <1>2. Held'
    BY <1>1 DEF Held, Calm, Awaiting
  <1>3. ArtSaid' => ArtSaid
    BY <1>1 DEF ArtSaid, Calm
  <1>4. FileSaid' => FileSaid
    BY <1>1 DEF FileSaid, Calm
  <1>5. AssemblyHasRunner'
    BY <1>1 DEF AssemblyHasRunner, Calm, Pc
  <1> QED BY <1>2, <1>3, <1>4, <1>5 DEF Backed, Calm

\* What keeps its prompt or has it refused orders nothing else.
LEMMA SendsOrders ==
  ASSUME TypeOK, NEW text \in Texts, Sends(text), pi' = pi, NEW x \in Texts \ {text}, Ordered(x)'
  PROVE  Ordered(x)
  BY SendsFacts DEF Ordered, TypeOK

LEMMA SameOrders ==
  ASSUME inbox' = inbox, pi'.text = pi.text, NEW x, Ordered(x)'
  PROVE  Ordered(x)
  BY DEF Ordered

\* A step that changes the plan only in what it says of itself.
LEMMA PlanCalm ==
  ASSUME TypeOK, NEW t \in Tasks, NEW pcs,
         Moves(t, pcs), pcs \cap {"merge", "accepted", "copy"} = {},
         Pc(t) \notin Assembling \cup {"leave"},
         plan' \in PlanStates, plan'.done \subseteq plan'.roles,
         plan'.mode = plan.mode, plan'.asm = plan.asm,
         plan'.roles = plan.roles \/ plan.mode # "exec",
         plan'.done \subseteq plan.done \cup (Roles \ {"coach", "deliver"}),
         coach' \in CoachStates, coach'.art = coach.art, coach'.on => coach.on,
         UNCHANGED <<file, holds, inputs>>,
         \/ UNCHANGED <<pi, inbox>>
         \/ pi' = pi /\ \E text \in Texts \ {"harvest", "report"} : Sends(text)
         \/ inbox' = inbox /\ pi' = [pi EXCEPT !.st = "end"]
  PROVE  TypeOK' /\ Calm({t})
  <1>1. /\ pi' \in RunStates /\ inbox' \in Seq(Texts) /\ Len(inbox') <= MaxInbox
        /\ \A x \in {"harvest", "report"} : Ordered(x)' => Ordered(x)
    <2>1. pi \in RunStates /\ inbox \in Seq(Texts) /\ Len(inbox) <= MaxInbox
      BY DEF TypeOK
    <2>2. {"harvest", "report"} \subseteq Texts
      BY DEF Texts
    <2>3. CASE UNCHANGED <<pi, inbox>>
      BY <2>1, <2>3, SameOrders
    <2>4. ASSUME pi' = pi, NEW text \in Texts \ {"harvest", "report"}, Sends(text)
          PROVE  /\ pi' \in RunStates /\ inbox' \in Seq(Texts) /\ Len(inbox') <= MaxInbox
                 /\ \A x \in {"harvest", "report"} : Ordered(x)' => Ordered(x)
      BY <2>1, <2>2, <2>4, SendsFacts, SendsOrders
    <2>5. CASE inbox' = inbox /\ pi' = [pi EXCEPT !.st = "end"]
      <3>1. pi' \in RunStates /\ pi'.text = pi.text
        BY <2>1, <2>5 DEF RunStates
      <3> QED BY <2>1, <2>5, <3>1, SameOrders
    <2> QED BY <2>3, <2>4, <2>5
  <1>2. TypeOK'
    BY <1>1 DEF TypeOK, Moves
  <1> QED BY <1>1, <1>2 DEF Calm, Moves

\* A step of the review's that leaves the plan alone.
LEMMA ReviewCalm ==
  ASSUME TypeOK, NEW t \in Tasks, NEW pcs,
         Moves(t, pcs), pcs \cap {"merge", "accepted", "copy"} = {},
         Pc(t) \notin Assembling \cup {"leave"},
         coach' \in CoachStates, coach'.art = coach.art, coach'.on => coach.on,
         UNCHANGED <<plan, file, holds, inputs>>,
         \/ UNCHANGED <<pi, inbox>>
         \/ pi' = pi /\ \E text \in Texts \ {"harvest", "report"} : Sends(text)
         \/ inbox' = inbox /\ pi' = [pi EXCEPT !.st = "end"]
  PROVE  TypeOK' /\ Calm({t})
  <1>1. plan \in PlanStates /\ plan.done \subseteq plan.roles
    BY DEF TypeOK
  <1> QED BY <1>1, PlanCalm

LEMMA CalmReview ==
  ASSUME TypeOK, NEW t \in Tasks,
         \/ SendsTask(t) \/ CompileFails(t) \/ AsksReview(t) \/ MergeThrows(t) \/ Aborted(t)
         \/ Steer(t) \/ Close(t) \/ Reported(t)
  PROVE  TypeOK' /\ Calm({t})
  <1>1. /\ task \in [Tasks -> TaskStates] /\ task[t] \in TaskStates /\ coach \in CoachStates
       
        /\ {"plan", "ret", "waiting", "idle"} \subseteq Pcs
        /\ {"task", "review"} \subseteq Texts \ {"harvest", "report"}
    BY DEF TypeOK, Pcs, Texts
  <1>2. task[t].back \in {"none", "cmd", "steer", "auto", "close"} /\ task[t].pc = Pc(t)
    BY <1>1 DEF TaskStates, Pc
  <1>3. \A pc \in {"send", "compile", "ask", "merge", "aborted", "steer", "close", "waiting"} :
          pc \notin Assembling \cup {"leave"}
    BY DEF Assembling
  <1>4. {"idle", "ret", "compile", "plan", "waiting"} \cap {"merge", "accepted", "copy"} = {}
    OBVIOUS
  <1>5. CASE SendsTask(t)
    <2>1. Moves(t, {"idle"})
      BY <1>1, <1>5, MovesFacts DEF SendsTask
    <2> QED BY <1>1, <1>2, <1>3, <1>5, <2>1, ReviewCalm DEF SendsTask
  <1>12. CASE MergeThrows(t)
    <2>1. Moves(t, {"idle"})
      BY <1>1, <1>12, MovesFacts DEF MergeThrows
    <2> QED BY <1>1, <1>2, <1>3, <1>12, <2>1, ReviewCalm DEF MergeThrows
  <1>6. CASE CompileFails(t)
    <2>1. Moves(t, {"ret"})
      BY <1>1, <1>2, <1>6, MovesFacts DEF CompileFails
    <2> QED BY <1>1, <1>2, <1>3, <1>6, <2>1, ReviewCalm DEF CompileFails
  <1>7. CASE AsksReview(t)
    <2>1. Moves(t, {"ret"})
      BY <1>1, <1>2, <1>7, MovesFacts DEF AsksReview
    <2> QED BY <1>1, <1>2, <1>3, <1>7, <2>1, ReviewCalm DEF AsksReview
  <1>8. CASE Aborted(t)
    <2>1. coach' = [coach EXCEPT !.empty = IF task[t].ok THEN coach.empty + 1 ELSE coach.empty,
                                 !.waiter = NoTask]
      BY <1>1, <1>8 DEF Aborted, CoachStates
    <2>2. coach' \in CoachStates /\ coach'.art = coach.art /\ coach'.on = coach.on
      <3> DEFINE n == IF task[t].ok THEN coach.empty + 1 ELSE coach.empty
                 c == [coach EXCEPT !.empty = n]
      <3>1. n \in Nat
        BY <1>1 DEF CoachStates
      <3>2. coach' = [c EXCEPT !.waiter = NoTask]
        BY <2>1
      <3> HIDE DEF n
      <3>3. c \in CoachStates /\ c.art = coach.art /\ c.on = coach.on
        BY <1>1, <3>1 DEF CoachStates
      <3> HIDE DEF c
      <3> QED BY <3>2, <3>3 DEF CoachStates
    <2>3. Moves(t, {"plan"})
      <3>1. /\ At(t, "plan") \in [Tasks -> TaskStates] /\ At(t, "plan")[t].pc = "plan"
            /\ \A u \in Tasks \ {t} : At(t, "plan")[u] = task[u]
        BY <1>1, AtFacts
      <3>2. task' = Told(At(t, "plan"), "halted")
        BY <1>8 DEF Aborted
      <3> QED BY <1>1, <3>1, <3>2, ToldFacts DEF Moves, Others, Pc
    <2> QED BY <1>1, <1>2, <1>3, <1>8, <2>2, <2>3, ReviewCalm DEF Aborted
  <1>9. CASE Steer(t)
    <2>1. CASE Goes(t, "plan") /\ (UNCHANGED coach \/ coach' = [coach EXCEPT !.halted = TRUE])
      <3>1. coach' \in CoachStates /\ coach'.art = coach.art /\ coach'.on = coach.on
        BY <1>1, <2>1 DEF CoachStates
      <3>2. Moves(t, {"plan"})
        BY <1>1, <2>1, MovesFacts
      <3> QED BY <1>1, <1>2, <1>3, <1>9, <2>1, <3>1, <3>2, ReviewCalm DEF Steer
    <2>2. CASE coach' = [coach EXCEPT !.rescue = TRUE] /\ HandleCoach(t, "steer")
      <3>1. coach' \in CoachStates /\ coach'.art = coach.art /\ coach'.on = coach.on
        BY <1>1, <2>2 DEF CoachStates
      <3>2. Moves(t, {"ret", "compile"})
        BY <2>2, HandleFacts
      <3> QED BY <3>1, <1>2, <1>3, <1>9, <3>2, ReviewCalm DEF Steer
    <2> QED BY <1>9, <2>1, <2>2 DEF Steer
  <1>10. CASE Close(t)
    <2>1. CASE task' = [task EXCEPT ![t].pc = "waiting", ![t].res = "pass"]
               /\ UNCHANGED coach
      <3> DEFINE new == [[task[t] EXCEPT !.pc = "waiting"] EXCEPT !.res = "pass"]
      <3>1. new \in TaskStates /\ new.pc = "waiting"
        BY <1>1 DEF TaskStates
      <3>2. task' = [task EXCEPT ![t] = new]
        BY <2>1
      <3> HIDE DEF new
      <3>3. Moves(t, {"waiting"})
        BY <1>1, <3>1, <3>2, MovesFacts
      <3> QED BY <1>1, <1>2, <1>3, <1>10, <2>1, <3>3, ReviewCalm DEF Close
    <2>2. CASE /\ coach' = [coach EXCEPT !.rescue = TRUE, !.waiter = t]
               /\ HandleCoach(t, "close")
      <3>1. coach' \in CoachStates /\ coach'.art = coach.art /\ coach'.on = coach.on
        BY <1>1, <2>2 DEF CoachStates
      <3>2. Moves(t, {"ret", "compile"})
        BY <2>2, HandleFacts
      <3> QED BY <1>2, <1>3, <1>10, <3>1, <3>2, ReviewCalm DEF Close
    <2> QED BY <1>10, <2>1, <2>2 DEF Close
  <1>11. CASE Reported(t)
    <2>1. Moves(t, {"idle"})
      BY <1>1, <1>11, MovesFacts DEF Reported
    <2>2. UNCHANGED <<pi, inbox>> \/ (inbox' = inbox /\ pi' = [pi EXCEPT !.st = "end"])
      BY <1>11 DEF Reported
    <2> QED BY <1>1, <1>2, <1>3, <1>11, <2>1, <2>2, ReviewCalm DEF Reported
  <1> QED BY <1>5, <1>6, <1>7, <1>8, <1>9, <1>10, <1>11, <1>12


\* The caller of handleCoach goes on.
LEMMA CalmReturn ==
  ASSUME TypeOK, NEW t \in Tasks, Returned(t)
  PROVE  TypeOK' /\ Calm({t})
  <1>1. /\ task \in [Tasks -> TaskStates] /\ task[t] \in TaskStates /\ coach \in CoachStates
        /\ plan \in PlanStates /\ plan.done \subseteq plan.roles
        /\ {"plan", "ret", "waiting", "idle", "assemble"} \subseteq Pcs
    BY DEF TypeOK, Pcs
  <1>2. /\ task[t].ok \in BOOLEAN /\ Pc(t) = "ret" /\ Pc(t) \notin Assembling \cup {"leave"}
        /\ UNCHANGED <<file, holds, pi, inbox, inputs>>
    BY <1>1 DEF TaskStates, Pc, Returned, Assembling
  <1>3. ASSUME coach' \in CoachStates, coach'.art = coach.art, coach'.on = coach.on,
               NEW pc \in {"idle", "plan", "waiting"}, Moves(t, {pc}), UNCHANGED plan
        PROVE  TypeOK' /\ Calm({t})
    <2>1. {pc} \cap {"merge", "accepted", "copy"} = {}
      OBVIOUS
    <2> QED BY <1>1, <1>2, <1>3, <2>1, ReviewCalm
  <1>4. CASE Ends(t) /\ UNCHANGED <<plan, coach>>
    BY <1>1, <1>3, <1>4, MovesFacts
  <1>5. CASE /\ coach' = [coach EXCEPT !.rescue = coach.rescue /\ task[t].ok]
             /\ Goes(t, "plan") /\ UNCHANGED plan
    <2>1. coach' \in CoachStates /\ coach'.art = coach.art /\ coach'.on = coach.on
      BY <1>1, <1>2, <1>5 DEF CoachStates
    <2> QED BY <1>1, <1>3, <1>5, <2>1, MovesFacts
  <1>6. CASE /\ plan' = [plan EXCEPT !.coach = plan.coach /\ task[t].ok]
             /\ Goes(t, "assemble") /\ UNCHANGED coach
    <2>1. /\ plan' \in PlanStates /\ plan'.done = plan.done /\ plan'.roles = plan.roles
          /\ plan'.mode = plan.mode /\ plan'.asm = plan.asm
      BY <1>1, <1>2, <1>6 DEF PlanStates
    <2>2. Moves(t, {"assemble"}) /\ {"assemble"} \cap {"merge", "accepted", "copy"} = {}
      BY <1>1, <1>6, MovesFacts
    <2> QED BY <1>1, <1>2, <1>6, <2>1, <2>2, PlanCalm
  <1>7. CASE Goes(t, "waiting") /\ UNCHANGED <<plan, coach>>
    BY <1>1, <1>3, <1>7, MovesFacts
  <1>8. CASE /\ coach' = [coach EXCEPT !.rescue = FALSE, !.waiter = NoTask]
             /\ task' = [task EXCEPT ![t].pc = "waiting", ![t].res = "pass"] /\ UNCHANGED plan
    <2>1. coach' \in CoachStates /\ coach'.art = coach.art /\ coach'.on = coach.on
      BY <1>1, <1>8 DEF CoachStates
    <2> DEFINE new == [[task[t] EXCEPT !.pc = "waiting"] EXCEPT !.res = "pass"]
    <2>2. new \in TaskStates /\ new.pc = "waiting"
      BY <1>1 DEF TaskStates
    <2>3. task' = [task EXCEPT ![t] = new]
      BY <1>8
    <2> HIDE DEF new
    <2>4. Moves(t, {"waiting"})
      BY <1>1, <2>2, <2>3, MovesFacts
    <2> QED BY <1>3, <1>8, <2>1, <2>4
  <1> QED BY <1>1, <1>4, <1>5, <1>6, <1>7, <1>8 DEF Returned, CoachStates, PlanStates


\* The artifact is read, tried again or given up.
LEMMA ArtifactStep ==
  ASSUME IInv, NEW t \in Tasks, Pc(t) = "begin", coach.on, Artifact(t, task[t].msg),
         UNCHANGED <<plan, file, pi, inputs>>
  PROVE  IInv'
  <1> DEFINE m == task[t].msg
  <1>1. /\ task \in [Tasks -> TaskStates] /\ task[t] \in TaskStates /\ coach \in CoachStates
        /\ m \in Messages /\ TypeOK /\ Held /\ Backed
        /\ AssemblyHasRunner /\ {"plan", "merge", "aborted"} \subseteq Pcs
        /\ Pc(t) \notin Assembling \cup {"leave"} /\ holds \subseteq DOMAIN Disables
    BY DEF IInv, TypeOK, TaskStates, Pcs, Assembling
  <1>3. ASSUME TypeOK', Calm({t}) PROVE IInv'
    BY <1>1, <1>3, CalmKeeps DEF IInv
  <1>4. {"plan"} \cap {"merge", "accepted", "copy"} = {}
    OBVIOUS
  <1>5. CASE Goes(t, "plan") /\ UNCHANGED <<coach, holds, inbox>>
    <2>1. Moves(t, {"plan"})
      BY <1>1, <1>5, MovesFacts
    <2> QED BY <1>1, <1>3, <1>4, <1>5, <2>1, ReviewCalm
  <1>6. CASE /\ coach' = [coach EXCEPT !.tried = m, !.rejects = coach.rejects + 1]
             /\ coach.rejects < COACH_RETRY_MAX /\ Sends("review")
             /\ Goes(t, "plan") /\ UNCHANGED holds
    <2>1. Moves(t, {"plan"})
      BY <1>1, <1>6, MovesFacts
    <2>2. coach.rejects + 1 \in 0..COACH_RETRY_MAX
      BY <1>1, <1>6 DEF CoachStates, COACH_RETRY_MAX
    <2>3. coach' \in CoachStates /\ coach'.art = coach.art /\ coach'.on = coach.on
      BY <1>1, <1>6, <2>2 DEF CoachStates
    <2>4. "review" \in Texts \ {"harvest", "report"}
      BY DEF Texts
    <2> QED BY <1>1, <1>3, <1>4, <1>6, <2>1, <2>3, <2>4, ReviewCalm
  <1>7. CASE /\ coach' = [coach EXCEPT !.tried = m, !.art = TRUE]
             /\ Goes(t, "merge") /\ UNCHANGED <<holds, inbox>>
    <2>1. Moves(t, {"merge"})
      BY <1>1, <1>7, MovesFacts
    <2>2. coach' \in CoachStates /\ coach'.art /\ coach'.on = coach.on
      BY <1>1, <1>7 DEF CoachStates
    <2>3. TypeOK'
      BY <1>1, <1>7, <2>1, <2>2 DEF TypeOK, Moves
    <2>4. Held'
      BY <1>1, <1>7, <2>2 DEF Held, Awaiting
    <2>5. FileSaid' => FileSaid
      BY <1>7, <2>1 DEF FileSaid, Moves, Others, Ordered
    <2>6. AssemblyHasRunner'
      BY <1>1, <1>7, <2>1 DEF AssemblyHasRunner, Moves, Others, Pc, Assembling
    <2> QED BY <1>1, <2>2, <2>3, <2>4, <2>5, <2>6 DEF IInv, Backed
  <1>8. CASE /\ coach' = ReviewOff(coach) /\ holds' = holds \ {"coach"}
             /\ UNCHANGED inbox
             /\ task' = [task EXCEPT ![t].pc = "aborted", ![t].ok = coach.rescue]
    <2> DEFINE new == [[task[t] EXCEPT !.pc = "aborted"] EXCEPT !.ok = coach.rescue]
    <2>1. new \in TaskStates /\ new.pc = "aborted"
      BY <1>1 DEF TaskStates, CoachStates
    <2>2. task' = [task EXCEPT ![t] = new]
      BY <1>8
    <2> HIDE DEF new
    <2>3. Moves(t, {"aborted"})
      BY <1>1, <2>1, <2>2, MovesFacts
    <2>4. coach' \in CoachStates /\ coach'.art = coach.art /\ ~coach'.on
      BY <1>1, <1>8, OffFacts
    <2>5. TypeOK'
      BY <1>1, <1>8, <2>3, <2>4 DEF TypeOK, Moves
    <2>6. Held'
      BY <1>1, <1>8, <2>3, <2>4 DEF Held, Awaiting, Moves, Others
    <2>7. (ArtSaid' => ArtSaid) /\ (FileSaid' => FileSaid)
      BY <1>8, <2>3 DEF ArtSaid, FileSaid, Moves, Others, Ordered
    <2>8. AssemblyHasRunner'
      BY <1>1, <1>8, <2>3 DEF AssemblyHasRunner, Moves, Others, Pc, Assembling
    <2> QED BY <1>1, <2>4, <2>5, <2>6, <2>7, <2>8 DEF IInv, Backed
  <1>9. CASE m.is # "artifact" /\ coach.rejects < COACH_RETRY_MAX
    <2>1. [coach EXCEPT !.tried = m, !.rejects = @ + 1]
            = [coach EXCEPT !.tried = m, !.rejects = coach.rejects + 1]
      BY <1>1 DEF CoachStates
    <2> QED BY <1>5, <1>6, <1>9, <2>1 DEF Artifact
  <1>10. CASE m.is = "artifact" \/ ~(coach.rejects < COACH_RETRY_MAX)
    BY <1>5, <1>7, <1>8, <1>10 DEF Artifact
  <1> QED BY <1>9, <1>10

LEMMA BeginStep ==
  ASSUME IInv, NEW t \in Tasks, Begin(t)
  PROVE  IInv'
  <1>1. /\ task \in [Tasks -> TaskStates] /\ task[t] \in TaskStates /\ coach \in CoachStates
        /\ TypeOK /\ Held /\ Backed
        /\ AssemblyHasRunner /\ {"plan", "close", "waiting", "steer"} \subseteq Pcs
    BY DEF IInv, TypeOK, Pcs
  <1>2. Pc(t) = "begin" /\ Pc(t) \notin Assembling \cup {"leave"} /\ UNCHANGED <<plan, file, inputs>>
    BY DEF Begin, Pc, Assembling
  <1>3. ASSUME TypeOK', Calm({t}) PROVE IInv'
    BY <1>1, <1>3, CalmKeeps DEF IInv
  <1>4. ASSUME NEW pc \in {"plan", "close", "waiting", "steer"}, Moves(t, {pc}),
               UNCHANGED <<coach, holds, inbox, pi>>
        PROVE  IInv'
    <2>1. {pc} \cap {"merge", "accepted", "copy"} = {}
      OBVIOUS
    <2> QED BY <1>1, <1>2, <1>3, <1>4, <2>1, ReviewCalm
  <1>5. CASE task[t].ev = "cmd"
    <2>1. HandleCoach(t, "cmd") /\ UNCHANGED <<coach, holds, inbox, pi>>
      BY <1>5 DEF Begin
    <2>2. Moves(t, {"ret", "compile"})
      BY <1>1, <2>1, HandleFacts
    <2>3. {"ret", "compile"} \cap {"merge", "accepted", "copy"} = {}
      OBVIOUS
    <2> QED BY <1>1, <1>2, <1>3, <2>1, <2>2, <2>3, ReviewCalm
  <1>6. CASE task[t].ev = "report" /\ (coach.halted \/ coach.on)
    <2> DEFINE res == IF coach.halted THEN "halted" ELSE "none"
               new == [[task[t] EXCEPT !.pc = "waiting"] EXCEPT !.res = res]
    <2>1. task' = [task EXCEPT ![t].pc = "waiting", ![t].res = res]
          /\ UNCHANGED <<coach, holds, inbox, pi>>
      BY <1>6 DEF Begin
    <2>2. res \in {"halted", "none"}
      OBVIOUS
    <2> HIDE DEF res
    <2>3. new \in TaskStates /\ new.pc = "waiting"
      BY <1>1, <2>2 DEF TaskStates
    <2>4. task' = [task EXCEPT ![t] = new]
      BY <2>1
    <2> HIDE DEF new
    <2>5. Moves(t, {"waiting"})
      BY <1>1, <2>3, <2>4, MovesFacts
    <2> QED BY <1>4, <2>1, <2>5
  <1>7. CASE task[t].ev = "report" /\ ~coach.halted /\ ~coach.on
    <2>1. Goes(t, "close") /\ UNCHANGED <<coach, holds, inbox, pi>>
      BY <1>7 DEF Begin
    <2>2. Moves(t, {"close"})
      BY <1>1, <2>1, MovesFacts
    <2> QED BY <1>4, <2>1, <2>2
  <1>8. CASE task[t].ev \in {"turn", "end"} /\ coach.on
    <2>1. Artifact(t, task[t].msg) /\ UNCHANGED pi
      BY <1>8 DEF Begin
    <2> QED BY <1>2, <1>8, <2>1, ArtifactStep
  <1>9. CASE task[t].ev \notin {"cmd", "report"} /\ ~(task[t].ev \in {"turn", "end"} /\ coach.on)
    <2>1. Steers(t) /\ UNCHANGED <<coach, holds, inbox, pi>>
      BY <1>9 DEF Begin
    <2>2. Moves(t, {"steer"}) \/ Moves(t, {"plan"})
      BY <1>1, <2>1, MovesFacts DEF Steers
    <2> QED BY <1>4, <2>1, <2>2
  <1> QED BY <1>5, <1>6, <1>7, <1>8, <1>9


----------------------------------------------------------------------------
(* A review begins, and comes to its artifact.                             *)

LEMMA EnableStep ==
  ASSUME IInv, NEW t \in Tasks, EnableReview(t)
  PROVE  IInv'
  <1>1. /\ task \in [Tasks -> TaskStates] /\ task[t] \in TaskStates /\ coach \in CoachStates
        /\ TypeOK /\ Held /\ Backed /\ AssemblyHasRunner /\ "coach" \in DOMAIN Disables
        /\ UNCHANGED <<plan, file, pi, inbox, inputs>>
        /\ Pc(t) = "compile" /\ holds' = holds \cup {"coach"}
    BY DEF IInv, TypeOK, Disables, EnableReview, Pc
  <1>2. Moves(t, {"ask"})
    <2> DEFINE new == [task[t] EXCEPT !.pc = "ask"]
    <2>1. new \in TaskStates /\ new.pc = "ask"
      BY <1>1 DEF TaskStates, Pcs
    <2>2. task' = [task EXCEPT ![t] = new]
      BY DEF EnableReview
    <2> HIDE DEF new
    <2> QED BY <1>1, <2>1, <2>2, MovesFacts
  <1>3. coach' \in CoachStates /\ coach'.art = coach.art
    <2>1. coach' = [coach EXCEPT !.on = TRUE, !.tried = NoMessage, !.rejects = 0]
      BY DEF EnableReview
    <2>2. NoMessage \in Messages /\ 0 \in 0..COACH_RETRY_MAX
      BY BoundsAreNaturals DEF COACH_RETRY_MAX, NoMessage, Messages
    <2> QED BY <1>1, <2>1, <2>2 DEF CoachStates
  <1>4. TypeOK'
    BY <1>1, <1>2, <1>3 DEF TypeOK, Moves
  <1>5. Held'
    BY <1>1, <1>2, <1>3 DEF Held, Awaiting, Moves, Others
  <1>6. (ArtSaid' => ArtSaid) /\ (FileSaid' => FileSaid)
    BY <1>1, <1>2 DEF ArtSaid, FileSaid, Moves, Others, Ordered
  <1>7. AssemblyHasRunner'
    BY <1>1, <1>2 DEF AssemblyHasRunner, Moves, Others, Pc, Assembling
  <1> QED BY <1>1, <1>3, <1>4, <1>5, <1>6, <1>7 DEF IInv, Backed

LEMMA MergedStep ==
  ASSUME IInv, NEW t \in Tasks, Merged(t)
  PROVE  IInv'
  <1>1. /\ task \in [Tasks -> TaskStates] /\ coach \in CoachStates /\ "accepted" \in Pcs
        /\ TypeOK /\ Held /\ Backed /\ AssemblyHasRunner
        /\ UNCHANGED <<plan, file, pi, inbox, inputs>>
        /\ Pc(t) = "merge" /\ holds' = holds \ {"coach"} /\ Goes(t, "accepted")
        /\ coach' = ReviewOff(coach)
    BY DEF IInv, TypeOK, Merged, Pc, Pcs
  <1>2. Moves(t, {"accepted"})
    BY <1>1, MovesFacts
  <1>3. coach' \in CoachStates /\ coach'.art = coach.art /\ ~coach'.on
    BY <1>1, OffFacts
  <1>4. coach.art
    BY <1>1 DEF Backed, ArtSaid
  <1>5. TypeOK'
    BY <1>1, <1>2, <1>3 DEF TypeOK, Moves
  <1>6. Held'
    BY <1>1, <1>3, <1>4 DEF Held, Awaiting
  <1>7. FileSaid' => FileSaid
    BY <1>1, <1>2 DEF FileSaid, Moves, Others, Ordered
  <1>8. AssemblyHasRunner'
    BY <1>1, <1>2 DEF AssemblyHasRunner, Moves, Others, Pc, Assembling
  <1> QED BY <1>1, <1>3, <1>4, <1>5, <1>6, <1>7, <1>8 DEF IInv, Backed

\* The plan's listener of an artifact: the coach's step is done, nothing of the
\* file's is.
LEMMA CoachMarkedFacts ==
  ASSUME TypeOK
  PROVE  /\ CoachMarked(plan) \in PlanStates
         /\ CoachMarked(plan).done \subseteq CoachMarked(plan).roles
         /\ CoachMarked(plan).mode = plan.mode /\ CoachMarked(plan).roles = plan.roles
         /\ CoachMarked(plan).asm = plan.asm
         /\ "deliver" \in CoachMarked(plan).done => "deliver" \in plan.done
  <1>1. plan \in PlanStates /\ plan.done \subseteq plan.roles
    BY DEF TypeOK
  <1>2. Before("coach", plan) \cup {"coach"} \in SUBSET Roles \/ "coach" \notin plan.roles
    BY <1>1, BeforeFacts DEF PlanStates
  <1> QED BY <1>1, <1>2, MarkedFacts, BeforeFacts DEF CoachMarked

LEMMA AcceptedStep ==
  ASSUME IInv, NEW t \in Tasks, Accepted(t)
  PROVE  IInv'
  <1>1. PICK verdict \in {"pass", "halted", "started"} :
          /\ coach' = [coach EXCEPT !.empty = 0, !.waiter = NoTask,
                        !.halted = coach.waiter # NoTask /\ verdict = "halted"]
          /\ OnArtifact(Told(At(t, "plan"), verdict))
    BY DEF Accepted
  <1>2. /\ task \in [Tasks -> TaskStates] /\ coach \in CoachStates /\ "plan" \in Pcs /\ "has" \in Pcs
        /\ plan \in PlanStates /\ plan.done \subseteq plan.roles /\ holds \subseteq DOMAIN Disables
        /\ TypeOK /\ Held /\ Backed /\ AssemblyHasRunner /\ NoMessage \in Messages
        /\ UNCHANGED <<file, pi, inputs>> /\ Pc(t) = "accepted"
    BY BoundsAreNaturals DEF IInv, TypeOK, Accepted, Pc, Pcs, NoMessage, Messages
  <1>3. coach.art
    BY <1>2 DEF Backed, ArtSaid
  <1>4. coach' \in CoachStates /\ coach'.art = coach.art /\ coach'.on = coach.on
    <2> DEFINE h == coach.waiter # NoTask /\ verdict = "halted"
    <2>1. coach' = [coach EXCEPT !.empty = 0, !.waiter = NoTask, !.halted = h] /\ h \in BOOLEAN
      BY <1>1
    <2> HIDE DEF h
    <2> QED BY <1>2, <2>1 DEF CoachStates
  <1> DEFINE ts == Told(At(t, "plan"), verdict)
  <1>5. /\ ts \in [Tasks -> TaskStates] /\ ts[t].pc = "plan"
        /\ \A u \in Tasks \ {t} : ts[u].pc = task[u].pc
    BY <1>2, AtFacts, ToldFacts
  <1>6. OnArtifact(ts)
    BY <1>1
  <1> HIDE DEF ts
  <1>7. CASE plan.mode # "exec"
    <2>1. task' = ts /\ UNCHANGED <<plan, holds, inbox>>
      BY <1>6, <1>7 DEF OnArtifact
    <2>2. Moves(t, {"plan"}) /\ {"plan"} \cap {"merge", "accepted", "copy"} = {}
      BY <1>5, <2>1 DEF Moves, Others, Pc
    <2>3. TypeOK' /\ Calm({t})
      BY <1>2, <1>4, <2>1, <2>2, ReviewCalm DEF Assembling, TypeOK
    <2> QED BY <1>2, <2>3, CalmKeeps DEF IInv
  <1>8. CASE plan.mode = "exec"
    <2> DEFINE p == CoachMarked(plan)
    <2>1. /\ plan' = p /\ holds' = AssembleHold(holds \ {"awaiting-coach"}, p, coach)
          /\ inbox' = inbox \/ Sends("harvest")
          /\ \/ task' = ts
             \/ SomeFree /\ task' = [ts EXCEPT ![Started("void", "has", NoMessage).t] =
                                                 Started("void", "has", NoMessage).as]
      BY <1>6, <1>8 DEF OnArtifact
    <2>2. /\ p \in PlanStates /\ p.done \subseteq p.roles /\ p.mode = plan.mode
          /\ p.roles = plan.roles /\ p.asm = plan.asm
          /\ "deliver" \in p.done => "deliver" \in plan.done
      BY <1>2, CoachMarkedFacts
    <2> HIDE DEF p
    <2>3. holds \ {"awaiting-coach"} \in SUBSET DOMAIN Disables
      BY <1>2
    <2>4. /\ holds' \in SUBSET DOMAIN Disables
          /\ \A h \in {"plan-mode", "coach", "assembling"} : h \in holds' <=> h \in holds
      <3>1. {"plan-mode", "coach", "assembling"} \subseteq DOMAIN Disables \ {"computer-use", "host-assemble"}
        BY DEF Disables
      <3> DEFINE hs == holds \ {"awaiting-coach"}
      <3>2. hs \in SUBSET DOMAIN Disables /\ holds' = AssembleHold(hs, p, coach)
        BY <2>1, <2>3
      <3>3. \A h \in {"plan-mode", "coach", "assembling"} : h \in hs <=> h \in holds
        OBVIOUS
      <3> HIDE DEF hs
      <3> QED BY <1>2, <2>2, <3>1, <3>2, <3>3, HoldFacts
    <2>5. Moves(t, {"plan"})
      <3>1. CASE task' = ts
        BY <1>5, <3>1 DEF Moves, Others, Pc
      <3>2. CASE SomeFree /\ task' = [ts EXCEPT ![Started("void", "has", NoMessage).t] =
                                                 Started("void", "has", NoMessage).as]
        <4>1. /\ Started("void", "has", NoMessage).t \in Tasks
              /\ Free(Started("void", "has", NoMessage).t)
              /\ Started("void", "has", NoMessage).as \in TaskStates
              /\ Started("void", "has", NoMessage).as.pc = "has"
          BY <1>2, <3>2, StartedFacts DEF Evs
        <4>2. Started("void", "has", NoMessage).t # t
          BY <1>2, <4>1 DEF Free, Pc
        <4> QED BY <1>5, <3>2, <4>1, <4>2 DEF Moves, Others, Pc, Free
      <3> QED BY <2>1, <3>1, <3>2
    <2>6. /\ inbox' \in Seq(Texts) /\ Len(inbox') <= MaxInbox
          /\ Ordered("report")' => Ordered("report")
      <3>1. {"harvest", "report"} \subseteq Texts
        BY DEF Texts
      <3> QED BY <1>2, <2>1, <3>1, SendsFacts, SendsOrders, SameOrders DEF TypeOK
    <2>7. TypeOK'
      BY <1>2, <1>4, <2>1, <2>2, <2>4, <2>5, <2>6 DEF TypeOK, Moves
    <2>8. Held'
      BY <1>2, <1>3, <1>4, <1>8, <2>1, <2>2, <2>4 DEF Held, Awaiting
    <2>9. FileSaid' => FileSaid
      BY <1>2, <2>1, <2>2, <2>5, <2>6 DEF FileSaid, Moves, Others
    <2>10. AssemblyHasRunner'
      BY <1>2, <2>1, <2>2, <2>4, <2>5 DEF AssemblyHasRunner, Moves, Others, Pc, Assembling
    <2> QED BY <1>2, <1>3, <1>4, <2>7, <2>8, <2>9, <2>10 DEF IInv, Backed
  <1> QED BY <1>7, <1>8


----------------------------------------------------------------------------
(* The model's run and the operator keep what is promised.                 *)

\* Plan mode comes on or goes off: no plan is left to be executed.
LEMMA NewPlanKeeps ==
  ASSUME TypeOK, Held, Backed, AssemblyHasRunner, Others({}),
         NEW mode \in {"off", "plan"}, plan' = NewPlan(mode),
         mode = "plan" => "plan-mode" \in holds',
         "coach" \in holds => "coach" \in holds', "computer-use" \in holds' => "computer-use" \in holds,
         UNCHANGED <<coach, file, pi, inbox>>
  PROVE  Held' /\ Backed' /\ AssemblyHasRunner'
  <1>1. plan'.mode = mode /\ plan'.done = {}
    BY DEF NewPlan
  <1>2. Held'
    BY <1>1 DEF Held
  <1>3. (ArtSaid' => ArtSaid) /\ (FileSaid' => FileSaid)
    BY <1>1 DEF ArtSaid, FileSaid, Others, Ordered
  <1>4. AssemblyHasRunner'
    BY <1>1 DEF AssemblyHasRunner
  <1> QED BY <1>2, <1>3, <1>4 DEF Backed

LEMMA OutsideStep ==
  ASSUME IInv, Outside
  PROVE  IInv'
  <1>1. TypeOK /\ Held /\ Backed /\ AssemblyHasRunner /\ TypeOK' /\ Others({})
    BY OutsideType, OutsideTasks DEF IInv
  <1>2. /\ pi \in RunStates /\ inbox \in Seq(Texts) /\ plan \in PlanStates
        /\ UNCHANGED <<coach, file>>
    BY <1>1 DEF TypeOK, Outside, RunStarts, Turn, RunEnds, CallsReport, Prompt, Abort, PlanCommand,
                PlanFor, CoachCommand
  <1>3. ASSUME UNCHANGED <<plan, holds>>, \A x \in {"harvest", "report"} : Ordered(x)' => Ordered(x)
        PROVE  IInv'
    <2>1. Calm({})
      BY <1>1, <1>2, <1>3 DEF Calm
    <2> QED BY <1>1, <2>1, CalmKeeps DEF IInv
  <1>4. CASE RunStarts
    <2>1. /\ pi' = [pi EXCEPT !.st = "run", !.text = Head(inbox), !.said = NoMessage]
          /\ inbox # <<>> /\ inbox' = Tail(inbox) /\ UNCHANGED <<plan, holds>>
      BY <1>4 DEF RunStarts
    <2>2. pi'.text = inbox[1] /\ 1 \in DOMAIN inbox
      BY <1>2, <2>1 DEF RunStates
    <2>3. \A i \in DOMAIN inbox' : inbox'[i] = inbox[i + 1] /\ i + 1 \in DOMAIN inbox
      BY <1>2, <2>1
    <2>4. \A x \in {"harvest", "report"} : Ordered(x)' => Ordered(x)
      BY <2>2, <2>3 DEF Ordered
    <2> QED BY <1>3, <2>1, <2>4
  <1>5. CASE Turn \/ RunEnds \/ CallsReport \/ Abort \/ CoachCommand
    <2>1. inbox' = inbox /\ UNCHANGED <<plan, holds>>
      BY <1>5 DEF Turn, RunEnds, CallsReport, Abort, CoachCommand
    <2>2. pi'.text = pi.text \/ pi'.text = "none"
      <3>1. CASE Turn
        <4>1. \E said, st : pi' = [pi EXCEPT !.turn = pi.turn + 1, !.said = said, !.st = st]
          BY <1>2, <3>1 DEF Turn, RunStates
        <4> QED BY <1>2, <4>1 DEF RunStates
      <3>2. CASE RunEnds \/ CallsReport \/ Abort \/ CoachCommand
        BY <1>2, <3>2 DEF RunEnds, CallsReport, Abort, CoachCommand, RunStates
      <3> QED BY <1>5, <3>1, <3>2
    <2>3. \A x \in {"harvest", "report"} : Ordered(x)' => Ordered(x)
      BY <2>1, <2>2 DEF Ordered
    <2> QED BY <1>3, <2>1, <2>3
  <1>6. CASE Prompt
    <2>1. inbox' = <<"task">> /\ pi' = pi /\ UNCHANGED <<plan, holds>>
      BY <1>6 DEF Prompt
    <2>2. \A i \in DOMAIN inbox' : inbox'[i] = "task"
      BY <2>1
    <2>3. \A x \in {"harvest", "report"} : Ordered(x)' => Ordered(x)
      BY <2>1, <2>2 DEF Ordered
    <2> QED BY <1>3, <2>1, <2>3
  <1>7. CASE PlanCommand \/ PlanFor
    <2>1. UNCHANGED <<pi, inbox>>
      BY <1>7 DEF PlanCommand, PlanFor
    <2>2. CASE Enable
      <3>1. plan' = NewPlan("plan") /\ holds' = holds \cup {"plan-mode"}
        BY <2>2 DEF Enable
      <3> QED BY <1>1, <1>2, <2>1, <3>1, NewPlanKeeps DEF IInv
    <2>3. CASE plan' = NewPlan("off")
               /\ holds' = holds \ {"plan-mode", "host-assemble", "assembling", "computer-use"}
      BY <1>1, <1>2, <2>1, <2>3, NewPlanKeeps DEF IInv
    <2>4. CASE UNCHANGED <<plan, holds>>
      BY <1>3, <2>1, <2>4 DEF Ordered
    <2> QED BY <1>7, <2>2, <2>3, <2>4 DEF PlanCommand, PlanFor
  <1> QED BY <1>4, <1>5, <1>6, <1>7 DEF Outside

----------------------------------------------------------------------------
(* Plan mode's handlers.                                                   *)

LEMMA CalmPlan ==
  ASSUME TypeOK, NEW t \in Tasks,
         TurnPlan(t) \/ EndExecuting(t) \/ LooksForFile(t) \/ EndPlanning(t) \/ Keeps(t) \/ AutoCoach(t)
  PROVE  TypeOK' /\ Calm({t})
  <1>1. /\ task \in [Tasks -> TaskStates] /\ task[t] \in TaskStates /\ coach \in CoachStates
        /\ plan \in PlanStates /\ plan.done \subseteq plan.roles
        /\ {"idle", "has", "finish", "select", "assemble"} \subseteq Pcs
        /\ "task" \in Texts \ {"harvest", "report"}
    BY DEF TypeOK, Pcs, Texts
  <1>2. Pc(t) \in {"plan", "assemble", "select", "yield"} /\ Pc(t) \notin Assembling \cup {"leave"}
    BY DEF TurnPlan, EndExecuting, LooksForFile, EndPlanning, Keeps, AutoCoach, Pc, Assembling
  <1>3. ASSUME NEW pc \in {"idle", "has", "finish", "select", "assemble", "yield"}, Moves(t, {pc}),
               UNCHANGED <<plan, coach, file, holds, pi, inputs>>,
               inbox' = inbox \/ Sends("task")
        PROVE  TypeOK' /\ Calm({t})
    <2>1. {pc} \cap {"merge", "accepted", "copy"} = {}
      OBVIOUS
    <2> QED BY <1>1, <1>2, <1>3, <2>1, ReviewCalm
  <1>4. CASE TurnPlan(t)
    <2>1. plan' = plan \/ \E rs \in SUBSET (Roles \ {"coach", "deliver"}) : plan' = Marked(plan, rs)
      BY <1>4 DEF TurnPlan
    <2>2. /\ plan' \in PlanStates /\ plan'.done \subseteq plan'.roles /\ plan'.mode = plan.mode
          /\ plan'.asm = plan.asm /\ plan'.roles = plan.roles
          /\ plan'.done \subseteq plan.done \cup (Roles \ {"coach", "deliver"})
      <3>1. CASE plan' = plan
        BY <1>1, <3>1
      <3>2. ASSUME NEW rs \in SUBSET (Roles \ {"coach", "deliver"}), plan' = Marked(plan, rs)
            PROVE  /\ plan' \in PlanStates /\ plan'.done \subseteq plan'.roles /\ plan'.mode = plan.mode
                   /\ plan'.asm = plan.asm /\ plan'.roles = plan.roles
                   /\ plan'.done \subseteq plan.done \cup (Roles \ {"coach", "deliver"})
        <4>1. rs \in SUBSET Roles
          OBVIOUS
        <4>2. /\ plan' \in PlanStates /\ plan'.done = plan.done \cup (rs \cap plan.roles)
              /\ plan'.done \subseteq plan'.roles /\ plan'.mode = plan.mode
              /\ plan'.asm = plan.asm /\ plan'.roles = plan.roles
          BY <1>1, <3>2, <4>1, MarkedFacts
        <4> QED BY <4>2
      <3> QED BY <2>1, <3>1, <3>2
    <2>3. Moves(t, {"idle"}) /\ {"idle"} \cap {"merge", "accepted", "copy"} = {}
      BY <1>1, <1>4, MovesFacts DEF TurnPlan
    <2> QED BY <1>1, <1>2, <1>4, <2>2, <2>3, PlanCalm DEF TurnPlan
  <1>5. CASE EndExecuting(t)
    <2> DEFINE ok == Before("coach", plan) \cap plan.done # {}
               a == [[task[t] EXCEPT !.pc = "yield"] EXCEPT !.ok = ok]
               b == [task[t] EXCEPT !.pc = "assemble"]
    <2>1. task' = [task EXCEPT ![t] = a] \/ task' = [task EXCEPT ![t] = b]
      BY <1>5 DEF EndExecuting
    <2>2. ok \in BOOLEAN
      OBVIOUS
    <2> HIDE DEF ok
    <2>3. a \in TaskStates /\ a.pc = "yield" /\ b \in TaskStates /\ b.pc = "assemble"
      BY <1>1, <2>2 DEF TaskStates, Pcs
    <2> HIDE DEF a, b
    <2>4. Moves(t, {"yield"}) \/ Moves(t, {"assemble"})
      BY <1>1, <2>1, <2>3, MovesFacts
    <2> QED BY <1>3, <1>5, <2>4 DEF EndExecuting
  <1>6. CASE LooksForFile(t)
    <2>1. Moves(t, {"has"}) \/ Moves(t, {"finish"})
      BY <1>1, <1>6, MovesFacts DEF LooksForFile
    <2> QED BY <1>3, <1>6, <2>1 DEF LooksForFile
  <1>7. CASE EndPlanning(t)
    <2>1. /\ plan' = plan \/ (plan.mode = "plan" /\ \E rs \in Plans :
                                plan' = [plan EXCEPT !.roles = rs, !.done = {}])
          /\ Goes(t, "select") \/ Ends(t)
      BY <1>7 DEF EndPlanning
    <2>2. /\ plan' \in PlanStates /\ plan'.done \subseteq plan'.roles /\ plan'.mode = plan.mode
          /\ plan'.asm = plan.asm /\ (plan'.roles = plan.roles \/ plan.mode # "exec")
          /\ plan'.done \subseteq plan.done
      <3>1. CASE plan' = plan
        BY <1>1, <3>1
      <3>2. ASSUME plan.mode = "plan", NEW rs \in Plans, plan' = [plan EXCEPT !.roles = rs, !.done = {}]
            PROVE  /\ plan' \in PlanStates /\ plan'.done = {} /\ plan'.mode = plan.mode
                   /\ plan'.asm = plan.asm /\ plan'.roles = rs
        <4>1. rs \in SUBSET Roles /\ {} \in SUBSET Roles
          BY PlansAreRoles
        <4> HIDE DEF Roles
        <4> QED BY <1>1, <3>2, <4>1 DEF PlanStates
      <3> QED BY <2>1, <3>1, <3>2
    <2>3. Moves(t, {"select"}) \/ Moves(t, {"idle"})
      BY <1>1, <2>1, MovesFacts
    <2>4. {"idle"} \cap {"merge", "accepted", "copy"} = {} /\ {"select"} \cap {"merge", "accepted", "copy"} = {}
      OBVIOUS
    <2>5. UNCHANGED <<coach, file, holds, pi, inbox, inputs>>
      BY <1>7 DEF EndPlanning
    <2> QED BY <1>1, <1>2, <2>2, <2>3, <2>4, <2>5, PlanCalm
  <1>8. CASE Keeps(t)
    <2>1. Moves(t, {"idle"})
      BY <1>1, <1>8, MovesFacts DEF Keeps
    <2> QED BY <1>3, <1>8, <2>1 DEF Keeps
  <1>9. CASE AutoCoach(t)
    <2>1. CASE Goes(t, "assemble") /\ UNCHANGED plan
      <3>1. Moves(t, {"assemble"})
        BY <1>1, <2>1, MovesFacts
      <3> QED BY <1>3, <1>9, <2>1, <3>1 DEF AutoCoach
    <2>2. CASE /\ plan' = [(IF "coach" \in plan.roles
                              THEN Marked(plan, Before("coach", plan)) ELSE plan) EXCEPT !.coach = TRUE]
               /\ HandleCoach(t, "auto")
      <3> DEFINE p == IF "coach" \in plan.roles THEN Marked(plan, Before("coach", plan)) ELSE plan
      <3>1. /\ p \in PlanStates /\ p.done \subseteq p.roles /\ p.mode = plan.mode
            /\ p.asm = plan.asm /\ p.roles = plan.roles
            /\ p.done \subseteq plan.done \cup (Roles \ {"coach", "deliver"})
        BY <1>1, MarkedFacts, BeforeFacts
      <3>2. plan' = [p EXCEPT !.coach = TRUE]
        BY <2>2
      <3> HIDE DEF p
      <3>3. /\ plan' \in PlanStates /\ plan'.done = p.done /\ plan'.mode = p.mode
            /\ plan'.asm = p.asm /\ plan'.roles = p.roles
        BY <3>1, <3>2 DEF PlanStates
      <3>4. Moves(t, {"ret", "compile"}) /\ UNCHANGED coach
        BY <1>1, <1>9, <2>2, HandleFacts DEF AutoCoach
      <3>5. {"ret", "compile"} \cap {"merge", "accepted", "copy"} = {}
        OBVIOUS
      <3> QED BY <1>1, <1>2, <1>9, <3>1, <3>3, <3>4, <3>5, PlanCalm DEF AutoCoach
    <2> QED BY <1>9, <2>1, <2>2 DEF AutoCoach
  <1> QED BY <1>4, <1>5, <1>6, <1>7, <1>8, <1>9


----------------------------------------------------------------------------
(* The assembly of the file.                                               *)

\* A step of a plan that stays the plan it is.
LEMMA PlanKeeps ==
  ASSUME Held, Backed, NEW t \in Tasks, NEW pcs, Moves(t, pcs),
         pcs \cap {"merge", "accepted"} = {}, Pc(t) # "leave",
         UNCHANGED <<coach, pi>>, plan'.mode = plan.mode, plan'.roles = plan.roles,
         "coach" \in plan'.done => "coach" \in plan.done,
         "deliver" \in plan'.done => "deliver" \in plan.done \/ file'.disk,
         file.disk => file'.disk, file'.made => file.made \/ file'.disk,
         "copy" \in pcs => file'.disk,
         \A h \in {"plan-mode", "coach", "awaiting-coach"} : h \in holds => h \in holds',
         "computer-use" \in holds' => "computer-use" \in holds \/ coach.art,
         Ordered("harvest")' => Ordered("harvest"),
         Ordered("report")' => Ordered("report") \/ file'.disk
  PROVE  Held' /\ Backed'
  <1>1. Held'
    BY DEF Held, Awaiting, Moves, Others
  <1>2. ArtSaid' => ArtSaid \/ coach.art
    BY DEF ArtSaid, Moves, Others
  <1>3. FileSaid' => FileSaid \/ file'.disk
    BY DEF FileSaid, Moves, Others
  <1> QED BY <1>1, <1>2, <1>3 DEF Backed

\* Somebody is at the assembly, or nothing is held for it.
LEMMA RunnerKeeps ==
  ASSUME AssemblyHasRunner, NEW t \in Tasks, NEW pcs, Moves(t, pcs),
         \/ plan'.asm # "begun" \/ "assembling" \notin holds' \/ plan'.mode # "exec"
         \/ pcs \subseteq Assembling
         \/ /\ Pc(t) \notin Assembling /\ plan'.mode = plan.mode
            /\ plan'.asm = "begun" => plan.asm = "begun"
            /\ "assembling" \in holds' => "assembling" \in holds
  PROVE  AssemblyHasRunner'
  BY DEF AssemblyHasRunner, Moves, Others, Pc, Assembling

LEMMA AfterFacts ==
  ASSUME task \in [Tasks -> TaskStates], NEW t \in Tasks, AfterAssemble(t)
  PROVE  Moves(t, {"idle", "finish"})
  <1>1. "finish" \in Pcs
    BY DEF Pcs
  <1>2. Moves(t, {"idle"}) \/ Moves(t, {"finish"})
    BY <1>1, MovesFacts DEF AfterAssemble
  <1> QED BY <1>2 DEF Moves

\* The plan with its file's step done.
LEMMA ReadyFacts ==
  ASSUME TypeOK
  PROVE  LET p == [Marked(plan, {"deliver"}) EXCEPT !.ready = TRUE]
         IN  /\ p \in PlanStates /\ p.done \subseteq p.roles
             /\ p.mode = plan.mode /\ p.roles = plan.roles /\ p.asm = plan.asm
             /\ p.done \subseteq plan.done \cup {"deliver"}
  <1> DEFINE q == Marked(plan, {"deliver"})
             p == [q EXCEPT !.ready = TRUE]
  <1>1. plan \in PlanStates /\ plan.done \subseteq plan.roles /\ {"deliver"} \in SUBSET Roles
    BY DEF TypeOK, Roles, Order
  <1>2. /\ q \in PlanStates /\ q.done = plan.done \cup ({"deliver"} \cap plan.roles)
        /\ q.done \subseteq q.roles
        /\ q.mode = plan.mode /\ q.roles = plan.roles /\ q.asm = plan.asm
    BY <1>1, MarkedFacts
  <1> HIDE DEF q
  <1>3. p \in PlanStates /\ p.done = q.done /\ p.roles = q.roles /\ p.mode = q.mode /\ p.asm = q.asm
    BY <1>2 DEF PlanStates
  <1>4. p.done \subseteq plan.done \cup {"deliver"} /\ p.done \subseteq p.roles
    BY <1>2, <1>3
  <1> HIDE DEF p
  <1>5. p \in PlanStates /\ p.mode = plan.mode /\ p.roles = plan.roles /\ p.asm = plan.asm
    BY <1>2, <1>3
  <1> QED BY <1>4, <1>5 DEF p, q

LEMMA HasFileStep ==
  ASSUME IInv, NEW t \in Tasks, HasFile(t)
  PROVE  IInv'
  <1> DEFINE p == [Marked(plan, {"deliver"}) EXCEPT !.ready = TRUE]
  <1>1. /\ task \in [Tasks -> TaskStates] /\ coach \in CoachStates /\ holds \in SUBSET DOMAIN Disables
        /\ TypeOK /\ Held /\ Backed /\ AssemblyHasRunner
        /\ UNCHANGED <<coach, file, pi, inbox, inputs>>
        /\ Pc(t) = "has" /\ plan' = p /\ holds' = AssembleHold(holds, p, coach)
        /\ AfterAssemble(t) /\ (file.made \/ file.disk)
    BY DEF IInv, TypeOK, HasFile, Pc
  <1>2. /\ p \in PlanStates /\ p.done \subseteq p.roles
        /\ p.mode = plan.mode /\ p.roles = plan.roles /\ p.asm = plan.asm
        /\ p.done \subseteq plan.done \cup {"deliver"}
    BY <1>1, ReadyFacts
  <1> HIDE DEF p
  <1>3. Moves(t, {"idle", "finish"})
    BY <1>1, AfterFacts
  <1>4. {"plan-mode", "coach", "awaiting-coach", "assembling"}
           \subseteq DOMAIN Disables \ {"computer-use", "host-assemble"}
    BY DEF Disables
  <1>5. /\ holds' \in SUBSET DOMAIN Disables
        /\ \A h \in {"plan-mode", "coach", "awaiting-coach", "assembling"} : h \in holds' <=> h \in holds
        /\ "computer-use" \in holds' => coach.art
    BY <1>1, <1>2, <1>4, HoldFacts
  <1>6. file.disk
    BY <1>1 DEF Backed, FileSaid
  <1>7. TypeOK'
    BY <1>1, <1>2, <1>3, <1>5 DEF TypeOK, Moves
  <1>8. Held' /\ Backed'
    BY <1>1, <1>2, <1>3, <1>5, <1>6, PlanKeeps DEF Ordered
  <1>9. AssemblyHasRunner'
    BY <1>1, <1>2, <1>3, <1>5, RunnerKeeps DEF Assembling
  <1> QED BY <1>7, <1>8, <1>9 DEF IInv

LEMMA NoFileStep ==
  ASSUME IInv, NEW t \in Tasks, NoFile(t)
  PROVE  IInv'
  <1> DEFINE p == [plan EXCEPT !.asm = "begun"]
  <1>1. /\ task \in [Tasks -> TaskStates] /\ coach \in CoachStates /\ holds \in SUBSET DOMAIN Disables
        /\ TypeOK /\ Held /\ Backed /\ AssemblyHasRunner
        /\ UNCHANGED <<coach, file, pi, inbox, inputs>> /\ plan \in PlanStates
        /\ Pc(t) = "has" /\ plan' = p /\ holds' = SyncComputer(holds, p, coach) \cup {"assembling"}
        /\ Goes(t, "unmade") \/ Goes(t, "list")
        /\ plan.done \subseteq plan.roles /\ {"unmade", "list"} \subseteq Pcs
    BY DEF IInv, TypeOK, NoFile, Pc, Pcs, Assembling
  <1>2. /\ p \in PlanStates /\ p.done = plan.done /\ p.mode = plan.mode /\ p.roles = plan.roles
    BY <1>1 DEF PlanStates
  <1> HIDE DEF p
  <1>3. Moves(t, {"unmade", "list"})
    <2>1. Moves(t, {"unmade"}) \/ Moves(t, {"list"})
      BY <1>1, MovesFacts
    <2> QED BY <2>1 DEF Moves
  <1>4. /\ {"plan-mode", "coach", "awaiting-coach"} \subseteq DOMAIN Disables \ {"computer-use"}
        /\ "assembling" \in DOMAIN Disables
    BY DEF Disables
  <1>5. /\ holds' \in SUBSET DOMAIN Disables
        /\ \A h \in {"plan-mode", "coach", "awaiting-coach"} : h \in holds => h \in holds'
        /\ "computer-use" \in holds' => coach.art
    BY <1>1, <1>2, <1>4, HoldFacts
  <1>6. TypeOK'
    BY <1>1, <1>2, <1>3, <1>5 DEF TypeOK, Moves
  <1>7. Held' /\ Backed'
    BY <1>1, <1>2, <1>3, <1>5, PlanKeeps DEF Ordered
  <1>8. AssemblyHasRunner'
    BY <1>1, <1>3, RunnerKeeps DEF Assembling
  <1> QED BY <1>6, <1>7, <1>8 DEF IInv

\* The plan's listener of a file that is there.
LEMMA DeliverableStep ==
  ASSUME IInv, NEW t \in Tasks, Pc(t) \in Assembling, file.disk,
         file' = [file EXCEPT !.made = TRUE], OnDeliverable, AfterAssemble(t),
         UNCHANGED <<coach, pi, inputs>>
  PROVE  IInv'
  <1>1. /\ task \in [Tasks -> TaskStates] /\ holds \in SUBSET DOMAIN Disables /\ plan \in PlanStates
        /\ TypeOK /\ Held /\ Backed /\ AssemblyHasRunner /\ plan.done \subseteq plan.roles
        /\ Pc(t) # "leave" /\ {"report", "harvest"} \subseteq Texts
    BY DEF IInv, TypeOK, Assembling, Texts
  <1>2. Moves(t, {"idle", "finish"})
    BY <1>1, AfterFacts
  <1>3. file' \in [busy : BOOLEAN, made : BOOLEAN, disk : BOOLEAN] /\ file'.disk
    BY <1>1 DEF TypeOK
  <1>4. CASE plan.mode # "exec"
    <2>1. UNCHANGED <<plan, holds, inbox>>
      BY <1>4 DEF OnDeliverable
    <2>2. TypeOK'
      BY <1>1, <1>2, <1>3, <2>1 DEF TypeOK, Moves
    <2>3. Held' /\ Backed'
      BY <1>1, <1>2, <1>3, <2>1, PlanKeeps DEF Ordered
    <2>4. AssemblyHasRunner'
      BY <1>1, <1>2, <1>4, <2>1, RunnerKeeps
    <2> QED BY <2>2, <2>3, <2>4 DEF IInv
  <1>5. CASE plan.mode = "exec"
    <2> DEFINE p == [Marked(plan, {"deliver"}) EXCEPT !.ready = TRUE]
    <2>1. /\ plan' = p /\ holds' = holds \ {"assembling", "host-assemble"}
          /\ inbox' = inbox \/ Sends("report")
      BY <1>5 DEF OnDeliverable
    <2>2. /\ p \in PlanStates /\ p.done \subseteq p.roles
          /\ p.mode = plan.mode /\ p.roles = plan.roles /\ p.asm = plan.asm
          /\ p.done \subseteq plan.done \cup {"deliver"}
      BY <1>1, ReadyFacts
    <2> HIDE DEF p
    <2>3. /\ inbox' \in Seq(Texts) /\ Len(inbox') <= MaxInbox
          /\ Ordered("harvest")' => Ordered("harvest")
      BY <1>1, <2>1, SendsFacts, SendsOrders, SameOrders DEF TypeOK
    <2>4. TypeOK'
      BY <1>1, <1>2, <1>3, <2>1, <2>2, <2>3 DEF TypeOK, Moves
    <2>5. Held' /\ Backed'
      BY <1>1, <1>2, <1>3, <2>1, <2>2, <2>3, PlanKeeps
    <2>6. AssemblyHasRunner'
      BY <1>1, <1>2, <2>1, RunnerKeeps
    <2> QED BY <2>4, <2>5, <2>6 DEF IInv
  <1> QED BY <1>4, <1>5

\* The coder, and the looks before and after it.
LEMMA CoderStep ==
  ASSUME IInv, NEW t \in Tasks, Listed(t) \/ CoderEnds(t) \/ Relisted(t) \/ Copied(t)
  PROVE  IInv'
  <1>1. /\ task \in [Tasks -> TaskStates] /\ {"coder", "relist", "unmade", "copy"} \subseteq Pcs
        /\ TypeOK /\ Held /\ Backed /\ AssemblyHasRunner
        /\ file \in [busy : BOOLEAN, made : BOOLEAN, disk : BOOLEAN]
        /\ Pc(t) \in Assembling /\ Pc(t) # "leave" /\ UNCHANGED <<coach, pi, inputs>>
    BY DEF IInv, TypeOK, Pcs, Assembling, Listed, CoderEnds, Relisted, Copied, Pc
  <1>2. CASE Copied(t)
    <2>1. file.disk
      BY <1>1, <1>2 DEF Copied, Backed, FileSaid, Pc
    <2> QED BY <1>1, <1>2, <2>1, DeliverableStep DEF Copied
  <1>3. CASE Listed(t) /\ file.disk
    BY <1>1, <1>3, DeliverableStep DEF Listed
  <1>4. CASE CoderEnds(t) \/ Relisted(t) \/ (Listed(t) /\ ~file.disk)
    <2>1. PICK pc \in {"coder", "relist", "unmade", "copy"} :
            /\ Goes(t, pc) /\ (pc = "copy" => file.disk)
            /\ UNCHANGED <<plan, holds, inbox>>
            /\ \/ file' = file
               \/ \E b \in BOOLEAN : file' = [file EXCEPT !.busy = b]
               \/ file' = [file EXCEPT !.disk = TRUE]
      BY <1>4 DEF CoderEnds, Relisted, Listed
    <2>2. Moves(t, {pc})
      BY <1>1, <2>1, MovesFacts
    <2>3. /\ file' \in [busy : BOOLEAN, made : BOOLEAN, disk : BOOLEAN]
          /\ file.disk => file'.disk
          /\ file'.made = file.made
      BY <1>1, <2>1
    <2>4. TypeOK'
      BY <1>1, <2>1, <2>2, <2>3 DEF TypeOK, Moves
    <2>5. Held' /\ Backed'
      <3>1. {pc} \cap {"merge", "accepted"} = {}
        OBVIOUS
      <3> QED BY <1>1, <2>1, <2>2, <2>3, <3>1, PlanKeeps DEF Ordered
    <2>6. AssemblyHasRunner'
      BY <1>1, <2>2, RunnerKeeps DEF Assembling
    <2> QED BY <2>4, <2>5, <2>6 DEF IInv
  <1> QED BY <1>2, <1>3, <1>4

\* The assembly throws: what it stood for is lost, and the task gone.
LEMMA ThrowsStep ==
  ASSUME IInv, NEW t \in Tasks, AssemblyThrows(t)
  PROVE  IInv'
  <1> DEFINE p == [plan EXCEPT !.asm = "lost"]
  <1>1. /\ task \in [Tasks -> TaskStates] /\ plan \in PlanStates /\ plan.done \subseteq plan.roles
        /\ TypeOK /\ Held /\ Backed /\ AssemblyHasRunner
        /\ Pc(t) # "leave" /\ Ends(t) /\ UNCHANGED <<coach, file, holds, pi, inbox, inputs>>
    BY DEF IInv, TypeOK, AssemblyThrows, Pc
  <1>2. Moves(t, {"idle"})
    BY <1>1, MovesFacts
  <1>3. /\ p \in PlanStates /\ p.done = plan.done /\ p.mode = plan.mode /\ p.roles = plan.roles
        /\ p.asm = "lost"
    BY <1>1 DEF PlanStates
  <1>4. plan' = p \/ (plan' = plan /\ (Pc(t) = "has" \/ plan.asm # "begun"))
    BY DEF AssemblyThrows, Pc
  <1> HIDE DEF p
  <1>5. TypeOK'
    BY <1>1, <1>2, <1>3, <1>4 DEF TypeOK, Moves
  <1>6. Held' /\ Backed'
    BY <1>1, <1>2, <1>3, <1>4, PlanKeeps DEF Ordered
  <1>7. AssemblyHasRunner'
    BY <1>1, <1>2, <1>3, <1>4, RunnerKeeps DEF Assembling
  <1> QED BY <1>5, <1>6, <1>7 DEF IInv

\* The parent has its tools back.
LEMMA UnmadeStep ==
  ASSUME IInv, NEW t \in Tasks, Unmade(t)
  PROVE  IInv'
  <1> DEFINE p == [plan EXCEPT !.asm = "no"]
             hs == holds \ {"assembling"}
  <1>1. /\ task \in [Tasks -> TaskStates] /\ coach \in CoachStates /\ holds \in SUBSET DOMAIN Disables
        /\ TypeOK /\ Held /\ Backed /\ AssemblyHasRunner
        /\ UNCHANGED <<coach, file, pi, inbox, inputs>> /\ plan \in PlanStates
        /\ Pc(t) = "unmade" /\ plan' = p /\ holds' = AssembleHold(hs, p, coach)
        /\ AfterAssemble(t) /\ plan.done \subseteq plan.roles
    BY DEF IInv, TypeOK, Unmade, Pc
  <1>2. /\ p \in PlanStates /\ p.done = plan.done /\ p.mode = plan.mode /\ p.roles = plan.roles
        /\ p.asm = "no" /\ hs \in SUBSET DOMAIN Disables
    BY <1>1 DEF PlanStates
  <1>4. \A h \in {"plan-mode", "coach", "awaiting-coach"} : h \in holds => h \in hs
    OBVIOUS
  <1> HIDE DEF p, hs
  <1>5. Moves(t, {"idle", "finish"})
    BY <1>1, AfterFacts
  <1>6. {"plan-mode", "coach", "awaiting-coach"} \subseteq DOMAIN Disables \ {"computer-use", "host-assemble"}
    BY DEF Disables
  <1>7. /\ holds' \in SUBSET DOMAIN Disables
        /\ \A h \in {"plan-mode", "coach", "awaiting-coach"} : h \in holds => h \in holds'
        /\ "computer-use" \in holds' => coach.art
    BY <1>1, <1>2, <1>4, <1>6, HoldFacts
  <1>8. TypeOK'
    BY <1>1, <1>2, <1>5, <1>7 DEF TypeOK, Moves
  <1>9. Held' /\ Backed'
    BY <1>1, <1>2, <1>5, <1>7, PlanKeeps DEF Ordered
  <1>10. AssemblyHasRunner'
    BY <1>1, <1>2, <1>5, RunnerKeeps
  <1> QED BY <1>8, <1>9, <1>10 DEF IInv

\* The end of agent_end: the plan goes on as it is, or is over.
LEMMA FinishStep ==
  ASSUME IInv, NEW t \in Tasks, Finish(t)
  PROVE  IInv'
  <1> DEFINE hs == AssembleHold(holds, plan, coach)
  <1>1. /\ task \in [Tasks -> TaskStates] /\ coach \in CoachStates /\ holds \in SUBSET DOMAIN Disables
        /\ TypeOK /\ Held /\ Backed /\ AssemblyHasRunner
        /\ UNCHANGED <<coach, file, pi, inbox, inputs>> /\ plan \in PlanStates
        /\ Pc(t) = "finish" /\ plan.done \subseteq plan.roles
        /\ \/ plan.roles # plan.done /\ holds' = hs /\ plan' = plan
           \/ /\ plan' = NewPlan(IF plan.mode = "exec" THEN "off" ELSE plan.mode)
              /\ holds' = hs \ {"host-assemble", "assembling"}
    BY DEF IInv, TypeOK, Finish, Pc
  <1>2. Moves(t, {"idle"})
    BY <1>1, MovesFacts DEF Finish
  <1>3. {"plan-mode", "coach", "awaiting-coach", "assembling"}
           \subseteq DOMAIN Disables \ {"computer-use", "host-assemble"}
    BY DEF Disables
  <1>4. /\ hs \in SUBSET DOMAIN Disables
        /\ \A h \in {"plan-mode", "coach", "awaiting-coach", "assembling"} : h \in hs <=> h \in holds
        /\ "computer-use" \in hs => coach.art
    BY <1>1, <1>3, HoldFacts
  <1> HIDE DEF hs
  <1>5. CASE holds' = hs /\ plan' = plan
    <2>1. TypeOK'
      BY <1>1, <1>2, <1>4, <1>5 DEF TypeOK, Moves
    <2>2. Held' /\ Backed'
      BY <1>1, <1>2, <1>4, <1>5, PlanKeeps DEF Ordered
    <2>3. AssemblyHasRunner'
      BY <1>1, <1>2, <1>4, <1>5, RunnerKeeps DEF Assembling
    <2> QED BY <2>1, <2>2, <2>3 DEF IInv
  <1>6. CASE /\ plan' = NewPlan(IF plan.mode = "exec" THEN "off" ELSE plan.mode)
             /\ holds' = hs \ {"host-assemble", "assembling"}
    <2>1. /\ plan' \in PlanStates /\ plan'.done = {} /\ plan'.mode # "exec" /\ plan'.asm = "no"
          /\ plan'.mode = "plan" => plan.mode = "plan"
      BY <1>1, <1>6 DEF NewPlan, PlanStates
    <2>2. TypeOK'
      BY <1>1, <1>2, <1>4, <1>6, <2>1 DEF TypeOK, Moves
    <2>3. Held'
      BY <1>1, <1>4, <1>6, <2>1 DEF Held
    <2>4. ArtSaid' => ArtSaid \/ coach.art
      BY <1>1, <1>2, <1>4, <1>6, <2>1 DEF ArtSaid, Moves, Others, Ordered
    <2>5. FileSaid' => FileSaid
      BY <1>1, <1>2, <2>1 DEF FileSaid, Moves, Others, Ordered
    <2>6. AssemblyHasRunner'
      BY <2>1 DEF AssemblyHasRunner
    <2> QED BY <1>1, <2>2, <2>3, <2>4, <2>5, <2>6 DEF IInv, Backed
  <1> QED BY <1>1, <1>5, <1>6



----------------------------------------------------------------------------
(* The plan is executed.                                                   *)

\* The operator's answer is Execute: the task at "leave" stands for the hold
\* that a plan awaiting its coach is to have.
LEMMA ExecuteStep ==
  ASSUME IInv, NEW t \in Tasks, Execute(t)
  PROVE  IInv'
  <1>1. /\ task \in [Tasks -> TaskStates] /\ TypeOK /\ Held /\ Backed /\ AssemblyHasRunner
        /\ UNCHANGED <<coach, file, pi, inbox, inputs>> /\ plan \in PlanStates
        /\ Pc(t) = "select" /\ plan.done \subseteq plan.roles /\ "leave" \in Pcs
    BY DEF IInv, TypeOK, Execute, Pc, Pcs
  <1>2. CASE plan.roles = {}
    <2>1. Ends(t) /\ UNCHANGED <<plan, holds>>
      BY <1>2 DEF Execute
    <2>2. Moves(t, {"idle"})
      BY <1>1, <2>1, MovesFacts
    <2>3. TypeOK'
      BY <1>1, <2>1, <2>2 DEF TypeOK, Moves
    <2>4. Held' /\ Backed'
      BY <1>1, <2>1, <2>2, PlanKeeps DEF Ordered
    <2>5. AssemblyHasRunner'
      BY <1>1, <2>1, <2>2, RunnerKeeps DEF Assembling
    <2> QED BY <2>3, <2>4, <2>5 DEF IInv
  <1>3. CASE plan.roles # {}
    <2> DEFINE a == [plan EXCEPT !.mode = "exec"]
               b == [a EXCEPT !.coach = FALSE]
               p == [b EXCEPT !.asm = "no"]
    <2>1. Goes(t, "leave") /\ plan' = p /\ holds' = holds \ {"plan-mode"}
      BY <1>3 DEF Execute
    <2>2. Moves(t, {"leave"})
      BY <1>1, <2>1, MovesFacts
    <2>3. a \in PlanStates /\ a.done = plan.done /\ a.mode = "exec" /\ a.roles = plan.roles
      BY <1>1 DEF PlanStates
    <2> HIDE DEF a
    <2>4. b \in PlanStates /\ b.done = plan.done /\ b.mode = "exec" /\ b.roles = plan.roles
      BY <2>3 DEF PlanStates
    <2> HIDE DEF b
    <2>5. p \in PlanStates /\ p.done = plan.done /\ p.mode = "exec" /\ p.roles = plan.roles /\ p.asm = "no"
      BY <2>4 DEF PlanStates
    <2> HIDE DEF p
    <2>6. TypeOK'
      BY <1>1, <2>1, <2>2, <2>5 DEF TypeOK, Moves
    <2>7. Held'
      BY <1>1, <2>1, <2>2, <2>5 DEF Held, Moves
    <2>8. (ArtSaid' => ArtSaid) /\ (FileSaid' => FileSaid)
      BY <1>1, <2>1, <2>2, <2>5 DEF ArtSaid, FileSaid, Moves, Others, Ordered
    <2>9. AssemblyHasRunner'
      BY <2>1, <2>5 DEF AssemblyHasRunner
    <2> QED BY <1>1, <2>6, <2>7, <2>8, <2>9 DEF IInv, Backed
  <1> QED BY <1>2, <1>3

\* Execute's end: the hold is there when its task is gone.
LEMMA ExecutingStep ==
  ASSUME IInv, NEW t \in Tasks, Executing(t)
  PROVE  IInv'
  <1> DEFINE hs == AwaitingHold(holds, plan, coach)
  <1>1. /\ task \in [Tasks -> TaskStates] /\ coach \in CoachStates /\ holds \in SUBSET DOMAIN Disables
        /\ TypeOK /\ Held /\ Backed /\ AssemblyHasRunner
        /\ UNCHANGED <<plan, coach, file, pi, inputs>> /\ plan \in PlanStates
        /\ Pc(t) = "leave" /\ holds' = AssembleHold(hs, plan, coach) /\ Ends(t)
        /\ {"scout", "harvest", "all", "report"} \subseteq Texts
    BY DEF IInv, TypeOK, Executing, Pc, Texts
  <1>2. Moves(t, {"idle"})
    BY <1>1, MovesFacts
  <1>3. /\ {"plan-mode", "coach", "assembling"} \subseteq DOMAIN Disables \ {"computer-use", "awaiting-coach"}
        /\ {"plan-mode", "coach", "assembling", "awaiting-coach"}
             \subseteq DOMAIN Disables \ {"computer-use", "host-assemble"}
    BY DEF Disables
  <1>4. /\ hs \in SUBSET DOMAIN Disables
        /\ \A h \in {"plan-mode", "coach", "assembling"} : h \in hs <=> h \in holds
        /\ "awaiting-coach" \in hs <=> Awaiting(plan, coach)
    BY <1>1, <1>3, HoldFacts
  <1> HIDE DEF hs
  <1>5. /\ holds' \in SUBSET DOMAIN Disables
        /\ \A h \in {"plan-mode", "coach", "assembling", "awaiting-coach"} : h \in holds' <=> h \in hs
        /\ "computer-use" \in holds' => coach.art
    BY <1>1, <1>3, <1>4, HoldFacts
  <1>6. PICK text \in {"scout", "harvest", "all"} : Sends(text) /\ (text = "harvest" => coach.art)
    <2>1. CASE Awaiting(plan, coach)
      BY <2>1 DEF Executing
    <2>2. CASE ~Awaiting(plan, coach) /\ coach.art
      BY <2>2 DEF Executing
    <2>3. CASE ~Awaiting(plan, coach) /\ ~coach.art
      BY <2>3 DEF Executing
    <2> QED BY <2>1, <2>2, <2>3
  <1>7. inbox' \in Seq(Texts) /\ Len(inbox') <= MaxInbox
    BY <1>1, <1>6, SendsFacts DEF TypeOK
  <1>8. /\ Ordered("report")' => Ordered("report")
        /\ Ordered("harvest")' => Ordered("harvest") \/ coach.art
    <2>1. "report" \in Texts \ {text} /\ text \in Texts /\ pi' = pi
      BY <1>1
    <2>2. text # "harvest" => "harvest" \in Texts \ {text}
      BY <1>1
    <2> QED BY <1>1, <1>6, <2>1, <2>2, SendsOrders
  <1>9. TypeOK'
    BY <1>1, <1>2, <1>5, <1>7 DEF TypeOK, Moves
  <1>10. Held'
    BY <1>1, <1>4, <1>5 DEF Held, Awaiting
  <1>11. ArtSaid' => ArtSaid \/ coach.art
    BY <1>1, <1>2, <1>5, <1>8 DEF ArtSaid, Moves, Others
  <1>12. FileSaid' => FileSaid
    BY <1>1, <1>2, <1>8 DEF FileSaid, Moves, Others
  <1>13. AssemblyHasRunner'
    BY <1>1, <1>2, <1>4, <1>5, RunnerKeeps DEF Assembling
  <1> QED BY <1>1, <1>9, <1>10, <1>11, <1>12, <1>13 DEF IInv, Backed



----------------------------------------------------------------------------
(* The invariant of the chat, and what it promises.                        *)

LEMMA Invariance == Spec => []IInv
  <1>1. Init => IInv
    <2> SUFFICES ASSUME Init PROVE IInv
      OBVIOUS
    <2>1. TypeOK
      <3>1. /\ NoMessage \in Messages /\ 0 \in 0..MaxMoves /\ 0 \in 0..MaxInputs
            /\ 0 \in 0..COACH_RETRY_MAX /\ {} \in SUBSET Roles
        BY BoundsAreNaturals DEF NoMessage, Messages, COACH_RETRY_MAX
      <3>2. plan \in PlanStates /\ plan.done \subseteq plan.roles
        BY <3>1 DEF Init, PlanStates
      <3>3. coach \in CoachStates
        BY <3>1 DEF Init, CoachStates
      <3>4. pi \in RunStates
        BY <3>1 DEF Init, RunStates
      <3>5. task \in [Tasks -> TaskStates]
        <4>1. Idle \in TaskStates
          BY <3>1 DEF Idle, TaskStates, Pcs
        <4> QED BY <4>1 DEF Init
      <3>6. inbox \in Seq(Texts) /\ Len(inbox) <= MaxInbox
        BY BoundsAreNaturals DEF Init
      <3> QED BY <3>1, <3>2, <3>3, <3>4, <3>5, <3>6 DEF Init, TypeOK
    <2>2. Held /\ AssemblyHasRunner
      BY DEF Init, Held, AssemblyHasRunner
    <2>3. Backed
      BY DEF Init, Backed, ArtSaid, FileSaid, Ordered, Pc, Idle
    <2> QED BY <2>1, <2>2, <2>3 DEF IInv
  <1>2. IInv /\ [Next]_vars => IInv'
    <2> SUFFICES ASSUME IInv, [Next]_vars PROVE IInv'
      OBVIOUS
    <2>1. ASSUME NEW t \in Tasks, TypeOK' /\ Calm({t}) PROVE IInv'
      BY <2>1, CalmKeeps DEF IInv
    <2>2. ASSUME NEW t \in Tasks, TaskStep(t) PROVE IInv'
      <3>1. CASE SendsTask(t) \/ CompileFails(t) \/ AsksReview(t) \/ MergeThrows(t) \/ Aborted(t)
                 \/ Steer(t) \/ Close(t) \/ Reported(t)
        BY <2>1, <3>1, CalmReview DEF IInv
      <3>2. CASE Returned(t)
        BY <2>1, <3>2, CalmReturn DEF IInv
      <3>3. CASE TurnPlan(t) \/ EndExecuting(t) \/ LooksForFile(t) \/ EndPlanning(t) \/ AutoCoach(t)
        BY <2>1, <3>3, CalmPlan DEF IInv
      <3>4. CASE EnableReview(t) \/ Merged(t) \/ Accepted(t)
        BY <3>4, EnableStep, MergedStep, AcceptedStep
      <3>5. CASE HasFile(t) \/ NoFile(t) \/ AssemblyThrows(t) \/ Unmade(t) \/ Finish(t) \/ Executing(t)
        BY <3>5, HasFileStep, NoFileStep, ThrowsStep, UnmadeStep, FinishStep, ExecutingStep
      <3>6. CASE Listed(t) \/ CoderEnds(t) \/ Relisted(t) \/ Copied(t)
        BY <3>6, CoderStep
      <3> QED BY <2>2, <3>1, <3>2, <3>3, <3>4, <3>5, <3>6 DEF TaskStep
    <2>3. ASSUME NEW t \in Tasks, Keeps(t) \/ Execute(t) PROVE IInv'
      BY <2>1, <2>3, CalmPlan, ExecuteStep DEF IInv
    <2>4. CASE UNCHANGED vars
      BY <2>4 DEF vars, IInv, TypeOK, Held, Backed, ArtSaid, FileSaid, Ordered, Pc, Awaiting, AssemblyHasRunner
    <2>5. CASE Outside
      BY <2>5, OutsideStep
    <2>6. CASE Next
      BY <2>2, <2>3, <2>5, <2>6, BeginStep DEF Next, ModelStep, OperatorStep, Outside
    <2> QED BY <2>4, <2>6
  <1> QED BY <1>1, <1>2, PTL DEF Spec

\* Whatever the tasks, the model and the operator do between two awaits, every
\* part of the chat's state is of its kind, and a plan ticks only its own steps.
THEOREM TypeCorrect == Spec => []TypeOK
  <1>1. IInv => TypeOK
    BY DEF IInv
  <1> QED BY <1>1, Invariance, PTL

\* None of the tools the two lists name is there while a plan is made or a
\* review is on, and no writing of files before the coach has answered
\* (pi-capabilities.ts).  `use` is not in the lists.
THEOREM MutationsAreHeld == Spec => []HeldTools
  <1>1. IInv => HeldTools
    <2> SUFFICES ASSUME IInv PROVE HeldTools
      OBVIOUS
    <2>1. /\ DOMAIN Disables = {"plan-mode", "coach", "awaiting-coach", "host-assemble",
                                "assembling", "computer-use"}
          /\ Disables["plan-mode"] = Mutations /\ Disables["coach"] = Mutations
          /\ Disables["awaiting-coach"] = {"scratch_write"}
      BY DEF Disables
    <2>2. \A h \in holds : Active \cap Disables[h] = {}
      BY DEF Active
    <2>3. plan.mode = "plan" \/ coach.on => Active \cap Mutations = {}
      BY <2>1, <2>2 DEF IInv, Held
    <2>4. ASSUME plan.mode = "exec", Awaiting(plan, coach), \A t \in Tasks : task[t].pc # "leave"
          PROVE  "scratch_write" \notin Active
      <3>1. "awaiting-coach" \in holds
        BY <2>4 DEF IInv, Held, Pc
      <3> QED BY <2>1, <2>2, <3>1
    <2> QED BY <2>3, <2>4 DEF HeldTools
  <1> QED BY <1>1, Invariance, PTL

\* What the host ticks, what it orders and what it gives has something to it:
\* the artifact that was accepted, the file that is on the disk.
THEOREM StepsAreBacked == Spec => []InOrder
  <1>1. IInv => InOrder
    <2>1. "use" \in Active => "computer-use" \in holds
      BY DEF Active, Mutations
    <2> QED BY <2>1 DEF IInv, Backed, ArtSaid, FileSaid, Ordered, InOrder
  <1> QED BY <1>1, Invariance, PTL

\* A parent without its tools has somebody at the assembly who gives them back,
\* unless an assembly has thrown.
THEOREM HeldForSomebody == Spec => []AssemblyHasRunner
  <1>1. IInv => AssemblyHasRunner
    BY DEF IInv
  <1> QED BY <1>1, Invariance, PTL

====
