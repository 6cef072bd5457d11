---------------------------- MODULE OperatorChat ----------------------------
(***************************************************************************)
(* The operator's chat: plan mode (src/host/pi-plan-mode.ts), the coach    *)
(* (pi-coach.ts), the assembly of the harvest file (pi-assemble.ts) and    *)
(* the tool set they share (pi-capabilities.ts), on the host that hands    *)
(* them the turns of the model (memory-host.ts, hosts/web/runtime.ts).     *)
(*                                                                         *)
(* Everything runs in one JavaScript thread.  A task is a chain of calls   *)
(* that awaits: the handlers of one turn_end or agent_end, one report      *)
(* tool, one command, or an assembly nobody waits for.  A step runs a      *)
(* task from one await to the next, and between two steps any other task,  *)
(* the model and the operator may move.  The host does not wait for the    *)
(* handlers of an event before the next event is emitted.                  *)
(*                                                                         *)
(* Left out: models, their pins and the thinking level (nothing here       *)
(* depends on them; their awaits are kept), session_start (only a resumed  *)
(* local session has one), and every text, which is a message's or a       *)
(* prompt's kind.                                                          *)
(***************************************************************************)
EXTENDS Naturals, Sequences, FiniteSets

CONSTANTS Tasks,         \* identities for the tasks under way at one time
          Plans,         \* the plans the model may author: sets of roles
          MaxMoves,      \* bound on the model's turns and the operator's inputs
          MaxInputs,     \* bound on the operator's inputs alone
          MaxInbox       \* bound on the prompts that wait for the model

Order == <<"scout", "coach", "harvest", "deliver", "report">>
Roles == {Order[i] : i \in DOMAIN Order}

ASSUME PlansAreRoles == Plans \subseteq SUBSET Roles
ASSUME BoundsAreNaturals == {MaxMoves, MaxInputs, MaxInbox} \subseteq Nat /\ MaxInbox > 0

VARIABLES plan,      \* plan mode: its mode, the todos, and its three flags, of
                     \* which asm also tells if what it stands for has thrown
          coach,     \* the review and the artifact
          file,      \* the assembly and the file in the scratch directory
          holds,     \* the constraints on the tools now in force
          pi,        \* the model's run
          inbox,     \* prompts the session has yet to run
          task,      \* what each task awaits
          inputs     \* how much the operator has typed

vars == <<plan, coach, file, holds, pi, inbox, task, inputs>>

NoTask == "nobody"
NoMessage == [turn |-> 0, is |-> "none"]
Idle == [pc |-> "idle", ev |-> "none", msg |-> NoMessage, back |-> "none",
         ok |-> FALSE, res |-> "open"]

\* Mutations that planning and reviewing take away; the other holds are sets
\* of the same tools.  Only "computer-use" gives a tool.
Mutations == {"act", "save_artifact", "scratch_write", "subagent", "report"}
Disables == [h \in {"plan-mode", "coach", "awaiting-coach", "host-assemble",
                    "assembling", "computer-use"} |->
               CASE h \in {"plan-mode", "coach"} -> Mutations
                 [] h = "awaiting-coach" -> {"scratch_write"}
                 [] h = "host-assemble" -> {"scratch_write", "save_artifact"}
                 [] h = "assembling" -> Mutations \ {"report"}
                 [] OTHER -> {}]
Active == (Mutations \cup (IF "computer-use" \in holds THEN {"see", "use"} ELSE {}))
            \ UNION {Disables[h] : h \in holds}

Init ==
  /\ plan = [mode |-> "off", roles |-> {}, done |-> {}, coach |-> FALSE,
             asm |-> "no", ready |-> FALSE]
  /\ coach = [on |-> FALSE, art |-> FALSE, tried |-> NoMessage, rejects |-> 0,
              rescue |-> FALSE, empty |-> 0, halted |-> FALSE,
              waiter |-> NoTask]
  /\ file = [busy |-> FALSE, made |-> FALSE, disk |-> FALSE]
  /\ holds = {}
  /\ pi = [st |-> "idle", text |-> "none", turn |-> 0, said |-> NoMessage]
  /\ inbox = <<>> /\ inputs = 0
  /\ task = [t \in Tasks |-> Idle]

-----------------------------------------------------------------------------
(* The todos of a plan: which steps count, in the order of the roles.      *)

Rank(r) == CHOOSE i \in DOMAIN Order : Order[i] = r
Before(r, p) == {q \in p.roles : Rank(q) < Rank(r)}

Awaiting(p, c) == "coach" \in p.roles /\ ~c.art

\* Everything before the step is done, and there is something before it.
Earned(r, p) == r \in p.roles /\ Before(r, p) # {} /\ Before(r, p) \subseteq p.done

\* What the model is told to do: up to the step the host owns next, or after
\* the one it has done.
Remaining(p, c) ==
  {r \in p.roles \ p.done :
     /\ "coach" \in p.roles =>
          IF c.art THEN Rank(r) > Rank("coach") ELSE Rank(r) < Rank("coach")
     /\ "deliver" \in p.roles =>
          IF p.ready THEN Rank(r) > Rank("deliver") ELSE Rank(r) < Rank("deliver")}

Marked(p, rs) == [p EXCEPT !.done = @ \cup (rs \cap p.roles)]
CoachMarked(p) ==
  IF "coach" \in p.roles THEN Marked(p, Before("coach", p) \cup {"coach"}) ELSE p

\* The constraints that follow the plan's state; each is set or released.
Hold(hs, h, needed) == IF needed THEN hs \cup {h} ELSE hs \ {h}
SyncComputer(hs, p, c) ==
  Hold(hs, "computer-use",
       p.mode = "exec" /\ c.art /\ ~Awaiting(p, c) /\ p.asm = "no" /\ ~p.ready)
AwaitingHold(hs, p, c) ==
  SyncComputer(Hold(hs, "awaiting-coach", Awaiting(p, c)), p, c)
AssembleHold(hs, p, c) ==
  SyncComputer(Hold(hs, "host-assemble",
                    /\ p.mode = "exec" /\ "deliver" \in p.roles
                    /\ ~p.ready /\ ~Awaiting(p, c)), p, c)

-----------------------------------------------------------------------------
(* Tasks and prompts.                                                      *)

At(t, pc) == [task EXCEPT ![t].pc = pc, ![t].back = "none", ![t].ok = FALSE]
Goes(t, pc) == task' = At(t, pc)
Ends(t) == task' = [task EXCEPT ![t] = Idle]
Free(t) == task[t].pc = "idle"
SomeFree == \E t \in Tasks : Free(t)
Started(ev, pc, msg) ==
  LET t == CHOOSE u \in Tasks : Free(u)
  IN  [t |-> t, as |-> [Idle EXCEPT !.pc = pc, !.ev = ev, !.msg = msg]]
Starts(ev, msg) ==
  /\ SomeFree
  /\ LET n == Started(ev, "begin", msg) IN task' = [task EXCEPT ![n.t] = n.as]

\* A session at work, or still closing its last run, queues the prompt (Pi's
\* own) or refuses it (the hosted chat, which reports pi_prompt_failed).
Sends(text) ==
  inbox' \in {inbox} \cup (IF Len(inbox) < MaxInbox THEN {Append(inbox, text)} ELSE {})

-----------------------------------------------------------------------------
(* The model (external) and the events of its run.                         *)

RunStarts ==
  /\ pi.st = "idle" /\ inbox # <<>> /\ pi.turn + inputs < MaxMoves
  /\ pi' = [pi EXCEPT !.st = "run", !.text = Head(inbox), !.said = NoMessage]
  /\ inbox' = Tail(inbox)
  /\ UNCHANGED <<plan, coach, file, holds, task, inputs>>

Reporting == \E t \in Tasks : task[t].ev = "report" /\ ~Free(t)

\* A message calls tools or ends the run; in a review it may be an artifact.
\* Which steps it says are done, and which plan it states, is looked up, and
\* so chosen, where it is read.
Turn ==
  /\ pi.st = "run" /\ ~Reporting /\ pi.turn + inputs < MaxMoves
  /\ \E is \in {"tools", "text"} \cup (IF pi.text = "review" THEN {"artifact"} ELSE {}) :
       LET m == [turn |-> pi.turn + 1, is |-> is] IN
       /\ pi' = [pi EXCEPT !.turn = @ + 1, !.said = m,
                           !.st = IF is = "tools" THEN "run" ELSE "end"]
       /\ Starts("turn", m)
  /\ UNCHANGED <<plan, coach, file, holds, inbox, inputs>>

RunEnds ==
  /\ pi.st = "end"
  /\ pi' = [pi EXCEPT !.st = "idle", !.text = "none", !.said = NoMessage]
  /\ Starts("end", pi.said)
  /\ UNCHANGED <<plan, coach, file, holds, inbox, inputs>>

\* The model calls report, if the tool is there, and waits for its answer.
CallsReport ==
  /\ pi.st = "run" /\ ~Reporting /\ "report" \in Active
  /\ Starts("report", NoMessage)
  /\ UNCHANGED <<plan, coach, file, holds, pi, inbox, inputs>>

-----------------------------------------------------------------------------
(* The operator.                                                           *)

Types ==
  /\ inputs < MaxInputs /\ pi.turn + inputs < MaxMoves
  /\ inputs' = inputs + 1

Prompt ==
  /\ Types /\ pi.st = "idle" /\ inbox = <<>> /\ inbox' = <<"task">>
  /\ UNCHANGED <<plan, coach, file, holds, pi, task>>

Abort ==
  /\ Types /\ pi.st = "run" /\ ~Reporting
  /\ pi' = [pi EXCEPT !.st = "end"]
  /\ UNCHANGED <<plan, coach, file, holds, inbox, task>>

NewPlan(mode) == [mode |-> mode, roles |-> {}, done |-> {}, coach |-> FALSE,
                  asm |-> "no", ready |-> FALSE]

\* Plan mode comes on, also from a plan that is being executed, whose
\* constraints stay as they are.
Enable ==
  /\ plan.mode # "plan"
  /\ plan' = NewPlan("plan")
  /\ holds' = holds \cup {"plan-mode"}

\* /plan, alone: on or off.
PlanCommand ==
  /\ Types
  /\ \/ Enable
     \/ /\ plan.mode = "plan"
        /\ plan' = NewPlan("off")
        /\ holds' = holds \ {"plan-mode", "host-assemble", "assembling", "computer-use"}
  /\ UNCHANGED <<coach, file, pi, inbox, task>>

\* /plan with a task: on, then after an await the task is sent.
PlanFor ==
  /\ Types /\ SomeFree
  /\ Enable \/ (plan.mode = "plan" /\ UNCHANGED <<plan, holds>>)
  /\ LET n == Started("cmd", "send", NoMessage) IN task' = [task EXCEPT ![n.t] = n.as]
  /\ UNCHANGED <<coach, file, pi, inbox>>

SendsTask(t) ==
  /\ task[t].pc = "send" /\ Sends("task") /\ Ends(t)
  /\ UNCHANGED <<plan, coach, file, holds, pi, inputs>>

CoachCommand ==
  /\ Types /\ Starts("cmd", NoMessage)
  /\ UNCHANGED <<plan, coach, file, holds, pi, inbox>>

-----------------------------------------------------------------------------
(* A review: handleCoach, entered from four places that are told, at "ret", *)
(* whether it was started.                                                  *)

Returns(t, back, ok) ==
  task' = [task EXCEPT ![t].pc = "ret", ![t].back = back, ![t].ok = ok]

\* The part before the first await.
HandleCoach(t, back) ==
  IF coach.on
    THEN Returns(t, back, FALSE)
    ELSE task' = [task EXCEPT ![t].pc = "compile", ![t].back = back]

CompileFails(t) ==
  /\ task[t].pc = "compile"
  /\ Returns(t, task[t].back, FALSE)
  /\ UNCHANGED <<plan, coach, file, holds, pi, inbox, inputs>>

EnableReview(t) ==
  /\ task[t].pc = "compile"
  /\ coach' = [coach EXCEPT !.on = TRUE, !.tried = NoMessage, !.rejects = 0]
  /\ holds' = holds \cup {"coach"}
  /\ task' = [task EXCEPT ![t].pc = "ask"]
  /\ UNCHANGED <<plan, file, pi, inbox, inputs>>

AsksReview(t) ==
  /\ task[t].pc = "ask"
  /\ Sends("review")
  /\ Returns(t, task[t].back, TRUE)
  /\ UNCHANGED <<plan, coach, file, holds, pi, inputs>>

\* The synchronous part of disableReview.
ReviewOff(c) ==
  [c EXCEPT !.on = FALSE, !.tried = NoMessage, !.rejects = 0, !.rescue = FALSE]

COACH_RETRY_MAX == 2

\* What a later message says may be the very text that was tried last.
MayRepeat(m) ==
  coach.tried # NoMessage /\ (m.is = "artifact" <=> coach.tried.is = "artifact")

\* acceptArtifact while a review is on: the text last tried is ignored.
Artifact(t, m) ==
  \/ /\ m = NoMessage \/ MayRepeat(m)
     /\ Goes(t, "plan") /\ UNCHANGED <<coach, holds, inbox>>
  \/ /\ m \notin {NoMessage, coach.tried}
     /\ IF m.is = "artifact"
          THEN /\ coach' = [coach EXCEPT !.tried = m, !.art = TRUE]
               /\ Goes(t, "merge") /\ UNCHANGED <<holds, inbox>>
        ELSE IF coach.rejects < COACH_RETRY_MAX
          THEN /\ coach' = [coach EXCEPT !.tried = m, !.rejects = @ + 1]
               /\ Sends("review")
               /\ Goes(t, "plan") /\ UNCHANGED holds
        ELSE /\ coach' = ReviewOff(coach)
             /\ holds' = holds \ {"coach"}
             /\ task' = [task EXCEPT ![t].pc = "aborted", ![t].ok = coach.rescue]
             /\ UNCHANGED inbox

\* The strategy is merged into the goal's facts, and the review is over.
Merged(t) ==
  /\ task[t].pc = "merge"
  /\ coach' = ReviewOff(coach)
  /\ holds' = holds \ {"coach"}
  /\ Goes(t, "accepted")
  /\ UNCHANGED <<plan, file, pi, inbox, inputs>>

\* The merge throws: the handler is over, the artifact kept, the review on.
MergeThrows(t) ==
  /\ task[t].pc = "merge" /\ Ends(t)
  /\ UNCHANGED <<plan, coach, file, holds, pi, inbox, inputs>>

\* The waiting report is told, if there is one, and forgotten.
Told(tasks, verdict) ==
  IF coach.waiter = NoTask THEN tasks ELSE [tasks EXCEPT ![coach.waiter].res = verdict]

Aborted(t) ==
  /\ task[t].pc = "aborted"
  /\ coach' = [coach EXCEPT !.empty = IF task[t].ok THEN @ + 1 ELSE @, !.waiter = NoTask]
  /\ task' = Told(At(t, "plan"), "halted")
  /\ UNCHANGED <<plan, file, holds, pi, inbox, inputs>>

\* maybeStartAssemble up to its await: may this task look for the file.
MayAssemble(p, c) ==
  /\ p.mode = "exec" /\ "deliver" \in p.roles
  /\ p.asm = "no" /\ ~file.busy /\ ~Awaiting(p, c) /\ Earned("deliver", p)

\* The plan's listener: the scout and the coach's step are done, and the
\* harvest is told, or the file is made with nobody waiting for it.
OnArtifact(tasks) ==
  IF plan.mode # "exec"
    THEN task' = tasks /\ UNCHANGED <<plan, holds, inbox>>
    ELSE LET p == CoachMarked(plan) IN
         /\ plan' = p
         /\ holds' = AssembleHold(holds \ {"awaiting-coach"}, p, coach)
         /\ IF Remaining(p, coach) # {}
              THEN Sends("harvest") /\ task' = tasks
              ELSE /\ UNCHANGED inbox
                   /\ IF MayAssemble(p, coach)
                        THEN /\ SomeFree
                             /\ LET n == Started("void", "has", NoMessage)
                                IN  task' = [tasks EXCEPT ![n.t] = n.as]
                        ELSE task' = tasks

Accepted(t) ==
  /\ task[t].pc = "accepted"
  /\ \E verdict \in {"pass", "halted", "started"} :
       /\ coach' = [coach EXCEPT !.empty = 0, !.waiter = NoTask,
                     !.halted = coach.waiter # NoTask /\ verdict = "halted"]
       /\ OnArtifact(Told(At(t, "plan"), verdict))
  /\ UNCHANGED <<file, pi, inputs>>

-----------------------------------------------------------------------------
(* The coach's handlers of turn_end and agent_end, and the report's gate.  *)

\* considerSteer up to its await.  considerParentScout, before it, answers none:
\* only before_agent_start, which this host never emits, can turn it on.
Steers(t) ==
  IF coach.art /\ ~coach.on /\ ~coach.halted THEN Goes(t, "steer") ELSE Goes(t, "plan")

Begin(t) ==
  /\ task[t].pc = "begin"
  /\ CASE task[t].ev = "cmd" ->
            HandleCoach(t, "cmd") /\ UNCHANGED <<coach, holds, inbox, pi>>
       [] task[t].ev = "report" /\ (coach.halted \/ coach.on) ->
            /\ task' = [task EXCEPT ![t].pc = "waiting",
                          ![t].res = IF coach.halted THEN "halted" ELSE "none"]
            /\ UNCHANGED <<coach, holds, inbox, pi>>
       [] task[t].ev = "report" /\ ~coach.halted /\ ~coach.on ->
            Goes(t, "close") /\ UNCHANGED <<coach, holds, inbox, pi>>
       [] task[t].ev \in {"turn", "end"} /\ coach.on ->
            Artifact(t, task[t].msg) /\ UNCHANGED pi
       [] OTHER ->
            /\ Steers(t)
            /\ UNCHANGED <<coach, holds, inbox, pi>>
  /\ UNCHANGED <<plan, file, inputs>>

\* considerSteer has its digest: nothing, a review, or after a review that
\* came to nothing a halt.
Steer(t) ==
  /\ task[t].pc = "steer"
  /\ \/ Goes(t, "plan") /\ UNCHANGED coach
     \/ /\ coach.empty >= 1
        /\ coach' = [coach EXCEPT !.halted = TRUE]
        /\ Goes(t, "plan")
     \/ /\ coach.empty = 0
        /\ coach' = [coach EXCEPT !.rescue = TRUE]
        /\ HandleCoach(t, "steer")
  /\ UNCHANGED <<plan, file, holds, pi, inbox, inputs>>

\* considerClose has its digest: the gate passes, or a review must answer.
Close(t) ==
  /\ task[t].pc = "close"
  /\ \/ /\ task' = [task EXCEPT ![t].pc = "waiting", ![t].res = "pass"]
        /\ UNCHANGED coach
     \/ /\ coach' = [coach EXCEPT !.rescue = TRUE, !.waiter = t]
        /\ HandleCoach(t, "close")
  /\ UNCHANGED <<plan, file, holds, pi, inbox, inputs>>

\* The caller of handleCoach goes on.
Returned(t) ==
  /\ task[t].pc = "ret"
  /\ LET back == task[t].back
         ok == task[t].ok
     IN \/ back = "cmd" /\ Ends(t) /\ UNCHANGED <<plan, coach>>
        \/ /\ back = "steer"
           /\ coach' = [coach EXCEPT !.rescue = @ /\ ok]
           /\ Goes(t, "plan") /\ UNCHANGED plan
        \/ /\ back = "auto"
           /\ plan' = [plan EXCEPT !.coach = @ /\ ok]
           /\ Goes(t, "assemble") /\ UNCHANGED coach
        \/ /\ back = "close" /\ ok
           /\ Goes(t, "waiting") /\ UNCHANGED <<plan, coach>>
        \/ /\ back = "close" /\ ~ok
           /\ coach' = [coach EXCEPT !.rescue = FALSE, !.waiter = NoTask]
           /\ task' = [task EXCEPT ![t].pc = "waiting", ![t].res = "pass"]
           /\ UNCHANGED plan
  /\ UNCHANGED <<file, holds, pi, inbox, inputs>>

\* The report is answered: it ends the run, or the run continues.
Reported(t) ==
  /\ task[t].pc = "waiting" /\ task[t].res # "open"
  /\ pi' = IF task[t].res \in {"pass", "halted"} THEN [pi EXCEPT !.st = "end"] ELSE pi
  /\ Ends(t)
  /\ UNCHANGED <<plan, coach, file, holds, inbox, inputs>>

-----------------------------------------------------------------------------
(* Plan mode's handlers.                                                   *)

\* Variant: [DONE:n] ticks the host's own steps too.
TurnTicksAll(t) ==
  /\ task[t].pc = "plan" /\ task[t].ev = "turn"
  /\ plan' \in {plan} \cup
       {Marked(plan, rs) : rs \in IF plan.mode = "exec" THEN SUBSET Roles ELSE {}}
  /\ Ends(t)
  /\ UNCHANGED <<coach, file, holds, pi, inbox, inputs>>

\* turn_end: the steps a message without tool calls says are done, but the
\* host's own two.
TurnPlan(t) ==
  /\ task[t].pc = "plan" /\ task[t].ev = "turn"
  /\ plan' \in {plan} \cup
       {Marked(plan, rs) : rs \in IF plan.mode = "exec" /\ task[t].msg.is = "text"
                                  THEN SUBSET (Roles \ {"coach", "deliver"}) ELSE {}}
  /\ Ends(t)
  /\ UNCHANGED <<coach, file, holds, pi, inbox, inputs>>

\* agent_end of a plan that is being executed: maybeStartCoach up to its await.
EndExecuting(t) ==
  /\ task[t].pc = "plan" /\ task[t].ev = "end"
  /\ plan.mode = "exec" /\ plan.roles # {}
  /\ task' = IF ~plan.coach /\ ~coach.on /\ Awaiting(plan, coach)
               THEN [task EXCEPT ![t].pc = "yield",
                       ![t].ok = Before("coach", plan) \cap plan.done # {}]
               ELSE [task EXCEPT ![t].pc = "assemble"]
  /\ UNCHANGED <<plan, coach, file, holds, pi, inbox, inputs>>

\* maybeStartCoach after its await: the host goes on from the scout, if its
\* steps say so or the ledger has a yield.
AutoCoach(t) ==
  /\ task[t].pc = "yield"
  /\ \/ /\ plan' = [(IF "coach" \in plan.roles
                         THEN Marked(plan, Before("coach", plan)) ELSE plan)
                       EXCEPT !.coach = TRUE]
        /\ HandleCoach(t, "auto")
     \/ /\ ~Earned("coach", plan) /\ ~task[t].ok
        /\ Goes(t, "assemble") /\ UNCHANGED plan
  /\ UNCHANGED <<coach, file, holds, pi, inbox, inputs>>

\* maybeStartAssemble, up to the look into the scratch directory.
LooksForFile(t) ==
  /\ task[t].pc = "assemble"
  /\ Goes(t, IF MayAssemble(plan, coach) THEN "has" ELSE "finish")
  /\ UNCHANGED <<plan, coach, file, holds, pi, inbox, inputs>>

\* What follows maybeStartAssemble: the rest of agent_end, or nothing.
AfterAssemble(t) == IF task[t].ev = "void" THEN Ends(t) ELSE Goes(t, "finish")

\* hasDeliverable says yes: the step is done.
HasFile(t) ==
  /\ task[t].pc = "has" /\ (file.made \/ file.disk)
  /\ LET p == [Marked(plan, {"deliver"}) EXCEPT !.ready = TRUE] IN
     /\ plan' = p
     /\ holds' = AssembleHold(holds, p, coach)
  /\ AfterAssemble(t)
  /\ UNCHANGED <<coach, file, pi, inbox, inputs>>

\* It says no: the parent's tools are held and startAssemble begins.
NoFile(t) ==
  /\ task[t].pc = "has" /\ ~file.made /\ ~file.disk
  /\ LET p == [plan EXCEPT !.asm = "begun"] IN
     /\ plan' = p
     /\ holds' = SyncComputer(holds, p, coach) \cup {"assembling"}
  /\ Goes(t, IF file.busy THEN "unmade" ELSE "list")
  /\ UNCHANGED <<coach, file, pi, inbox, inputs>>

\* The plan's listener of a file: told to report it, if a step is left.
OnDeliverable ==
  IF plan.mode # "exec"
    THEN UNCHANGED <<plan, holds, inbox>>
    ELSE LET p == [Marked(plan, {"deliver"}) EXCEPT !.ready = TRUE] IN
         /\ plan' = p
         /\ holds' = holds \ {"assembling", "host-assemble"}
         /\ IF Remaining(p, coach) # {} THEN Sends("report") ELSE UNCHANGED inbox

\* The listing is there: the file is too, or the coder is run.
Listed(t) ==
  /\ task[t].pc = "list"
  /\ IF file.disk
       THEN /\ file' = [file EXCEPT !.made = TRUE]
            /\ OnDeliverable /\ AfterAssemble(t)
       ELSE /\ file' = [file EXCEPT !.busy = TRUE]
            /\ Goes(t, "coder") /\ UNCHANGED <<plan, holds, inbox>>
  /\ UNCHANGED <<coach, pi, inputs>>

\* The coder ends, with the file or without, or its run throws.
CoderEnds(t) ==
  /\ task[t].pc = "coder"
  /\ \/ /\ file' \in {file, [file EXCEPT !.disk = TRUE]}
        /\ Goes(t, "relist")
     \/ /\ file' = [file EXCEPT !.busy = FALSE]
        /\ Goes(t, "unmade")
  /\ UNCHANGED <<plan, coach, holds, pi, inbox, inputs>>

Relisted(t) ==
  /\ task[t].pc = "relist"
  /\ file' = [file EXCEPT !.busy = FALSE]
  /\ Goes(t, IF file.disk THEN "copy" ELSE "unmade")
  /\ UNCHANGED <<plan, coach, holds, pi, inbox, inputs>>

Copied(t) ==
  /\ task[t].pc = "copy"
  /\ file' = [file EXCEPT !.made = TRUE]
  /\ OnDeliverable /\ AfterAssemble(t)
  /\ UNCHANGED <<coach, pi, inputs>>

\* An await of the assembly throws: a file that vanishes under the listing,
\* a directory that cannot be made.  Nobody catches it, so the rest of the
\* handler is not run, and what startAssemble and its caller had set stays:
\* the hold, and the busy flag if the coder had run.  (In the hosted chat the
\* rejection is nobody's either, and the process may end with it.)
AssemblyThrows(t) ==
  /\ task[t].pc \in {"has", "list", "relist", "copy"}
  /\ plan' = IF task[t].pc # "has" /\ plan.asm = "begun"
               THEN [plan EXCEPT !.asm = "lost"] ELSE plan
  /\ Ends(t)
  /\ UNCHANGED <<coach, file, holds, pi, inbox, inputs>>

\* Variant: the parent's tools stay held.
UnmadeHeld(t) ==
  /\ task[t].pc = "unmade"
  /\ AfterAssemble(t)
  /\ UNCHANGED <<plan, coach, file, holds, pi, inbox, inputs>>

\* startAssemble answered false: the parent has its tools back.
Unmade(t) ==
  /\ task[t].pc = "unmade"
  /\ LET p == [plan EXCEPT !.asm = "no"] IN
     /\ plan' = p
     /\ holds' = AssembleHold(holds \ {"assembling"}, p, coach)
  /\ AfterAssemble(t)
  /\ UNCHANGED <<coach, file, pi, inbox, inputs>>

\* The rest of agent_end: a plan with every step done is over.
Finish(t) ==
  /\ task[t].pc = "finish"
  /\ LET hs == AssembleHold(holds, plan, coach) IN
     IF plan.roles = plan.done
       THEN /\ plan' = NewPlan(IF plan.mode = "exec" THEN "off" ELSE plan.mode)
            /\ holds' = hs \ {"host-assemble", "assembling"}
       ELSE holds' = hs /\ UNCHANGED plan
  /\ Ends(t)
  /\ UNCHANGED <<coach, file, pi, inbox, inputs>>

\* agent_end otherwise: in plan mode the plan in the message is taken and the
\* operator asked what next.
EndPlanning(t) ==
  /\ task[t].pc = "plan" /\ task[t].ev = "end"
  /\ plan.mode # "exec" \/ plan.roles = {}
  /\ \E p \in {plan} \cup
       {[plan EXCEPT !.roles = rs, !.done = {}] :
          rs \in IF plan.mode = "plan" /\ task[t].msg.is \in {"text", "tools"} THEN Plans ELSE {}} :
       /\ plan' = p
       /\ IF p.mode = "plan" /\ p.roles # {} THEN Goes(t, "select") ELSE Ends(t)
  /\ UNCHANGED <<coach, file, holds, pi, inbox, inputs>>

\* The answers that leave the plan as it is: Stay, and Refine, which sends
\* the operator's text.
Keeps(t) ==
  /\ task[t].pc = "select"
  /\ UNCHANGED inbox \/ Sends("task")
  /\ Ends(t)
  /\ UNCHANGED <<plan, coach, file, holds, pi, inputs>>

\* Execute, of whatever plan there is by now.
Execute(t) ==
  /\ task[t].pc = "select"
  /\ IF plan.roles = {}
       THEN Ends(t) /\ UNCHANGED <<plan, holds>>
       ELSE /\ plan' = [plan EXCEPT !.mode = "exec", !.coach = FALSE, !.asm = "no"]
            /\ holds' = holds \ {"plan-mode"}
            /\ Goes(t, "leave")
  /\ UNCHANGED <<coach, file, pi, inbox, inputs>>

\* Variant: Execute forgets the hold for a plan that awaits its coach.
ExecutingUnheld(t) ==
  /\ task[t].pc = "leave"
  /\ holds' = AssembleHold(holds, plan, coach)
  /\ Sends("all") /\ Ends(t)
  /\ UNCHANGED <<plan, coach, file, pi, inputs>>

\* After the model pin is left: the holds, and the order to the model.
Executing(t) ==
  /\ task[t].pc = "leave"
  /\ holds' = AssembleHold(AwaitingHold(holds, plan, coach), plan, coach)
  /\ Sends(CASE Awaiting(plan, coach) -> "scout" [] coach.art -> "harvest"
             [] OTHER -> "all")
  /\ Ends(t)
  /\ UNCHANGED <<plan, coach, file, pi, inputs>>

-----------------------------------------------------------------------------
\* A handler runs to its first await before anything else moves.
Quiet == \A t \in Tasks : task[t].pc # "begin"

TaskStep(t) ==
  \/ SendsTask(t) \/ CompileFails(t) \/ EnableReview(t) \/ AsksReview(t)
  \/ Merged(t) \/ MergeThrows(t) \/ Aborted(t) \/ Accepted(t)
  \/ Steer(t) \/ Close(t) \/ Returned(t) \/ Reported(t)
  \/ TurnPlan(t) \/ EndExecuting(t) \/ AutoCoach(t) \/ LooksForFile(t)
  \/ HasFile(t) \/ NoFile(t) \/ Listed(t) \/ CoderEnds(t) \/ Relisted(t)
  \/ Copied(t) \/ AssemblyThrows(t) \/ Unmade(t) \/ Finish(t) \/ EndPlanning(t) \/ Executing(t)

ModelStep == RunStarts \/ Turn \/ RunEnds

OperatorStep ==
  \/ Prompt \/ Abort \/ PlanCommand \/ PlanFor \/ CoachCommand
  \/ \E t \in Tasks : Keeps(t) \/ Execute(t)

Next ==
  \/ \E t \in Tasks : Begin(t)
  \/ Quiet /\ ModelStep
  \/ Quiet /\ OperatorStep
  \/ Quiet /\ CallsReport
  \/ Quiet /\ \E t \in Tasks : TaskStep(t)

\* The event loop runs every task that can go on (a coder is stopped at its
\* cap), and the model finishes what it began.  The operator owes nothing.
Fairness ==
  /\ \A t \in Tasks : WF_vars(Begin(t)) /\ WF_vars(Quiet /\ TaskStep(t))
  /\ WF_vars(Quiet /\ ModelStep)

Spec == Init /\ [][Next]_vars /\ Fairness
-----------------------------------------------------------------------------
(* Properties.                                                             *)

Texts == {"task", "review", "scout", "harvest", "report", "all"}
Messages == [turn : 0..MaxMoves, is : {"none", "tools", "text", "artifact"}]
Assembling == {"list", "coder", "relist", "copy", "unmade"}
Pcs == {"idle", "begin", "send", "compile", "ask", "ret", "merge", "accepted", "aborted", "steer",
        "close", "waiting", "plan", "yield", "assemble", "has", "finish", "select", "leave"}
         \cup Assembling
TaskStates == [pc : Pcs, ev : {"none", "turn", "end", "report", "cmd", "void"}, msg : Messages,
               back : {"none", "cmd", "steer", "auto", "close"}, ok : BOOLEAN,
               res : {"open", "none", "pass", "halted", "started"}]

PlanStates == [mode : {"off", "plan", "exec"}, roles : SUBSET Roles,
               done : SUBSET Roles, coach : BOOLEAN,
               asm : {"no", "begun", "lost"}, ready : BOOLEAN]
CoachStates == [on : BOOLEAN, art : BOOLEAN, tried : Messages,
                rejects : 0..COACH_RETRY_MAX, rescue : BOOLEAN, empty : Nat, halted : BOOLEAN,
                waiter : Tasks \cup {NoTask}]
RunStates == [st : {"idle", "run", "end"}, text : Texts \cup {"none"}, turn : 0..MaxMoves,
              said : Messages]

TypeOK ==
  /\ plan \in PlanStates /\ plan.done \subseteq plan.roles
  /\ coach \in CoachStates
  /\ file \in [busy : BOOLEAN, made : BOOLEAN, disk : BOOLEAN]
  /\ holds \subseteq DOMAIN Disables
  /\ inputs \in 0..MaxInputs
  /\ pi \in RunStates
  /\ inbox \in Seq(Texts) /\ Len(inbox) <= MaxInbox
  /\ task \in [Tasks -> TaskStates]

\* While a plan is being made or a session reviewed none of the tools that
\* both lists of disabled tools name is active, whatever the other features
\* hold or release meanwhile; and a scout that waits for its coach cannot
\* write harvest files, once Execute has come to its end (pi-plan-mode.ts:66,
\* :180, docs/coach.md COACH-12).  The lists do not name `use`, which clicks
\* and types: a review of the harvest leaves it to the model.
HeldTools ==
  /\ plan.mode = "plan" \/ coach.on => Active \cap Mutations = {}
  /\ /\ plan.mode = "exec" /\ Awaiting(plan, coach)
     /\ \A t \in Tasks : task[t].pc # "leave"
     => "scratch_write" \notin Active

\* The host's two steps are ticked for something that is there, and the model
\* is told to harvest or to report, and given the computer tools, only then:
\* an artifact, a file (pi-plan-todos.ts:79, docs/computer-use.md:15).
InOrder ==
  /\ "coach" \in plan.done \/ pi.text = "harvest" \/ "use" \in Active => coach.art
  /\ "deliver" \in plan.done \/ pi.text = "report" => file.disk

\* While the parent's tools are held for an assembly of the plan under way,
\* somebody is at it who will give them back: neither a coder's failure, nor a
\* file that another made meanwhile, nor a second assembly leaves the parent
\* without act (pi-plan-mode.ts:344-356).  Only an await of the assembly that
\* throws does (AssemblyThrows): asm is "lost" then, and the hold stays until
\* the plan is over or another assembly releases it.
AssemblyHasRunner ==
  plan.mode = "exec" /\ plan.asm = "begun" /\ "assembling" \in holds =>
    \E t \in Tasks : task[t].pc \in Assembling

\* docs/coach.md COACH-22: close intercepts report, and its decision lets the
\* report terminate, or not.
ReportReturns == \A t \in Tasks : task[t].ev = "report" ~> task[t].ev # "report"

=============================================================================
