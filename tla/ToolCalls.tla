---- MODULE ToolCalls ----
(***************************************************************************)
(* The tools an agent works the browser with (runtime/tools.ts): the       *)
(* commit gate (core/gate.ts), checkpoints, the side tab, peeks, notes,    *)
(* the ledger with its sticky approvals, the claim of a consequential      *)
(* action and the challenge guard, under the hosts that build them.        *)
(*                                                                         *)
(* The engine runs the calls of one assistant message together, so they    *)
(* interleave at every await and share one side tab, one guard, one        *)
(* checkpoint and one ledger.  A person and the site move pages meanwhile. *)
(*                                                                         *)
(* Every page shows one control under the ref the model uses.  Reading     *)
(* tools (observe, probe, check, survey, a session-free view) are "look";  *)
(* typing, saving an artifact and the desktop tools change nothing that    *)
(* is told apart here.  The budgets only refuse and are left out; notes    *)
(* only append.  A message may hold more calls than Calls: a call that has *)
(* ended makes room for the next.                                          *)
(***************************************************************************)
EXTENDS Naturals

CONSTANTS
    Calls,        \* the calls that may be in flight together
    Entities,     \* what a job's runs work for
    Hosts,        \* which hosts are looked at
    MaxSpare,     \* bounds the tabs open beside the main one
    MaxBegun,     \* bounds the calls begun
    MaxMoves,     \* bounds how often a person or the site moves a page
    MaxRestarts,  \* bounds the restarts of the process
    None

(* chat: the person is asked.  job: a grant or nobody answers, the         *)
(* envelope may forbid, actions are claimed.  (The command line's policy   *)
(* auto asks nobody and is left out; never is a refusal.)                  *)
ASSUME HostsAreKnown == Hosts \subseteq {"chat", "job"}
ASSUME BoundsAreNumbers ==
    /\ MaxSpare \in Nat /\ MaxBegun \in Nat /\ MaxMoves \in Nat /\ MaxRestarts \in Nat
ASSUME NoneIsNothing ==
    None \notin Nat \cup Calls \cup Entities \cup {"list", "form", "wall", "lost"}

Main == 0
Tabs == 0..MaxSpare

\* A list with a control of unknown effect, a form whose control reaches
\* someone else, and a challenge, which shows neither.
Docs == {"list", "form", "wall"}
Control == [list |-> "proceed", form |-> "send", wall |-> "none"]
Outbound == {"send"}

VARIABLES
    host, entity,  \* who built the tools, and the entity of the job's run
    page,          \* what each tab shows; lost, when its first navigation failed
    call,          \* the calls in flight
    begun,         \* how many calls have begun
    sideTab,       \* the tools' side tab
    halted,        \* InteractiveChallengeGuard.halted
    checkpoint,    \* the page saved under the tag latest
    sticky, tail,  \* the approvals in the ledger, and how its last line ends
    consumed,      \* the actions entities have claimed
    moves, restarts,  \* how often MaxMoves and MaxRestarts allow more
    yes,           \* history: controls a person or a grant allowed
    told,          \* history: controls whose yes was recorded
    fired,         \* history: what was done for whom, by calls whose page stood still
    raced          \* history: a call opened a side tab beside another side call

host_ == <<host, entity>>
tabs == <<page, sideTab>>
ledger == <<sticky, tail>>
disk == <<checkpoint, consumed>>
bounds == <<moves, restarts>>
history == <<yes, told, fired, raced>>
vars == <<host_, tabs, call, begun, halted, ledger, disk, bounds, history>>

SideTools == {"open", "shut", "done", "park"}
Tools == SideTools \cup {"look", "peek", "click", "go", "restore"}

\* tab is the tab the call works in, seen the page its decision rests on, own
\* the tab it opened or is closing.  History: slid
\* when somebody else moved its tab since it looked, alone while no other call
\* was in flight with it.
CallStates ==
    [tool : Tools,
     pc   : {"idle", "read", "judge", "resume", "open", "view", "drop", "close", "report",
             "facts", "save", "gate", "ask", "claim", "mark", "act",
             "settle", "restore"},
     tab  : Tabs, seen : Docs \cup {None}, own : Tabs \cup {None},
     slid : BOOLEAN, alone : BOOLEAN]

Idle == [tool |-> "look", pc |-> "idle", tab |-> Main, seen |-> None, own |-> None,
         slid |-> FALSE, alone |-> TRUE]

TypeOK ==
    /\ host \in Hosts /\ entity \in Entities
    /\ page \in [Tabs -> Docs \cup {"lost", None}] /\ page[Main] \in Docs
    /\ call \in [Calls -> CallStates]
    /\ begun \in 0..MaxBegun
    /\ sideTab \in Tabs \cup {None} /\ sideTab # Main
    /\ halted \in BOOLEAN
    /\ checkpoint \in Docs \cup {None}
    /\ sticky \subseteq Outbound /\ tail \in {"clean", "torn", "glued", "corrupt"}
    /\ consumed \subseteq Entities \X Outbound
    /\ moves \in 0..MaxMoves /\ restarts \in 0..MaxRestarts
    /\ yes \subseteq Outbound /\ told \subseteq yes
    /\ fired \subseteq Entities \X Outbound /\ raced \in BOOLEAN

Init ==
    /\ host \in Hosts /\ entity \in Entities
    /\ page = [t \in Tabs |-> IF t = Main THEN "list" ELSE None]
    /\ call = [c \in Calls |-> Idle]
    /\ begun = 0
    /\ sideTab = None /\ halted = FALSE /\ checkpoint = None
    /\ sticky = {} /\ tail = "clean"
    /\ consumed = {}
    /\ moves = 0 /\ restarts = 0
    /\ yes = {} /\ told = {} /\ fired = {} /\ raced = FALSE

InFlight == {c \in Calls : call[c].pc # "idle"}
At(c, pc) == call[c].pc = pc
Alone(c) == call[c].alone

\* tab(): the side tab, while there is one.
Tab == IF sideTab = None THEN Main ELSE sideTab

\* What the call works in is gone when another call closed it.
Gone(c) == page[call[c].tab] = None

Ends(c) == call' = [call EXCEPT ![c] = Idle]
Moves(c, pc) == call' = [call EXCEPT ![c].pc = pc]
Sees(c, doc, pc) ==
    call' = [call EXCEPT ![c].seen = doc, ![c].pc = pc, ![c].slid = FALSE, ![c].own = None]

\* A tab shows another page; the other calls that work in it do not know.
Shows(c, t, doc, update) ==
    /\ page' = [page EXCEPT ![t] = doc]
    /\ call' = [d \in Calls |->
                  IF d = c THEN update
                  ELSE IF call[d].tab = t /\ doc # page[t] THEN [call[d] EXCEPT !.slid = TRUE]
                  ELSE call[d]]

\* append: after a line that a crash tore, the next event is lost in it, and
\* with one more the file can no longer be read.
Append(approved) ==
    /\ sticky' = IF tail = "clean" THEN sticky \cup approved ELSE sticky
    /\ tail' = CASE tail = "torn" -> "glued" [] tail = "glued" -> "corrupt" [] OTHER -> tail

----------------------------------------------------------------------------
(* How a call begins: measured() refuses most tools while halted.          *)

\* Variant: a halted session refuses no tool.
BeginsUnguarded(c, tool, pc, own) ==
    /\ c \notin InFlight
    /\ begun < MaxBegun /\ begun' = begun + 1
    /\ call' = [d \in Calls |->
           IF d \in InFlight THEN [call[d] EXCEPT !.alone = FALSE] ELSE IF d # c THEN call[d]
           ELSE [Idle EXCEPT !.tool = tool, !.pc = pc, !.tab = Tab, !.own = own,
                             !.alone = (InFlight = {})]]
    /\ raced' = (raced \/ \E d \in InFlight :
                     {tool, call[d].tool} \subseteq SideTools /\ "open" \in {tool, call[d].tool})

Begins(c, tool, pc, own) ==
    /\ c \notin InFlight
    /\ halted => tool \in {"look", "peek", "done"}
    /\ begun < MaxBegun /\ begun' = begun + 1
    /\ call' = [d \in Calls |->
           IF d \in InFlight THEN [call[d] EXCEPT !.alone = FALSE] ELSE IF d # c THEN call[d]
           ELSE [Idle EXCEPT !.tool = tool, !.pc = pc, !.tab = Tab, !.own = own,
                             !.alone = (InFlight = {})]]
    /\ raced' = (raced \/ \E d \in InFlight :
                     {tool, call[d].tool} \subseteq SideTools /\ "open" \in {tool, call[d].tool})

BeginPlain(c) ==
    /\ \/ Begins(c, "look", "read", None)
       \/ Begins(c, "peek", "open", None)
       \/ Begins(c, "done", "report", None)
       \/ Begins(c, "click", "facts", None)
       \/ Begins(c, "go", "facts", None)
       \/ Begins(c, "restore", "restore", None)
       \/ sideTab = None /\ Begins(c, "open", "open", None)
    /\ UNCHANGED <<host_, tabs, halted, ledger, disk, bounds, yes, told, fired>>

\* side_close and park let go of the side tab before they wait for anything.
BeginClosing(c) ==
    /\ sideTab # None
    /\ Begins(c, "shut", "close", sideTab) \/ Begins(c, "park", "close", sideTab)
    /\ sideTab' = None
    /\ UNCHANGED <<host_, page, halted, ledger, disk, bounds, yes, told, fired>>

----------------------------------------------------------------------------
(* Looking, and the guard that judges every page a result shows.           *)

\* probe, check and survey leave an event, observe does not.
Look(c) ==
    /\ At(c, "read")
    /\ IF Gone(c) THEN Ends(c) /\ UNCHANGED ledger
       ELSE Sees(c, page[call[c].tab], "judge") /\ (UNCHANGED ledger \/ Append({}))
    /\ UNCHANGED <<host_, tabs, begun, halted, disk, bounds, history>>

\* afterObservation.  A challenge halts the session at once.  Anything else
\* resumes it, for the evidence is never the parked one: after one append.
Judge(c) ==
    /\ At(c, "judge")
    /\ \/ call[c].seen = "wall" /\ ~halted /\ halted' = TRUE /\ Ends(c) /\ Append({})
       \/ call[c].seen = "wall" /\ halted /\ Ends(c) /\ UNCHANGED <<halted, ledger>>
       \/ call[c].seen # "wall" /\ ~halted /\ Ends(c) /\ UNCHANGED <<halted, ledger>>
       \/ call[c].seen # "wall" /\ halted /\ Moves(c, "resume") /\ UNCHANGED <<halted, ledger>>
    /\ UNCHANGED <<host_, tabs, begun, disk, bounds, history>>

Unhalt(c) ==
    /\ At(c, "resume")
    /\ Append({}) /\ halted' = FALSE /\ Ends(c)
    /\ UNCHANGED <<host_, tabs, begun, disk, bounds, history>>

----------------------------------------------------------------------------
(* Peeks and the side tab.                                                 *)

Unused(t) == page[t] = None /\ sideTab # t /\ \A d \in InFlight : t \notin {call[d].own, call[d].tab}

\* The tab we come from is observed, then the new tab opened; side_open has
\* its side tab from here on.  When the new tab's navigation fails, openTab
\* throws, and the tab stays open for nobody.
Open(c) ==
    /\ At(c, "open")
    /\ \/ Gone(c) /\ call[c].tool = "peek" /\ Ends(c) /\ UNCHANGED tabs
       \/ \E t \in Tabs, doc \in Docs :
              /\ Unused(t) /\ (call[c].tool = "peek" => ~Gone(c))
              /\ page' = [page EXCEPT ![t] = doc]
              /\ call' = [call EXCEPT ![c].own = t, ![c].pc = "view"]
              /\ sideTab' = IF call[c].tool = "open" THEN t ELSE sideTab
       \/ \E t \in Tabs :
              /\ Unused(t) /\ (call[c].tool = "peek" => ~Gone(c))
              /\ page' = [page EXCEPT ![t] = "lost"] /\ Ends(c)
              /\ sideTab' = IF call[c].tool = "open" THEN None ELSE sideTab
    /\ UNCHANGED <<host_, begun, halted, ledger, disk, bounds, history>>

\* peek closes what it opened, read or not; a payload is not a page.
PeekView(c) ==
    /\ At(c, "view") /\ call[c].tool = "peek"
    /\ page' = [page EXCEPT ![call[c].own] = None]
    /\ \/ ~Gone(c) /\ Sees(c, page[call[c].own], "judge") /\ Append({})
       \/ Ends(c) /\ (UNCHANGED ledger \/ Append({}))
    /\ UNCHANGED <<host_, sideTab, begun, halted, disk, bounds, history>>

\* Variant: what could not be read stays open.
SideViewKeeps(c) ==
    /\ At(c, "view") /\ call[c].tool = "open"
    /\ \/ /\ page[call[c].own] # None
          /\ Sees(c, page[call[c].own], "judge") /\ Append({}) /\ UNCHANGED page
       \/ Moves(c, "drop") /\ UNCHANGED <<page, ledger>>
    /\ UNCHANGED <<host_, sideTab, begun, halted, disk, bounds, history>>

\* side_open closes the tab again when it shows no page or cannot be read,
\* and then forgets the side tab, whichever it is by now.
SideView(c) ==
    /\ At(c, "view") /\ call[c].tool = "open"
    /\ \/ /\ page[call[c].own] # None
          /\ Sees(c, page[call[c].own], "judge") /\ Append({}) /\ UNCHANGED page
       \/ Moves(c, "drop") /\ page' = [page EXCEPT ![call[c].own] = None] /\ UNCHANGED ledger
    /\ UNCHANGED <<host_, sideTab, begun, halted, disk, bounds, history>>

Drop(c) ==
    /\ At(c, "drop")
    /\ sideTab' = None /\ Ends(c)
    /\ UNCHANGED <<host_, page, begun, halted, ledger, disk, bounds, history>>

\* The tab goes.  side_close then looks at the primary tab.
Close(c) ==
    /\ At(c, "close")
    /\ page' = [page EXCEPT ![call[c].own] = None]
    /\ IF call[c].tool = "shut" /\ page[call[c].own] # None
       THEN call' = [call EXCEPT ![c].pc = "read", ![c].own = None, ![c].tab = Main]
       ELSE Ends(c)
    /\ UNCHANGED <<host_, sideTab, begun, halted, ledger, disk, bounds, history>>

\* beforeReport may ask to go on; otherwise done closes the side tab.
Report(c) ==
    /\ At(c, "report")
    /\ \/ Ends(c) /\ UNCHANGED sideTab
       \/ /\ sideTab # None /\ sideTab' = None
          /\ call' = [call EXCEPT ![c].own = sideTab, ![c].pc = "close"]
    /\ UNCHANGED <<host_, page, begun, halted, ledger, disk, bounds, history>>

----------------------------------------------------------------------------
(* act, through the gate.                                                  *)

Outgoing(c) == call[c].tool = "click" /\ Control[call[c].seen] \in Outbound
Wanted(c) == Control[call[c].seen]

\* The action is classified by the page as it is now.
Facts(c) ==
    /\ At(c, "facts")
    /\ IF Gone(c) THEN Ends(c) ELSE Sees(c, page[call[c].tab], "save")
    /\ UNCHANGED <<host_, tabs, begun, halted, ledger, disk, bounds, history>>

\* What the job's envelope forbids is refused here; everything else saves a
\* checkpoint first.
Forbid(c) ==
    /\ At(c, "save") /\ host = "job" /\ Outgoing(c)
    /\ Ends(c) /\ Append({})
    /\ UNCHANGED <<host_, tabs, begun, halted, disk, bounds, history>>

\* Variant: only a navigation is worth a checkpoint.
SaveBeforeGo(c) ==
    /\ At(c, "save")
    /\ IF Gone(c) THEN Ends(c) /\ UNCHANGED checkpoint
       ELSE /\ checkpoint' = IF call[c].tool = "go" THEN page[call[c].tab] ELSE checkpoint
            /\ Moves(c, IF Outgoing(c) THEN "gate" ELSE "act")
    /\ UNCHANGED <<host_, tabs, begun, halted, ledger, consumed, bounds, history>>

Save(c) ==
    /\ At(c, "save")
    /\ IF Gone(c) THEN Ends(c) /\ UNCHANGED checkpoint
       ELSE /\ checkpoint' = page[call[c].tab]
            /\ Moves(c, IF Outgoing(c) THEN "gate" ELSE "act")
    /\ UNCHANGED <<host_, tabs, begun, halted, ledger, consumed, bounds, history>>

\* The precondition failed on the facts seen, or the policy is never, or
\* nobody is there to answer for the job: an event, and the call is over.
Refuse(c) ==
    /\ At(c, "gate")
    /\ Ends(c) /\ Append({})
    /\ UNCHANGED <<host_, tabs, begun, halted, disk, bounds, history>>

\* A grant of the job matches: its use is counted and recorded.
Grant(c) ==
    /\ At(c, "gate") /\ host = "job"
    /\ yes' = yes \cup {Wanted(c)}
    /\ Append({}) /\ Moves(c, "claim")
    /\ UNCHANGED <<host_, tabs, begun, halted, disk, bounds, told, fired, raced>>

\* The chat reads the ledger back, which throws when it is corrupt; a yes
\* remembered there is enough.
Remembers(c) ==
    /\ At(c, "gate") /\ host = "chat"
    /\ \/ tail = "corrupt" /\ Ends(c)
       \/ tail # "corrupt" /\ Moves(c, IF Wanted(c) \in sticky THEN "act" ELSE "ask")
    /\ UNCHANGED <<host_, tabs, begun, halted, ledger, disk, bounds, history>>

\* Variant: no answer is as good as a yes.
AnswerNoMatter(c) ==
    /\ At(c, "ask")
    /\ \/ /\ yes' = yes \cup {Wanted(c)} /\ told' = told \cup {Wanted(c)}
          /\ Append({Wanted(c)}) /\ Moves(c, "act")
       \/ Moves(c, "act") /\ Append({}) /\ UNCHANGED <<yes, told>>
    /\ UNCHANGED <<host_, tabs, begun, halted, disk, bounds, fired, raced>>

\* Variant: the yes is acted on and not written down.
AnswerUnrecorded(c) ==
    /\ At(c, "ask")
    /\ \/ /\ yes' = yes \cup {Wanted(c)} /\ told' = told \cup {Wanted(c)}
          /\ Append({}) /\ Moves(c, "act")
       \/ Ends(c) /\ Append({}) /\ UNCHANGED <<yes, told>>
    /\ UNCHANGED <<host_, tabs, begun, halted, disk, bounds, fired, raced>>

\* The person answers: a yes is recorded before the act, a no parks.
Answer(c) ==
    /\ At(c, "ask")
    /\ \/ /\ yes' = yes \cup {Wanted(c)} /\ told' = told \cup {Wanted(c)}
          /\ Append({Wanted(c)}) /\ Moves(c, "act")
       \/ Ends(c) /\ Append({}) /\ UNCHANGED <<yes, told>>
    /\ UNCHANGED <<host_, tabs, begun, halted, disk, bounds, fired, raced>>

\* GoalStore.claim: the key is looked for, then written.
Claim(c) ==
    /\ At(c, "claim")
    /\ IF <<entity, Wanted(c)>> \in consumed THEN Ends(c) /\ Append({})
       ELSE Moves(c, "mark") /\ UNCHANGED ledger
    /\ UNCHANGED <<host_, tabs, begun, halted, disk, bounds, history>>

\* Variant: the claim is never written.
MarkNothing(c) ==
    /\ At(c, "mark") /\ Moves(c, "act")
    /\ UNCHANGED <<host_, tabs, begun, halted, ledger, disk, bounds, history>>

Mark(c) ==
    /\ At(c, "mark") /\ Moves(c, "act")
    /\ consumed' = consumed \cup {<<entity, Wanted(c)>>}
    /\ UNCHANGED <<host_, tabs, begun, halted, ledger, checkpoint, bounds, history>>

\* act observes again and clicks what the ref names now.
Fires(c) ==
    /\ At(c, "act") /\ call'[c].pc = "settle"
    /\ call[c].tool = "click" /\ Control[page[call[c].tab]] \in Outbound

Act(c) ==
    LET t == call[c].tab
    IN  /\ At(c, "act")
        /\ IF Gone(c) \/ (call[c].tool = "click" /\ Control[page[t]] = "none")
           THEN Ends(c) /\ UNCHANGED <<page, fired>>
           ELSE /\ \E doc \in Docs : Shows(c, t, doc, [call[c] EXCEPT !.pc = "settle"])
                /\ fired' = IF call[c].tool = "click" /\ ~call[c].slid
                            THEN fired \cup ({entity} \X ({Control[page[t]]} \cap Outbound))
                            ELSE fired
        /\ UNCHANGED <<host_, sideTab, begun, halted, ledger, disk, bounds, yes, told, raced>>

\* The expectation holds or not.  An action of unknown effect that failed it
\* is undone; what left the session gets its final event.
Settle(c) ==
    /\ At(c, "settle")
    /\ IF Gone(c) THEN Ends(c) /\ UNCHANGED ledger
       ELSE \/ /\ Sees(c, page[call[c].tab], "judge")
               /\ Append(IF Outgoing(c) /\ host = "chat" THEN {Wanted(c)} ELSE {})
            \/ Outgoing(c) /\ Sees(c, page[call[c].tab], "judge") /\ Append({})
            \/ call[c].tool = "click" /\ ~Outgoing(c) /\ Moves(c, "restore") /\ Append({})
    /\ UNCHANGED <<host_, tabs, begun, halted, disk, bounds, history>>

\* restore, asked for or after a failed expectation: the checkpoint's address
\* is opened again, and the site may put a challenge in between.
Restore(c) ==
    /\ At(c, "restore")
    /\ IF Gone(c) \/ checkpoint = None THEN Ends(c) /\ UNCHANGED <<page, ledger>>
       ELSE /\ \E doc \in {checkpoint, "wall"} :
                   Shows(c, call[c].tab, doc, [call[c] EXCEPT !.seen = doc, !.pc = "judge"])
            /\ Append({})
    /\ UNCHANGED <<host_, sideTab, begun, halted, disk, bounds, history>>

----------------------------------------------------------------------------
(* The person, the site and the process.                                   *)

Elsewhere(t) ==
    /\ moves < MaxMoves /\ moves' = moves + 1 /\ page[t] \in Docs
    /\ \E doc \in Docs \ {page[t]} : Shows(None, t, doc, Idle)
    /\ UNCHANGED <<host_, sideTab, begun, halted, ledger, disk, restarts, history>>

\* The process ends, or the job's next run begins: the files stay, with a line
\* torn perhaps; the tools are built anew over the main tab.
Restart ==
    /\ restarts < MaxRestarts /\ restarts' = restarts + 1
    /\ page' = [t \in Tabs |-> IF t = Main THEN page[t] ELSE None]
    /\ sideTab' = None /\ halted' = FALSE /\ raced' = FALSE
    /\ call' = [c \in Calls |-> Idle]
    /\ entity' \in IF host = "job" THEN Entities ELSE {entity}
    /\ tail' \in IF tail = "clean" /\ InFlight # {} THEN {"clean", "torn"} ELSE {tail}
    /\ UNCHANGED <<host, begun, sticky, disk, moves, yes, told, fired>>

Next ==
    \/ \E c \in Calls :
           \/ BeginPlain(c) \/ BeginClosing(c) \/ Look(c) \/ Judge(c) \/ Unhalt(c)
           \/ Open(c) \/ PeekView(c) \/ SideView(c) \/ Drop(c) \/ Close(c) \/ Report(c)
           \/ Facts(c) \/ Forbid(c) \/ Save(c) \/ Refuse(c) \/ Grant(c)
           \/ Remembers(c) \/ Answer(c) \/ Claim(c) \/ Mark(c)
           \/ Act(c) \/ Settle(c) \/ Restore(c)
    \/ \E t \in Tabs : Elsewhere(t)
    \/ Restart

Spec == Init /\ [][Next]_vars

----------------------------------------------------------------------------
(* What must hold.                                                         *)

\* The gate decides on a page read long before the click.  Unless somebody
\* else moved that tab meanwhile, nothing leaves the session without the yes
\* of a person or a grant, whatever else runs beside it.
FiredWithConsent ==
    [][\A c \in Calls : Fires(c) /\ ~call[c].slid =>
           Control[page[call[c].tab]] \in yes]_vars

\* A job does a consequential action once for an entity, over restarts and
\* retries, except by two calls of one message that both looked for the claim
\* before either wrote it, or on a page moved under the call.
FiredOnce ==
    [][\A c \in Calls : Fires(c) /\ host = "job" /\ Alone(c) /\ ~call[c].slid =>
           <<entity, Control[page[call[c].tab]]>> \notin fired]_vars

\* Once a yes is recorded the person is not asked again for that control, in
\* this process or a later one, unless a crash tore a line of the ledger.
AskedOnce ==
    [][\A c \in Calls : At(c, "gate") /\ call'[c].pc = "ask" =>
           Wanted(c) \notin told \/ tail # "clean"]_vars

\* No tab is left open that nobody will close, and the side tab exists, unless
\* the tab's first navigation failed, or a call that opens a side tab ran
\* beside another side call.
TabsAccounted ==
    ~raced =>
        /\ \A t \in Tabs \ {Main} : page[t] \in Docs =>
               t = sideTab \/ \E c \in InFlight : call[c].own = t
        /\ sideTab # None /\ InFlight = {} => page[sideTab] # None

\* A failed expectation leads back to the page of before the action, not to an
\* older checkpoint, when nothing else ran beside the call.
RestoresOwnPage ==
    [][\A c \in Calls :
           At(c, "restore") /\ call'[c].pc = "judge" /\ call[c].tool = "click"
             /\ Alone(c) /\ ~call[c].slid =>
               page'[call[c].tab] \in {call[c].seen, "wall"}]_vars

\* While the session is halted for a challenge no call clicks or navigates,
\* save one that ran beside the call that saw the challenge.
HaltHolds ==
    [][\A c \in Calls : At(c, "act") /\ call'[c].pc = "settle" /\ halted => ~Alone(c)]_vars

====
