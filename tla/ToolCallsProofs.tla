---- MODULE ToolCallsProofs ----
(***************************************************************************)
(* The commit gate, the claim of an action, the approvals in the ledger,   *)
(* the halt, the checkpoint and the side tab, for any number of calls in   *)
(* flight, tabs, restarts and moves of the pages by others.                *)
(*                                                                         *)
(* Most of the properties are about a step.  What makes them hold is that  *)
(* a call in flight still knows, at the click, what it learned at its      *)
(* first look: IInv says what that is, at each of the awaits between.      *)
(***************************************************************************)
EXTENDS ToolCalls, TLAPS

Pcs == {"idle", "read", "judge", "resume", "open", "view", "drop", "close", "report",
        "facts", "save", "gate", "ask", "claim", "mark", "act", "settle", "restore"}

Leaving(r) == r.tool = "click" /\ Control[r.seen] \in Outbound

\* What a call holds, at each of its awaits.
CallKnown(r) ==
    /\ r.pc \in {"judge", "save", "gate", "ask", "claim", "mark", "act", "settle"} => r.seen \in Docs
    /\ r.pc = "restore" => r.tool = "restore" \/ (r.tool = "click" /\ r.seen \in Docs)
    /\ r.pc \in {"facts", "save", "act", "settle"} => r.tool \in {"click", "go"}
    /\ r.pc \in {"gate", "ask", "claim", "mark"} => Leaving(r)
    /\ r.pc \in {"open", "view"} => r.tool \in {"peek", "open"}
    /\ r.pc = "drop" => r.tool = "open"
    /\ r.pc = "close" => r.tool \in {"shut", "park", "done"}
    /\ r.pc = "report" => r.tool = "done"
    /\ r.own # Main
    /\ r.pc \in {"view", "drop", "close"} <=> r.own # None

CallsKnown == \A c \in Calls : CallKnown(call[c])

\* A call that was alone all the time is so still.
AloneKnown == \A c \in InFlight : Alone(c) => InFlight = {c}

\* Nobody works in a tab that failed to open, what a peek opened is its own,
\* and what is closed is the side tab no more.
TabsKnown ==
    /\ sideTab # None => page[sideTab] # "lost"
    /\ \A c \in InFlight :
           /\ page[call[c].tab] # "lost"
           /\ call[c].own # None => page[call[c].own] # "lost"
           /\ At(c, "close") => call[c].own # sideTab
           /\ At(c, "view") /\ call[c].tool = "peek" =>
                  /\ page[call[c].own] \in Docs /\ call[c].own # sideTab
                  /\ \A d \in InFlight \ {c} : call[d].own # call[c].own

\* Unless side calls raced, one that opens a side tab has no other beside it,
\* the tabs are accounted for, and the side tab exists until it is dropped.
SideTidy ==
    /\ \A c, d \in InFlight :
           call[c].tool = "open" /\ call[d].tool \in SideTools => c = d
    /\ \A c \in InFlight : call[c].tool = "open" =>
           /\ At(c, "open") => sideTab = None
           /\ At(c, "view") => sideTab = call[c].own /\ page[sideTab] \in Docs
           /\ At(c, "drop") => sideTab = call[c].own /\ page[sideTab] \notin Docs
    /\ \A t \in Tabs \ {Main} : page[t] \in Docs =>
           t = sideTab \/ \E c \in InFlight : call[c].own = t
    /\ sideTab # None =>
           page[sideTab] \in Docs
           \/ \E c \in InFlight : At(c, "drop") /\ call[c].own = sideTab

SideKnown == ~raced => SideTidy

\* A call that goes to the gate still holds what it learned on the way: what
\* it saw is what its tab shows until somebody moves or closes it; somebody said
\* yes to what it is about to do; in a job it has claimed it, and when it runs
\* alone before it was ever done; the checkpoint is its own then, and it began
\* before the session was halted.
CallHolds(c) ==
    LET r == call[c]
    IN  /\ r.pc \in {"save", "gate", "ask", "claim", "mark", "act"} /\ ~r.slid =>
               page[r.tab] \in {r.seen, None}
        /\ r.pc \in {"claim", "mark", "act", "settle"} /\ Leaving(r) => Wanted(c) \in yes
        /\ r.pc = "ask" => host = "chat"
        /\ r.pc \in {"act", "settle"} /\ Leaving(r) /\ host = "job" => <<entity, Wanted(c)>> \in consumed
        /\ Alone(c) =>
               /\ r.pc \in {"mark", "act"} /\ Leaving(r) /\ host = "job" =>
                      <<entity, Wanted(c)>> \notin fired
               /\ r.pc \in {"gate", "ask", "claim", "mark", "act", "settle", "restore"}
                      /\ r.tool = "click" /\ ~r.slid => checkpoint = r.seen
               /\ r.pc # "idle" /\ halted => r.tool \in {"look", "peek", "done"}

\* Somebody said yes to what is recorded; what was said is recorded unless a
\* line was torn; and what a job has done was claimed.
YesKnown ==
    /\ sticky \subseteq yes
    /\ tail = "clean" => told \subseteq sticky
    /\ host = "job" => fired \subseteq consumed

IInv ==
    /\ TypeOK /\ CallsKnown /\ AloneKnown
    /\ TabsKnown /\ SideKnown
    /\ \A c \in Calls : CallHolds(c)
    /\ YesKnown

----------------------------------------------------------------------------

(* How the calls change.                                                   *)

LEMMA TabFacts ==
    /\ Main \in Tabs /\ Idle \in CallStates /\ CallKnown(Idle) /\ Idle.pc = "idle"
    /\ Idle.own = None /\ Docs = {"list", "form", "wall"} /\ None \notin Docs /\ None # "lost"
    /\ None \notin Tabs
  <1>1. Main \in Tabs /\ None \notin Tabs
    BY BoundsAreNumbers, NoneIsNothing DEF Main, Tabs
  <1>2. None \notin Docs /\ Docs = {"list", "form", "wall"}
    BY NoneIsNothing DEF Docs
  <1>3. None # "lost" /\ None # Main
    BY NoneIsNothing DEF Main
  <1> QED BY <1>1, <1>2, <1>3 DEF Idle, CallStates, CallKnown, Tools


\* What a call is when it is over, goes on, or has seen a page.
LEMMA EndsFacts ==
    ASSUME call \in [Calls -> CallStates], NEW c \in Calls, Ends(c)
    PROVE  /\ call' \in [Calls -> CallStates] /\ call'[c] = Idle
           /\ \A d \in Calls \ {c} : call'[d] = call[d]
  BY TabFacts DEF Ends

LEMMA MovesFacts ==
    ASSUME call \in [Calls -> CallStates], NEW c \in Calls, NEW pc \in Pcs, Moves(c, pc)
    PROVE  /\ call' \in [Calls -> CallStates] /\ call'[c].pc = pc
           /\ call'[c].tool = call[c].tool /\ call'[c].tab = call[c].tab
           /\ call'[c].seen = call[c].seen /\ call'[c].own = call[c].own
           /\ call'[c].slid = call[c].slid /\ call'[c].alone = call[c].alone
           /\ \A d \in Calls \ {c} : call'[d] = call[d]
  <1>1. [call[c] EXCEPT !.pc = pc] \in CallStates
    BY DEF CallStates, Pcs
  <1> QED BY <1>1 DEF Moves, CallStates

LEMMA SeesFacts ==
    ASSUME call \in [Calls -> CallStates], NEW c \in Calls, NEW doc \in Docs, NEW pc \in Pcs,
           Sees(c, doc, pc)
    PROVE  /\ call' \in [Calls -> CallStates] /\ call'[c].pc = pc /\ call'[c].seen = doc
           /\ call'[c].tool = call[c].tool /\ call'[c].tab = call[c].tab
           /\ call'[c].own = None /\ ~call'[c].slid /\ call'[c].alone = call[c].alone
           /\ \A d \in Calls \ {c} : call'[d] = call[d]
  <1> DEFINE r == [call[c] EXCEPT !.seen = doc, !.pc = pc, !.slid = FALSE, !.own = None]
  <1>1. call' = [call EXCEPT ![c] = r]
    BY DEF Sees, CallStates
  <1>2. /\ r \in CallStates /\ r.pc = pc /\ r.seen = doc /\ r.tool = call[c].tool
        /\ r.tab = call[c].tab /\ r.own = None /\ ~r.slid /\ r.alone = call[c].alone
    BY DEF CallStates, Pcs
  <1> HIDE DEF r
  <1> QED BY <1>1, <1>2

\* The ledger remembers what it did, and a clean one what is added.
LEMMA AppendFacts ==
    ASSUME TypeOK, NEW approved \in SUBSET Outbound, Append(approved)
    PROVE  /\ sticky' \subseteq Outbound /\ tail' \in {"clean", "torn", "glued", "corrupt"}
           /\ sticky \subseteq sticky' /\ sticky' \subseteq sticky \cup approved
           /\ tail' = "clean" => tail = "clean" /\ sticky' = sticky \cup approved
  <1>1. sticky' = sticky \cup approved \/ sticky' = sticky
    BY DEF Append
  <1>2. tail = "clean" => sticky' = sticky \cup approved
    BY DEF Append
  <1>3. tail' \in {"clean", "torn", "glued", "corrupt"} /\ (tail' = "clean" => tail = "clean")
    BY DEF Append, TypeOK
  <1> QED BY <1>1, <1>2, <1>3 DEF TypeOK

\* A call as it was, but for what happened to its tab.
Same(r, s) ==
    /\ s.pc = r.pc /\ s.tool = r.tool /\ s.tab = r.tab /\ s.seen = r.seen
    /\ s.own = r.own /\ s.alone = r.alone
    /\ r.slid => s.slid

\* A step of call c, which goes on, or is over.
OneCall(c) ==
    /\ c \in InFlight
    /\ call' \in [Calls -> CallStates]
    /\ \A d \in Calls \ {c} : Same(call[d], call'[d])
    /\ \/ call'[c] = Idle
       \/ /\ call'[c].pc # "idle" /\ call'[c].tool = call[c].tool
          /\ call'[c].alone = call[c].alone

\* Pages come, go or change, and who worked in one that changed is told.
PagesKept(c) ==
    \A d \in InFlight \ {c} :
        page'[call[d].tab] \in {page[call[d].tab], None} \/ call'[d].slid

\* What a step of one call keeps of all that is known, when it keeps what is
\* known of the call, the tabs and the ledger.
LEMMA CallStep ==
    ASSUME IInv, NEW c \in Calls, OneCall(c), PagesKept(c),
           TypeOK', CallKnown(call'[c]), CallHolds(c)', TabsKnown', SideKnown', YesKnown',
           host' = host, entity' = entity, yes \subseteq yes', consumed \subseteq consumed'
    PROVE  IInv'
  <1>1. CallsKnown'
    BY DEF IInv, CallsKnown, OneCall, Same, CallKnown, Leaving
  <1>2. InFlight' \subseteq InFlight /\ \A d \in Calls : d \in InFlight' /\ Alone(d)' => Alone(d)
    BY DEF OneCall, Same, InFlight, Alone, Idle
  <1>3. AloneKnown'
    BY <1>2 DEF AloneKnown, IInv, InFlight
  <1>4. ASSUME NEW d \in Calls \ {c} PROVE CallHolds(d)'
    <2>1. CallHolds(d) /\ Same(call[d], call'[d])
      BY DEF IInv, OneCall
    <2>2. call[d].pc # "idle" => ~Alone(d)
      BY DEF IInv, AloneKnown, OneCall, InFlight
    <2>3. call[d].pc # "idle" =>
              page'[call[d].tab] \in {page[call[d].tab], None} \/ call'[d].slid
      BY DEF PagesKept, InFlight
    <2>4. /\ call'[d].pc = call[d].pc /\ call'[d].tool = call[d].tool /\ call'[d].tab = call[d].tab
          /\ call'[d].seen = call[d].seen /\ (call[d].slid => call'[d].slid)
          /\ (call'[d].alone <=> call[d].alone)
      BY <2>1 DEF Same
    <2> QED BY <2>1, <2>2, <2>3, <2>4 DEF CallHolds, Leaving, Wanted, Alone
  <1> QED BY <1>1, <1>3, <1>4 DEF IInv


\* A step that opens, closes and forgets no tab.
TabsQuiet ==
    /\ sideTab' = sideTab /\ raced' = raced
    /\ \A t \in Tabs : page'[t] = page[t] \/ (page[t] \in Docs /\ page'[t] \in Docs)
    /\ \A d \in InFlight' :
           /\ d \in InFlight /\ call'[d].tool = call[d].tool
           /\ call'[d].tab = call[d].tab /\ call'[d].own = call[d].own
           /\ call'[d].pc \in {"open", "view", "drop", "close"} => call'[d].pc = call[d].pc
    /\ \A d \in InFlight : call[d].own # None =>
           call'[d].own = call[d].own /\ call'[d].pc = call[d].pc

LEMMA TabsStay == IInv /\ TabsQuiet => TabsKnown' /\ SideKnown'
  <1> SUFFICES ASSUME IInv, TabsQuiet PROVE TabsKnown' /\ SideKnown'
    OBVIOUS
  <1>1. /\ TabsKnown /\ SideKnown /\ sideTab \in Tabs \cup {None}
        /\ \A d \in Calls : call[d].tab \in Tabs /\ call[d].own \in Tabs \cup {None}
    BY DEF IInv, TypeOK, CallStates
  <1>2. \A t \in Tabs : /\ page[t] # "lost" => page'[t] # "lost"
                        /\ page[t] \in Docs <=> page'[t] \in Docs
    BY DEF TabsQuiet, Docs
  <1>3. \A d \in InFlight : call[d].own # None =>
            d \in InFlight' /\ call'[d].own = call[d].own /\ call'[d].pc = call[d].pc
    BY DEF TabsQuiet, InFlight
  <1>4. \A d \in InFlight' :
            /\ d \in InFlight /\ d \in Calls /\ call'[d].tool = call[d].tool
            /\ call'[d].tab = call[d].tab /\ call'[d].own = call[d].own
            /\ call'[d].pc \in {"open", "view", "drop", "close"} => call'[d].pc = call[d].pc
    BY DEF TabsQuiet, InFlight
  <1>5. TabsKnown'
    <2>1. sideTab' # None => page'[sideTab'] # "lost"
      BY <1>1, <1>2 DEF TabsQuiet, TabsKnown
    <2>2. ASSUME NEW d \in InFlight'
          PROVE  /\ page'[call'[d].tab] # "lost"
                 /\ call'[d].own # None => page'[call'[d].own] # "lost"
                 /\ At(d, "close")' => call'[d].own # sideTab'
                 /\ At(d, "view")' /\ call'[d].tool = "peek" =>
                        /\ page'[call'[d].own] \in Docs /\ call'[d].own # sideTab'
                        /\ \A e \in InFlight' \ {d} : call'[e].own # call'[d].own
      <3>1. /\ page[call[d].tab] # "lost"
            /\ call[d].own # None => page[call[d].own] # "lost"
            /\ At(d, "close") => call[d].own # sideTab
            /\ At(d, "view") /\ call[d].tool = "peek" =>
                   /\ page[call[d].own] \in Docs /\ call[d].own # sideTab
                   /\ \A e \in InFlight \ {d} : call[e].own # call[d].own
        BY <1>1, <1>4 DEF TabsKnown
      <3>2. At(d, "view") => call[d].own # None
        BY <1>4 DEF IInv, CallsKnown, CallKnown, At
      <3> QED BY <1>1, <1>2, <1>4, <3>1, <3>2 DEF TabsQuiet, At
    <2> QED BY <2>1, <2>2 DEF TabsKnown
  <1>6. ASSUME ~raced'
        PROVE  /\ \A c, d \in InFlight' :
                      call'[c].tool = "open" /\ call'[d].tool \in SideTools => c = d
               /\ \A c \in InFlight' : call'[c].tool = "open" =>
                      /\ At(c, "open")' => sideTab' = None
                      /\ At(c, "view")' => sideTab' = call'[c].own /\ page'[sideTab'] \in Docs
                      /\ At(c, "drop")' => sideTab' = call'[c].own /\ page'[sideTab'] \notin Docs
               /\ \A t \in Tabs \ {Main} : page'[t] \in Docs =>
                      t = sideTab' \/ \E c \in InFlight' : call'[c].own = t
               /\ sideTab' # None =>
                      page'[sideTab'] \in Docs
                      \/ \E c \in InFlight' : At(c, "drop")' /\ call'[c].own = sideTab'
    <2>1. sideTab' = sideTab /\ ~raced
      BY <1>6 DEF TabsQuiet
    <2>2. /\ \A c, d \in InFlight :
                 call[c].tool = "open" /\ call[d].tool \in SideTools => c = d
          /\ \A c \in InFlight : call[c].tool = "open" =>
                 /\ At(c, "open") => sideTab = None
                 /\ At(c, "view") => sideTab = call[c].own /\ page[sideTab] \in Docs
                 /\ At(c, "drop") => sideTab = call[c].own /\ page[sideTab] \notin Docs
          /\ \A t \in Tabs \ {Main} : page[t] \in Docs =>
                 t = sideTab \/ \E c \in InFlight : call[c].own = t
          /\ sideTab # None =>
                 page[sideTab] \in Docs
                 \/ \E c \in InFlight : At(c, "drop") /\ call[c].own = sideTab
      BY <1>1, <2>1 DEF SideKnown, SideTidy
    <2>3. \A t \in Tabs \ {Main} : page'[t] \in Docs =>
              t = sideTab' \/ \E c \in InFlight' : call'[c].own = t
      BY <1>2, <1>3, <2>1, <2>2, TabFacts
    <2>4. sideTab' # None =>
              page'[sideTab'] \in Docs
              \/ \E c \in InFlight' : At(c, "drop")' /\ call'[c].own = sideTab'
      BY <1>1, <1>2, <1>3, <2>1, <2>2 DEF At
    <2>5. \A c \in InFlight' : call'[c].tool = "open" =>
              /\ At(c, "open")' => sideTab' = None
              /\ At(c, "view")' => sideTab' = call'[c].own /\ page'[sideTab'] \in Docs
              /\ At(c, "drop")' => sideTab' = call'[c].own /\ page'[sideTab'] \notin Docs
      <3>1. \A c \in InFlight : At(c, "view") \/ At(c, "drop") => call[c].own # None
        BY DEF IInv, CallsKnown, CallKnown, At, InFlight
      <3> QED BY <1>1, <1>2, <1>4, <2>1, <2>2, <3>1 DEF At
    <2>6. \A c, d \in InFlight' :
              call'[c].tool = "open" /\ call'[d].tool \in SideTools => c = d
      BY <1>4, <2>2
    <2> QED BY <2>3, <2>4, <2>5, <2>6
  <1> QED BY <1>5, <1>6 DEF SideKnown, SideTidy


\* The ledger and what it must hold, typed.
RestTyped ==
    /\ halted \in BOOLEAN /\ checkpoint \in Docs \cup {None}
    /\ sticky \subseteq Outbound /\ tail \in {"clean", "torn", "glued", "corrupt"}
    /\ consumed \subseteq Entities \X Outbound
    /\ yes \subseteq Outbound /\ told \subseteq yes /\ fired \subseteq Entities \X Outbound

\* A call that is over holds nothing.
LEMMA OverHolds ==
    ASSUME NEW c \in Calls, call'[c] = Idle PROVE CallHolds(c)'
  BY TabFacts DEF CallHolds

\* A step of one call, that moves no page and no tab.
LEMMA PlainStep ==
    ASSUME IInv, NEW c \in Calls, c \in InFlight, call[c].own = None,
           call' \in [Calls -> CallStates], \A d \in Calls \ {c} : call'[d] = call[d],
           \/ call'[c] = Idle
           \/ /\ call'[c].pc \notin {"idle", "open", "view", "drop", "close"}
              /\ call'[c].tool = call[c].tool /\ call'[c].alone = call[c].alone
              /\ call'[c].tab = call[c].tab
              /\ CallKnown(call'[c]) /\ CallHolds(c)',
           YesKnown', RestTyped', UNCHANGED <<host_, tabs, begun, bounds, raced>>,
           yes \subseteq yes', consumed \subseteq consumed'
    PROVE  IInv'
  <1>1. host' = host /\ entity' = entity /\ page' = page /\ sideTab' = sideTab /\ raced' = raced
    BY DEF host_, tabs
  <1>2. OneCall(c) /\ PagesKept(c)
    BY <1>1 DEF OneCall, Same, PagesKept
  <1>3. CallKnown(call'[c]) /\ CallHolds(c)'
    BY TabFacts, OverHolds
  <1>4. TypeOK'
    BY <1>1 DEF IInv, TypeOK, RestTyped, bounds
  <1>5. TabsQuiet
    <2>1. call'[c] = Idle \/ call'[c].own = None
      BY DEF CallKnown
    <2>2. ASSUME NEW d \in InFlight'
          PROVE  /\ d \in InFlight /\ call'[d].tool = call[d].tool
                 /\ call'[d].tab = call[d].tab /\ call'[d].own = call[d].own
                 /\ call'[d].pc \in {"open", "view", "drop", "close"} => call'[d].pc = call[d].pc
      BY <2>1, TabFacts DEF InFlight
    <2>3. \A d \in InFlight : call[d].own # None =>
              call'[d].own = call[d].own /\ call'[d].pc = call[d].pc
      BY DEF InFlight
    <2> QED BY <1>1, <2>2, <2>3 DEF TabsQuiet
  <1>6. TabsKnown' /\ SideKnown'
    BY <1>5, TabsStay
  <1> QED BY <1>1, <1>2, <1>3, <1>4, <1>6, CallStep

\* What is said, recorded, claimed and done stays accounted for.
LEMMA YesStays ==
    ASSUME IInv, UNCHANGED <<yes, told, fired, consumed, host_>>, UNCHANGED ledger \/ Append({})
    PROVE  /\ YesKnown' /\ yes' = yes /\ told' = told /\ fired' = fired /\ consumed' = consumed
           /\ host' = host /\ entity' = entity
           /\ sticky' = sticky /\ tail' \in {"clean", "torn", "glued", "corrupt"}
  <1>1. sticky' = sticky /\ (tail' = "clean" => tail = "clean")
        /\ tail' \in {"clean", "torn", "glued", "corrupt"}
    <2>1. CASE UNCHANGED ledger
      BY <2>1 DEF IInv, TypeOK, ledger
    <2>2. CASE Append({})
      <3>1. TypeOK /\ {} \in SUBSET Outbound
        BY DEF IInv
      <3> QED BY <2>2, <3>1, AppendFacts
    <2> QED BY <2>1, <2>2
  <1> QED BY <1>1 DEF YesKnown, IInv, host_

\* What is known of a call where it stands.
LEMMA CallFacts ==
    ASSUME IInv, NEW c \in Calls
    PROVE  /\ call \in [Calls -> CallStates] /\ CallKnown(call[c]) /\ CallHolds(c) /\ TypeOK /\ RestTyped
           /\ call[c].pc # "idle" => c \in InFlight
           /\ call[c].pc \notin {"view", "drop", "close"} => call[c].own = None
           /\ call[c].tab \in Tabs
           /\ c \in InFlight /\ ~Gone(c) => page[call[c].tab] \in Docs
  <1>1. call \in [Calls -> CallStates] /\ CallKnown(call[c]) /\ CallHolds(c) /\ TypeOK /\ RestTyped
    BY DEF IInv, CallsKnown, TypeOK, RestTyped
  <1>2. call[c].tab \in Tabs
    BY <1>1 DEF CallStates
  <1>3. c \in InFlight /\ ~Gone(c) => page[call[c].tab] \in Docs
    BY <1>1, <1>2 DEF IInv, TabsKnown, TypeOK, Gone
  <1> QED BY <1>1, <1>2, <1>3 DEF InFlight, CallKnown

----------------------------------------------------------------------------
(* The steps that move no page and no tab.                                 *)

LEMMA LookStep == ASSUME IInv, NEW c \in Calls, Look(c) PROVE IInv'
  <1>1. /\ call \in [Calls -> CallStates] /\ c \in InFlight /\ call[c].own = None /\ TypeOK /\ RestTyped
        /\ call[c].pc = "read"
    BY CallFacts DEF Look, At
  <1>2. /\ UNCHANGED <<host_, tabs, begun, bounds, raced>> /\ UNCHANGED <<halted, disk>>
        /\ UNCHANGED <<yes, told, fired, consumed, host_>> /\ (UNCHANGED ledger \/ Append({}))
    BY DEF Look, disk, history
  <1>3. RestTyped' /\ YesKnown'
    BY <1>1, <1>2, YesStays DEF RestTyped, disk
  <1>4. CASE Gone(c)
    <2>1. Ends(c)
      BY <1>4 DEF Look
    <2> QED BY <1>1, <1>2, <1>3, <2>1, EndsFacts, PlainStep
  <1>5. CASE ~Gone(c)
    <2>1. Sees(c, page[call[c].tab], "judge") /\ page[call[c].tab] \in Docs
      BY <1>1, <1>5, CallFacts DEF Look
    <2>2. /\ call' \in [Calls -> CallStates] /\ call'[c].pc = "judge" /\ call'[c].seen \in Docs
          /\ call'[c].tool = call[c].tool /\ call'[c].tab = call[c].tab
          /\ call'[c].own = None /\ call'[c].alone = call[c].alone
          /\ \A d \in Calls \ {c} : call'[d] = call[d]
      BY <1>1, <2>1, SeesFacts DEF Pcs
    <2>3. CallKnown(call'[c]) /\ CallHolds(c)'
      BY <1>1, <1>2, <2>2, TabFacts, CallFacts DEF CallKnown, CallHolds, Alone
    <2> QED BY <1>1, <1>2, <1>3, <2>2, <2>3, PlainStep
  <1> QED BY <1>4, <1>5


LEMMA JudgeStep == ASSUME IInv, NEW c \in Calls, Judge(c) \/ Unhalt(c) PROVE IInv'
  <1>1. /\ call \in [Calls -> CallStates] /\ c \in InFlight /\ call[c].own = None /\ TypeOK /\ RestTyped
        /\ call[c].pc \in {"judge", "resume"} /\ CallKnown(call[c]) /\ CallHolds(c)
    BY CallFacts DEF Judge, Unhalt, At
  <1>2. /\ UNCHANGED <<host_, tabs, begun, bounds, raced>> /\ UNCHANGED disk
        /\ UNCHANGED <<yes, told, fired, consumed, host_>> /\ (UNCHANGED ledger \/ Append({}))
        /\ halted' \in BOOLEAN
    BY <1>1 DEF Judge, Unhalt, disk, history, RestTyped
  <1>3. RestTyped' /\ YesKnown'
    BY <1>1, <1>2, YesStays DEF RestTyped, disk
  <1>4. CASE Ends(c)
    BY <1>1, <1>2, <1>3, <1>4, EndsFacts, PlainStep
  <1>5. CASE Moves(c, "resume") /\ UNCHANGED halted
    <2>1. /\ call' \in [Calls -> CallStates] /\ call'[c].pc = "resume"
          /\ call'[c].tool = call[c].tool /\ call'[c].tab = call[c].tab
          /\ call'[c].own = None /\ call'[c].alone = call[c].alone
          /\ \A d \in Calls \ {c} : call'[d] = call[d]
      BY <1>1, <1>5, MovesFacts DEF Pcs
    <2>2. CallKnown(call'[c]) /\ CallHolds(c)'
      BY <1>1, <1>2, <1>5, <2>1, TabFacts DEF CallKnown, CallHolds, Alone
    <2> QED BY <1>1, <1>2, <1>3, <2>1, <2>2, PlainStep
  <1> QED BY <1>4, <1>5 DEF Judge, Unhalt

\* A call that is over after an event, or none.
LEMMA EndStep ==
    ASSUME IInv, NEW c \in Calls, call[c].pc \notin {"idle", "view", "drop", "close"}, Ends(c),
           UNCHANGED ledger \/ Append({}), UNCHANGED <<host_, tabs, begun, halted, disk, bounds, history>>
    PROVE  IInv'
  <1>1. /\ call \in [Calls -> CallStates] /\ c \in InFlight /\ call[c].own = None /\ TypeOK /\ RestTyped
    BY CallFacts
  <1>2. UNCHANGED <<yes, told, fired, consumed, host_>>
    BY DEF disk, history
  <1>3. RestTyped' /\ YesKnown'
    BY <1>1, <1>2, YesStays DEF RestTyped, disk
  <1> QED BY <1>1, <1>2, <1>3, EndsFacts, PlainStep DEF history

LEMMA FactsStep == ASSUME IInv, NEW c \in Calls, Facts(c) PROVE IInv'
  <1>1. /\ call \in [Calls -> CallStates] /\ c \in InFlight /\ call[c].own = None /\ TypeOK /\ RestTyped
        /\ call[c].pc = "facts" /\ CallKnown(call[c]) /\ CallHolds(c)
    BY CallFacts DEF Facts, At
  <1>2. CASE Gone(c)
    BY <1>1, <1>2, EndStep DEF Facts
  <1>3. CASE ~Gone(c)
    <2>1. /\ UNCHANGED <<host_, tabs, begun, bounds, raced>> /\ UNCHANGED <<halted, disk>>
          /\ UNCHANGED <<yes, told, fired, consumed, host_>> /\ UNCHANGED ledger
      BY DEF Facts, disk, history
    <2>2. RestTyped' /\ YesKnown'
      BY <1>1, <2>1, YesStays DEF RestTyped, disk
    <2>3. Sees(c, page[call[c].tab], "save") /\ page[call[c].tab] \in Docs
      BY <1>1, <1>3, CallFacts DEF Facts
    <2>4. /\ call' \in [Calls -> CallStates] /\ call'[c].pc = "save"
          /\ call'[c].seen \in Docs /\ call'[c].seen = page[call[c].tab]
          /\ call'[c].tool = call[c].tool /\ call'[c].tab = call[c].tab
          /\ call'[c].own = None /\ call'[c].alone = call[c].alone
          /\ \A d \in Calls \ {c} : call'[d] = call[d]
      BY <1>1, <2>3, SeesFacts DEF Pcs
    <2>5. CallKnown(call'[c]) /\ CallHolds(c)'
      BY <1>1, <2>1, <2>4, TabFacts DEF CallKnown, CallHolds, Alone, tabs
    <2> QED BY <1>1, <2>1, <2>2, <2>4, <2>5, PlainStep
  <1> QED BY <1>2, <1>3

\* A call that goes on and sees what it saw.
Moved(c, pc) ==
    /\ call'[c].pc = pc /\ call'[c].tool = call[c].tool /\ call'[c].tab = call[c].tab
    /\ call'[c].seen = call[c].seen /\ call'[c].own = call[c].own
    /\ call'[c].slid = call[c].slid /\ call'[c].alone = call[c].alone

LEMMA MoveStep ==
    ASSUME IInv, NEW c \in Calls, c \in InFlight, call[c].own = None,
           NEW pc \in Pcs \ {"idle", "open", "view", "drop", "close"}, Moves(c, pc),
           CallKnown([call[c] EXCEPT !.pc = pc]), Moved(c, pc) => CallHolds(c)',
           YesKnown', RestTyped', UNCHANGED <<host_, tabs, begun, bounds, raced>>,
           yes \subseteq yes', consumed \subseteq consumed'
    PROVE  IInv'
  <1>1. call \in [Calls -> CallStates]
    BY CallFacts
  <1>2. call' \in [Calls -> CallStates] /\ Moved(c, pc) /\ \A d \in Calls \ {c} : call'[d] = call[d]
    BY <1>1, MovesFacts DEF Moved
  <1>3. call'[c] = [call[c] EXCEPT !.pc = pc]
    BY <1>1 DEF Moves, CallStates
  <1>4. CallKnown(call'[c])
    BY <1>3
  <1> QED BY <1>2, <1>4, PlainStep DEF Moved


LEMMA SaveStep == ASSUME IInv, NEW c \in Calls, Save(c) PROVE IInv'
  <1>1. /\ call \in [Calls -> CallStates] /\ c \in InFlight /\ call[c].own = None /\ TypeOK /\ RestTyped
        /\ call[c].pc = "save" /\ CallKnown(call[c]) /\ CallHolds(c)
    BY CallFacts DEF Save, At
  <1>2. CASE Gone(c)
    BY <1>1, <1>2, EndStep DEF Save, disk
  <1>3. CASE ~Gone(c)
    <2> DEFINE pc == IF Outgoing(c) THEN "gate" ELSE "act"
    <2>1. /\ checkpoint' = page[call[c].tab] /\ Moves(c, pc) /\ page[call[c].tab] \in Docs
      BY <1>1, <1>3, CallFacts DEF Save
    <2>2. /\ UNCHANGED <<host_, tabs, begun, bounds, raced>> /\ UNCHANGED halted
          /\ UNCHANGED <<yes, told, fired, consumed, host_>> /\ UNCHANGED ledger
      BY DEF Save, history
    <2>3. RestTyped' /\ YesKnown'
      BY <1>1, <2>1, <2>2, YesStays DEF RestTyped
    <2>4. pc \in Pcs \ {"idle", "open", "view", "drop", "close"} /\ CallKnown([call[c] EXCEPT !.pc = pc])
      BY <1>1 DEF Pcs, CallKnown, CallStates, Outgoing, Leaving
    <2>5. ASSUME Moved(c, pc) PROVE CallHolds(c)'
      <3>1. ~Leaving(call[c]) <=> pc = "act"
        BY DEF Leaving, Outgoing
      <3>2. ~call[c].slid => page[call[c].tab] = call[c].seen
        BY <1>1, <2>1, TabFacts DEF CallHolds
      <3>3. pc \in {"gate", "act"} /\ (pc = "gate" => Leaving(call[c]))
        BY DEF Leaving, Outgoing
      <3> HIDE DEF pc
      <3> QED BY <1>1, <2>1, <2>2, <2>5, <3>1, <3>2, <3>3
              DEF CallHolds, Leaving, Alone, tabs, Moved
    <2> HIDE DEF pc
    <2> QED BY <1>1, <2>1, <2>2, <2>3, <2>4, <2>5, MoveStep
  <1> QED BY <1>2, <1>3

LEMMA GrantStep == ASSUME IInv, NEW c \in Calls, Grant(c) PROVE IInv'
  <1>1. /\ call \in [Calls -> CallStates] /\ c \in InFlight /\ call[c].own = None /\ TypeOK /\ RestTyped
        /\ call[c].pc = "gate" /\ CallKnown(call[c]) /\ CallHolds(c) /\ Leaving(call[c])
        /\ YesKnown
    BY CallFacts DEF Grant, At, CallKnown, IInv
  <1>2. /\ UNCHANGED <<host_, tabs, begun, bounds, raced>> /\ UNCHANGED <<halted, disk>>
        /\ UNCHANGED <<told, fired, consumed, checkpoint>> /\ Append({}) /\ Moves(c, "claim")
        /\ yes' = yes \cup {Wanted(c)} /\ Wanted(c) \in Outbound
    BY <1>1 DEF Grant, disk, Leaving, Wanted
  <1>3. RestTyped' /\ YesKnown'
    <2>1. {} \in SUBSET Outbound
      OBVIOUS
    <2>2. sticky' = sticky /\ (tail' = "clean" => tail = "clean")
          /\ tail' \in {"clean", "torn", "glued", "corrupt"}
      BY <1>1, <1>2, <2>1, AppendFacts
    <2> QED BY <1>1, <1>2, <2>2 DEF RestTyped, YesKnown, host_
  <1>4. "claim" \in Pcs \ {"idle", "open", "view", "drop", "close"}
        /\ CallKnown([call[c] EXCEPT !.pc = "claim"])
    BY <1>1 DEF Pcs, CallKnown, CallStates, Leaving
  <1>5. Moved(c, "claim") => CallHolds(c)'
    BY <1>1, <1>2, TabFacts DEF CallHolds, Leaving, Wanted, Alone, tabs, host_, Moved
  <1> QED BY <1>1, <1>2, <1>3, <1>4, <1>5, MoveStep

LEMMA RemembersStep == ASSUME IInv, NEW c \in Calls, Remembers(c) PROVE IInv'
  <1>1. /\ call \in [Calls -> CallStates] /\ c \in InFlight /\ call[c].own = None /\ TypeOK /\ RestTyped
        /\ call[c].pc = "gate" /\ CallKnown(call[c]) /\ CallHolds(c) /\ Leaving(call[c])
        /\ YesKnown /\ host = "chat"
    BY CallFacts DEF Remembers, At, CallKnown, IInv
  <1>2. CASE Ends(c)
    BY <1>1, <1>2, EndStep DEF Remembers
  <1>3. CASE ~Ends(c)
    <2> DEFINE pc == IF Wanted(c) \in sticky THEN "act" ELSE "ask"
    <2>1. /\ UNCHANGED <<host_, tabs, begun, bounds, raced>> /\ UNCHANGED <<halted, disk>>
          /\ UNCHANGED <<yes, told, fired, consumed, host_>> /\ UNCHANGED ledger /\ Moves(c, pc)
      BY <1>3 DEF Remembers, disk, history
    <2>2. RestTyped' /\ YesKnown'
      BY <1>1, <2>1, YesStays DEF RestTyped, disk
    <2>3. pc \in Pcs \ {"idle", "open", "view", "drop", "close"} /\ CallKnown([call[c] EXCEPT !.pc = pc])
      BY <1>1 DEF Pcs, CallKnown, CallStates, Leaving
    <2>4. ASSUME Moved(c, pc) PROVE CallHolds(c)'
      <3>1. pc \in {"act", "ask"} /\ (pc = "act" => Wanted(c) \in yes)
        BY <1>1 DEF YesKnown
      <3> HIDE DEF pc
      <3> QED BY <1>1, <2>1, <2>4, <3>1, TabFacts
              DEF CallHolds, Leaving, Wanted, Alone, tabs, host_, disk, Moved
    <2> HIDE DEF pc
    <2> QED BY <1>1, <2>1, <2>2, <2>3, <2>4, MoveStep
  <1> QED BY <1>2, <1>3

LEMMA AnswerStep == ASSUME IInv, NEW c \in Calls, Answer(c) PROVE IInv'
  <1>1. /\ call \in [Calls -> CallStates] /\ c \in InFlight /\ call[c].own = None /\ TypeOK /\ RestTyped
        /\ call[c].pc = "ask" /\ CallKnown(call[c]) /\ CallHolds(c) /\ Leaving(call[c])
        /\ YesKnown /\ host = "chat"
    BY CallFacts DEF Answer, At, CallKnown, IInv, CallHolds
  <1>2. CASE Ends(c) /\ Append({}) /\ UNCHANGED <<yes, told>>
    BY <1>1, <1>2, EndStep DEF Answer, history
  <1>3. CASE Append({Wanted(c)}) /\ Moves(c, "act")
             /\ yes' = yes \cup {Wanted(c)} /\ told' = told \cup {Wanted(c)}
    <2>1. /\ UNCHANGED <<host_, tabs, begun, bounds, raced>> /\ UNCHANGED <<halted, disk, fired>>
          /\ UNCHANGED <<consumed, checkpoint>> /\ Wanted(c) \in Outbound
      BY <1>1 DEF Answer, disk, Leaving, Wanted
    <2>2. RestTyped' /\ YesKnown'
      <3>1. {Wanted(c)} \in SUBSET Outbound
        BY <2>1
      <3>2. /\ sticky' \subseteq Outbound /\ tail' \in {"clean", "torn", "glued", "corrupt"}
            /\ sticky' \subseteq sticky \cup {Wanted(c)}
            /\ tail' = "clean" => tail = "clean" /\ sticky' = sticky \cup {Wanted(c)}
        BY <1>1, <1>3, <3>1, AppendFacts
      <3> QED BY <1>1, <1>3, <2>1, <3>2 DEF RestTyped, YesKnown, host_
    <2>3. "act" \in Pcs \ {"idle", "open", "view", "drop", "close"}
          /\ CallKnown([call[c] EXCEPT !.pc = "act"])
      BY <1>1 DEF Pcs, CallKnown, CallStates, Leaving
    <2>4. Moved(c, "act") => CallHolds(c)'
      BY <1>1, <1>3, <2>1, TabFacts DEF CallHolds, Leaving, Wanted, Alone, tabs, host_, Moved
    <2> QED BY <1>1, <1>3, <2>1, <2>2, <2>3, <2>4, MoveStep
  <1> QED BY <1>2, <1>3 DEF Answer


LEMMA ClaimStep == ASSUME IInv, NEW c \in Calls, Claim(c) PROVE IInv'
  <1>1. /\ call \in [Calls -> CallStates] /\ c \in InFlight /\ call[c].own = None /\ TypeOK /\ RestTyped
        /\ call[c].pc = "claim" /\ CallKnown(call[c]) /\ CallHolds(c) /\ Leaving(call[c])
        /\ YesKnown
    BY CallFacts DEF Claim, At, CallKnown, IInv
  <1>2. CASE <<entity, Wanted(c)>> \in consumed
    BY <1>1, <1>2, EndStep DEF Claim
  <1>3. CASE <<entity, Wanted(c)>> \notin consumed
    <2>1. /\ UNCHANGED <<host_, tabs, begun, bounds, raced>> /\ UNCHANGED <<halted, disk>>
          /\ UNCHANGED <<yes, told, fired, consumed, host_>> /\ UNCHANGED ledger /\ Moves(c, "mark")
      BY <1>3 DEF Claim, disk, history
    <2>2. RestTyped' /\ YesKnown'
      BY <1>1, <2>1, YesStays DEF RestTyped, disk
    <2>3. "mark" \in Pcs \ {"idle", "open", "view", "drop", "close"}
          /\ CallKnown([call[c] EXCEPT !.pc = "mark"])
      BY <1>1 DEF Pcs, CallKnown, CallStates, Leaving
    <2>4. Moved(c, "mark") => CallHolds(c)'
      <3>1. host = "job" => <<entity, Wanted(c)>> \notin fired
        BY <1>1, <1>3 DEF YesKnown
      <3> QED BY <1>1, <2>1, <3>1, TabFacts
              DEF CallHolds, Leaving, Wanted, Alone, tabs, host_, disk, Moved
    <2> QED BY <1>1, <2>1, <2>2, <2>3, <2>4, MoveStep
  <1> QED BY <1>2, <1>3

LEMMA MarkStep == ASSUME IInv, NEW c \in Calls, Mark(c) PROVE IInv'
  <1>1. /\ call \in [Calls -> CallStates] /\ c \in InFlight /\ call[c].own = None /\ TypeOK /\ RestTyped
        /\ call[c].pc = "mark" /\ CallKnown(call[c]) /\ CallHolds(c) /\ Leaving(call[c])
        /\ YesKnown
    BY CallFacts DEF Mark, At, CallKnown, IInv
  <1>2. /\ UNCHANGED <<host_, tabs, begun, bounds, raced>> /\ UNCHANGED <<halted, checkpoint>>
        /\ UNCHANGED <<yes, told, fired, ledger>> /\ Moves(c, "act")
        /\ consumed' = consumed \cup {<<entity, Wanted(c)>>} /\ Wanted(c) \in Outbound
    BY <1>1 DEF Mark, history, Leaving, Wanted
  <1>3. RestTyped' /\ YesKnown'
    BY <1>1, <1>2 DEF RestTyped, YesKnown, host_, ledger, TypeOK
  <1>4. "act" \in Pcs \ {"idle", "open", "view", "drop", "close"}
        /\ CallKnown([call[c] EXCEPT !.pc = "act"])
    BY <1>1 DEF Pcs, CallKnown, CallStates, Leaving
  <1>5. Moved(c, "act") => CallHolds(c)'
    BY <1>1, <1>2, TabFacts DEF CallHolds, Leaving, Wanted, Alone, tabs, host_, Moved
  <1> QED BY <1>1, <1>2, <1>3, <1>4, <1>5, MoveStep

LEMMA SettleStep == ASSUME IInv, NEW c \in Calls, Settle(c) PROVE IInv'
  <1>1. /\ call \in [Calls -> CallStates] /\ c \in InFlight /\ call[c].own = None /\ TypeOK /\ RestTyped
        /\ call[c].pc = "settle" /\ CallKnown(call[c]) /\ CallHolds(c) /\ YesKnown
    BY CallFacts DEF Settle, At, IInv
  <1>2. /\ UNCHANGED <<host_, tabs, begun, bounds, raced>> /\ UNCHANGED <<halted, disk>>
        /\ UNCHANGED <<yes, told, fired, consumed, checkpoint>>
    BY DEF Settle, disk, history
  <1>3. CASE Gone(c)
    BY <1>1, <1>3, EndStep DEF Settle
  <1>4. ASSUME NEW approved \in SUBSET Outbound, approved \subseteq yes, Append(approved)
        PROVE  RestTyped' /\ YesKnown'
    <2>1. /\ sticky' \subseteq Outbound /\ tail' \in {"clean", "torn", "glued", "corrupt"}
          /\ sticky' \subseteq sticky \cup approved
          /\ tail' = "clean" => tail = "clean" /\ sticky' = sticky \cup approved
      BY <1>1, <1>4, AppendFacts
    <2> QED BY <1>1, <1>2, <1>4, <2>1 DEF RestTyped, YesKnown, host_
  <1>5. CASE ~Gone(c) /\ Sees(c, page[call[c].tab], "judge")
    <2> DEFINE approved == IF Outgoing(c) /\ host = "chat" THEN {Wanted(c)} ELSE {}
    <2>1. RestTyped' /\ YesKnown'
      <3>1. approved \in SUBSET Outbound /\ approved \subseteq yes
        BY <1>1 DEF Outgoing, Wanted, CallHolds, Leaving
      <3>2. {} \in SUBSET Outbound /\ {} \subseteq yes
        OBVIOUS
      <3>3. Append(approved) \/ Append({})
        BY <1>5 DEF Settle
      <3> QED BY <1>4, <3>1, <3>2, <3>3
    <2>2. page[call[c].tab] \in Docs
      BY <1>1, <1>5, CallFacts
    <2>3. /\ call' \in [Calls -> CallStates] /\ call'[c].pc = "judge" /\ call'[c].seen \in Docs
          /\ call'[c].tool = call[c].tool /\ call'[c].tab = call[c].tab
          /\ call'[c].own = None /\ call'[c].alone = call[c].alone
          /\ \A d \in Calls \ {c} : call'[d] = call[d]
      BY <1>1, <1>5, <2>2, SeesFacts DEF Pcs
    <2>4. CallKnown(call'[c]) /\ CallHolds(c)'
      BY <1>1, <1>2, <2>3, TabFacts DEF CallKnown, CallHolds, Alone
    <2> QED BY <1>1, <1>2, <2>1, <2>3, <2>4, PlainStep
  <1>6. CASE Moves(c, "restore") /\ Append({}) /\ call[c].tool = "click"
    <2>1. RestTyped' /\ YesKnown'
      <3>1. {} \in SUBSET Outbound /\ {} \subseteq yes
        OBVIOUS
      <3> QED BY <1>4, <1>6, <3>1
    <2>2. "restore" \in Pcs \ {"idle", "open", "view", "drop", "close"}
          /\ CallKnown([call[c] EXCEPT !.pc = "restore"])
      BY <1>1, <1>6 DEF Pcs, CallKnown, CallStates, Leaving
    <2>3. Moved(c, "restore") => CallHolds(c)'
      BY <1>1, <1>2, TabFacts DEF CallHolds, Leaving, Wanted, Alone, tabs, host_, Moved
    <2> QED BY <1>1, <1>2, <1>6, <2>1, <2>2, <2>3, MoveStep
  <1> QED BY <1>3, <1>5, <1>6 DEF Settle

----------------------------------------------------------------------------
(* The steps that move a page.                                             *)

\* A page that a call, or nobody, moves, and the calls that work in it.
LEMMA ShowsFacts ==
    ASSUME TypeOK, NEW c \in Calls \cup {None}, NEW t \in Tabs, NEW doc \in Docs,
           NEW update \in CallStates, Shows(c, t, doc, update)
    PROVE  /\ page' \in [Tabs -> Docs \cup {"lost", None}] /\ page'[t] = doc
           /\ \A u \in Tabs \ {t} : page'[u] = page[u]
           /\ call' \in [Calls -> CallStates] /\ (c \in Calls => call'[c] = update)
           /\ \A d \in Calls \ {c} : Same(call[d], call'[d])
           /\ PagesKept(c)
  <1>1. /\ page' = [page EXCEPT ![t] = doc] /\ page \in [Tabs -> Docs \cup {"lost", None}]
        /\ call \in [Calls -> CallStates]
        /\ call' = [d \in Calls |->
                      IF d = c THEN update
                      ELSE IF call[d].tab = t /\ doc # page[t] THEN [call[d] EXCEPT !.slid = TRUE]
                      ELSE call[d]]
    BY DEF Shows, TypeOK
  <1>2. /\ page' \in [Tabs -> Docs \cup {"lost", None}] /\ page'[t] = doc
        /\ \A u \in Tabs \ {t} : page'[u] = page[u]
    BY <1>1
  <1>3. ASSUME NEW d \in Calls \ {c}
        PROVE  /\ call'[d] \in CallStates /\ Same(call[d], call'[d])
               /\ page'[call[d].tab] = page[call[d].tab] \/ call'[d].slid
    <2>1. call[d] \in CallStates /\ call[d].tab \in Tabs
      BY <1>1 DEF CallStates
    <2>2. CASE call[d].tab = t /\ doc # page[t]
      <3>1. call'[d] = [call[d] EXCEPT !.slid = TRUE]
        BY <1>1, <2>2
      <3> QED BY <2>1, <3>1 DEF Same, CallStates
    <2>3. CASE ~(call[d].tab = t /\ doc # page[t])
      <3>1. call'[d] = call[d]
        BY <1>1, <2>3
      <3> QED BY <1>2, <2>1, <2>3, <3>1 DEF Same
    <2> QED BY <2>2, <2>3
  <1>4. c \in Calls => call'[c] = update
    BY <1>1
  <1>5. call' \in [Calls -> CallStates]
    <2>1. \A d \in Calls : call'[d] \in CallStates
      BY <1>3, <1>4
    <2> QED BY <1>1, <2>1, Zenon
  <1> QED BY <1>2, <1>3, <1>4, <1>5 DEF PagesKept, InFlight

\* A page that is moved leaves the tabs as they are.
LEMMA ShownTabs ==
    ASSUME IInv, NEW c \in Calls \cup {None}, NEW t \in Tabs, NEW doc \in Docs,
           page[t] \in Docs, page'[t] = doc, \A u \in Tabs \ {t} : page'[u] = page[u],
           \A d \in Calls \ {c} : Same(call[d], call'[d]),
           c \in Calls => /\ c \in InFlight /\ call[c].own = None /\ call'[c].own = None
                          /\ call'[c].tool = call[c].tool /\ call'[c].tab = call[c].tab
                          /\ call'[c].pc \notin {"open", "view", "drop", "close"},
           sideTab' = sideTab, raced' = raced
    PROVE  TabsKnown' /\ SideKnown'
  <1>1. \A u \in Tabs : page'[u] = page[u] \/ (page[u] \in Docs /\ page'[u] \in Docs)
    OBVIOUS
  <1>2. ASSUME NEW d \in InFlight'
        PROVE  /\ d \in InFlight /\ call'[d].tool = call[d].tool
               /\ call'[d].tab = call[d].tab /\ call'[d].own = call[d].own
               /\ call'[d].pc \in {"open", "view", "drop", "close"} => call'[d].pc = call[d].pc
    BY DEF InFlight, Same
  <1>3. \A d \in InFlight : call[d].own # None =>
            call'[d].own = call[d].own /\ call'[d].pc = call[d].pc
    BY DEF InFlight, Same
  <1> QED BY <1>1, <1>2, <1>3, TabsStay DEF TabsQuiet


LEMMA ActStep == ASSUME IInv, NEW c \in Calls, Act(c) PROVE IInv'
  <1> DEFINE t == call[c].tab
             stops == Gone(c) \/ (call[c].tool = "click" /\ Control[page[t]] = "none")
             update == [call[c] EXCEPT !.pc = "settle"]
  <1>1. /\ call \in [Calls -> CallStates] /\ c \in InFlight /\ call[c].own = None /\ TypeOK /\ RestTyped
        /\ call[c].pc = "act" /\ CallKnown(call[c]) /\ CallHolds(c) /\ t \in Tabs /\ YesKnown
    BY CallFacts DEF Act, At, IInv
  <1>2. /\ UNCHANGED <<host_, begun, bounds, raced>> /\ UNCHANGED <<halted, disk, sideTab>>
        /\ UNCHANGED <<yes, told, consumed, checkpoint>> /\ UNCHANGED ledger
    BY DEF Act, disk
  <1>3. CASE stops
    <2>1. Ends(c) /\ UNCHANGED <<page, fired>>
      BY <1>3 DEF Act
    <2> QED BY <1>1, <1>2, <2>1, EndStep DEF tabs, history
  <1>4. CASE ~stops
    <2>1. PICK doc \in Docs : Shows(c, t, doc, update)
      BY <1>4 DEF Act
    <2>2. page[t] \in Docs
      BY <1>1, <1>4, CallFacts
    <2>3. /\ update \in CallStates /\ update.pc = "settle" /\ update.tool = call[c].tool
          /\ update.tab = call[c].tab /\ update.seen = call[c].seen /\ update.own = call[c].own
          /\ update.slid = call[c].slid /\ update.alone = call[c].alone
      BY <1>1 DEF CallStates
    <2> HIDE DEF update
    <2>4. /\ page' \in [Tabs -> Docs \cup {"lost", None}] /\ page'[t] = doc
          /\ \A u \in Tabs \ {t} : page'[u] = page[u]
          /\ call' \in [Calls -> CallStates] /\ call'[c] = update
          /\ \A d \in Calls \ {c} : Same(call[d], call'[d])
          /\ PagesKept(c)
      BY <1>1, <2>1, <2>3, ShowsFacts
    <2>5. TabsKnown' /\ SideKnown'
      BY <1>1, <1>2, <2>2, <2>3, <2>4, ShownTabs DEF bounds
    <2>6. OneCall(c)
      BY <1>1, <2>3, <2>4 DEF OneCall
    <2>7. fired' \subseteq Entities \X Outbound /\ (host = "job" => fired' \subseteq consumed)
      <3>1. fired' = IF call[c].tool = "click" /\ ~call[c].slid
                     THEN fired \cup ({entity} \X ({Control[page[t]]} \cap Outbound))
                     ELSE fired
        BY <1>4 DEF Act
      <3>2. CASE call[c].tool = "click" /\ ~call[c].slid
        <4>1. page[t] = call[c].seen
          BY <1>1, <2>2, <3>2, TabFacts DEF CallHolds
        <4>2. Control[page[t]] \in Outbound /\ host = "job" =>
                  <<entity, Control[page[t]]>> \in consumed
          BY <1>1, <3>2, <4>1 DEF CallHolds, Leaving, Wanted
        <4>3. entity \in Entities
          BY <1>1 DEF TypeOK
        <4> QED BY <1>1, <3>1, <3>2, <4>2, <4>3 DEF YesKnown, RestTyped
      <3>3. CASE ~(call[c].tool = "click" /\ ~call[c].slid)
        BY <1>1, <3>1, <3>3 DEF YesKnown, RestTyped
      <3> QED BY <3>2, <3>3
    <2>8. YesKnown'
      BY <1>1, <1>2, <2>7 DEF YesKnown, ledger, host_
    <2>9. TypeOK'
      <3>1. Main \in Tabs /\ page'[Main] \in Docs
        BY <1>1, <2>2, <2>4, TabFacts DEF TypeOK
      <3> QED BY <1>1, <1>2, <2>4, <2>7, <3>1 DEF TypeOK, ledger, host_, bounds
    <2>10. CallKnown(call'[c]) /\ CallHolds(c)'
      <3>1. CallKnown(call'[c])
        BY <1>1, <2>3, <2>4 DEF CallKnown, Leaving
      <3>2. CallHolds(c)'
        BY <1>1, <1>2, <2>3, <2>4 DEF CallHolds, Leaving, Wanted, Alone, host_
      <3> QED BY <3>1, <3>2
    <2> QED BY <1>1, <1>2, <2>4, <2>5, <2>6, <2>8, <2>9, <2>10, CallStep DEF host_
  <1> QED BY <1>3, <1>4


LEMMA RestoreStep == ASSUME IInv, NEW c \in Calls, Restore(c) PROVE IInv'
  <1> DEFINE t == call[c].tab
  <1>1. /\ call \in [Calls -> CallStates] /\ c \in InFlight /\ call[c].own = None /\ TypeOK /\ RestTyped
        /\ call[c].pc = "restore" /\ CallKnown(call[c]) /\ CallHolds(c) /\ t \in Tabs
    BY CallFacts DEF Restore, At
  <1>2. /\ UNCHANGED <<host_, begun, bounds, raced>> /\ UNCHANGED <<halted, disk, sideTab>>
        /\ UNCHANGED <<yes, told, fired, consumed, host_>> /\ UNCHANGED history
    BY DEF Restore, disk, history
  <1>3. CASE Gone(c) \/ checkpoint = None
    BY <1>1, <1>3, EndStep DEF Restore, tabs
  <1>4. CASE ~(Gone(c) \/ checkpoint = None)
    <2>1. PICK doc \in {checkpoint, "wall"} :
              Shows(c, t, doc, [call[c] EXCEPT !.seen = doc, !.pc = "judge"])
      BY <1>4 DEF Restore
    <2> DEFINE update == [call[c] EXCEPT !.seen = doc, !.pc = "judge"]
    <2>2. page[t] \in Docs /\ doc \in Docs /\ Append({})
      BY <1>1, <1>4, CallFacts, TabFacts DEF RestTyped, Restore
    <2>3. /\ update \in CallStates /\ update.pc = "judge" /\ update.tool = call[c].tool
          /\ update.tab = call[c].tab /\ update.seen = doc /\ update.own = call[c].own
          /\ update.alone = call[c].alone /\ Shows(c, t, doc, update)
      BY <1>1, <2>1, <2>2 DEF CallStates
    <2> HIDE DEF update
    <2>4. /\ page' \in [Tabs -> Docs \cup {"lost", None}] /\ page'[t] = doc
          /\ \A u \in Tabs \ {t} : page'[u] = page[u]
          /\ call' \in [Calls -> CallStates] /\ call'[c] = update
          /\ \A d \in Calls \ {c} : Same(call[d], call'[d])
          /\ PagesKept(c)
      BY <1>1, <2>2, <2>3, ShowsFacts
    <2>5. TabsKnown' /\ SideKnown'
      BY <1>1, <1>2, <2>2, <2>3, <2>4, ShownTabs DEF history
    <2>6. OneCall(c)
      BY <1>1, <2>3, <2>4 DEF OneCall
    <2>7. RestTyped' /\ YesKnown'
      BY <1>1, <1>2, <2>2, YesStays DEF RestTyped, disk
    <2>8. TypeOK'
      <3>1. Main \in Tabs /\ page'[Main] \in Docs
        BY <1>1, <2>2, <2>4, TabFacts DEF TypeOK
      <3> QED BY <1>1, <1>2, <2>4, <2>7, <3>1 DEF TypeOK, RestTyped, host_, bounds, history
    <2>9. CallKnown(call'[c]) /\ CallHolds(c)'
      <3>1. CallKnown(call'[c])
        BY <1>1, <2>2, <2>3, <2>4, TabFacts DEF CallKnown, Leaving
      <3>2. CallHolds(c)'
        BY <1>1, <1>2, <2>3, <2>4 DEF CallHolds, Leaving, Wanted, Alone, host_
      <3> QED BY <3>1, <3>2
    <2> QED BY <1>1, <1>2, <2>4, <2>5, <2>6, <2>7, <2>8, <2>9, CallStep DEF host_
  <1> QED BY <1>3, <1>4

\* A page that a person or the site moves under the calls.
LEMMA ElsewhereStep == ASSUME IInv, NEW t \in Tabs, Elsewhere(t) PROVE IInv'
  <1>1. /\ page[t] \in Docs /\ TypeOK /\ YesKnown /\ moves < MaxMoves /\ moves' = moves + 1
        /\ UNCHANGED <<host_, sideTab, begun, halted, ledger, disk, restarts, history>>
    BY DEF Elsewhere, IInv
  <1>2. PICK doc \in Docs : Shows(None, t, doc, Idle)
    BY DEF Elsewhere
  <1>3. None \notin Calls /\ Idle \in CallStates
    BY TabFacts, NoneIsNothing
  <1>4. /\ page' \in [Tabs -> Docs \cup {"lost", None}] /\ page'[t] = doc
        /\ \A u \in Tabs \ {t} : page'[u] = page[u]
        /\ call' \in [Calls -> CallStates]
        /\ \A d \in Calls : Same(call[d], call'[d])
        /\ PagesKept(None)
    BY <1>1, <1>2, <1>3, ShowsFacts
  <1>5. TabsKnown' /\ SideKnown'
    BY <1>1, <1>3, <1>4, ShownTabs DEF history
  <1>6. InFlight' = InFlight /\ \A d \in Calls : Alone(d)' <=> Alone(d)
    BY <1>4 DEF InFlight, Same, Alone
  <1>7. CallsKnown' /\ AloneKnown'
    <2>1. CallsKnown'
      BY <1>4 DEF IInv, CallsKnown, Same, CallKnown, Leaving
    <2>2. AloneKnown'
      BY <1>6 DEF IInv, AloneKnown, InFlight
    <2> QED BY <2>1, <2>2
  <1>8. ASSUME NEW d \in Calls PROVE CallHolds(d)'
    <2>1. CallHolds(d) /\ Same(call[d], call'[d])
      BY <1>4 DEF IInv
    <2>2. call[d].pc # "idle" =>
              page'[call[d].tab] \in {page[call[d].tab], None} \/ call'[d].slid
      BY <1>3, <1>4 DEF PagesKept, InFlight
    <2>3. /\ call'[d].pc = call[d].pc /\ call'[d].tool = call[d].tool /\ call'[d].tab = call[d].tab
          /\ call'[d].seen = call[d].seen /\ (call[d].slid => call'[d].slid)
          /\ (call'[d].alone <=> call[d].alone)
      BY <2>1 DEF Same
    <2> QED BY <1>1, <2>1, <2>2, <2>3 DEF CallHolds, Leaving, Wanted, Alone, host_, disk, history
  <1>9. YesKnown'
    BY <1>1 DEF YesKnown, ledger, disk, history, host_
  <1>10. TypeOK'
    <2>1. Main \in Tabs /\ page'[Main] \in Docs
      BY <1>1, <1>4, TabFacts DEF TypeOK
    <2>2. moves' \in 0..MaxMoves
      BY <1>1, BoundsAreNumbers DEF TypeOK
    <2> QED BY <1>1, <1>4, <2>1, <2>2 DEF TypeOK, ledger, disk, history, host_
  <1> QED BY <1>5, <1>7, <1>8, <1>9, <1>10 DEF IInv


----------------------------------------------------------------------------
(* The steps that open and close tabs.                                     *)

\* What is known of the tabs, of the calls in them and of the side tab.
LEMMA TabsFacts ==
    ASSUME IInv, NEW c \in InFlight
    PROVE  /\ c \in Calls /\ call \in [Calls -> CallStates] /\ CallKnown(call[c])
           /\ page \in [Tabs -> Docs \cup {"lost", None}] /\ page[Main] \in Docs /\ Main \in Tabs
           /\ sideTab \in Tabs \cup {None} /\ sideTab # Main /\ TabsKnown /\ SideKnown
           /\ call[c].own # None => call[c].own \in Tabs \ {Main}
  <1>1. /\ c \in Calls /\ call \in [Calls -> CallStates] /\ CallKnown(call[c])
    BY DEF InFlight, IInv, TypeOK, CallsKnown
  <1>2. call[c].own # None => call[c].own \in Tabs \ {Main}
    BY <1>1 DEF CallStates, CallKnown
  <1> QED BY <1>1, <1>2, TabFacts DEF IInv, TypeOK

\* A step of one call that opens or closes a tab, or forgets the side tab.
LEMMA TabStep ==
    ASSUME IInv, NEW c \in Calls, c \in InFlight,
           call' \in [Calls -> CallStates], \A d \in Calls \ {c} : call'[d] = call[d],
           \/ call'[c] = Idle
           \/ /\ call'[c].pc \in {"view", "judge", "drop", "read", "close"}
              /\ call'[c].tool = call[c].tool /\ call'[c].alone = call[c].alone
              /\ CallKnown(call'[c]),
           page' \in [Tabs -> Docs \cup {"lost", None}], page'[Main] \in Docs,
           \A d \in InFlight \ {c} : page'[call[d].tab] \in {page[call[d].tab], None},
           sideTab' \in Tabs \cup {None}, sideTab' # Main,
           UNCHANGED ledger \/ Append({}), UNCHANGED <<host_, begun, halted, disk, bounds, history>>,
           TabsKnown', SideKnown'
    PROVE  IInv'
  <1>1. OneCall(c) /\ PagesKept(c)
    <2>1. \A d \in Calls \ {c} : Same(call[d], call'[d])
      BY DEF Same
    <2> QED BY <2>1 DEF OneCall, PagesKept
  <1>2. /\ UNCHANGED <<yes, told, fired, consumed, host_>>
        /\ UNCHANGED <<checkpoint, raced>> /\ RestTyped /\ TypeOK
    BY CallFacts DEF disk, history
  <1>3. RestTyped' /\ YesKnown'
    BY <1>2, YesStays DEF RestTyped
  <1>4. TypeOK'
    BY <1>2, <1>3 DEF TypeOK, RestTyped, host_, bounds
  <1>5. CallKnown(call'[c])
    BY TabFacts
  <1>6. CallHolds(c)'
    <2>1. CASE call'[c] = Idle
      BY <2>1, OverHolds
    <2>2. CASE call'[c] # Idle
      BY <2>2, CallFacts DEF CallHolds, Alone, InFlight
    <2> QED BY <2>1, <2>2
  <1> QED BY <1>1, <1>2, <1>3, <1>4, <1>5, <1>6, CallStep DEF host_


LEMMA OpenStep == ASSUME IInv, NEW c \in Calls, Open(c) PROVE IInv'
  <1>1. /\ c \in InFlight /\ call[c].pc = "open" /\ call[c].own = None
        /\ call[c].tool \in {"peek", "open"}
    BY CallFacts DEF Open, At, CallKnown
  <1>2. /\ call \in [Calls -> CallStates] /\ CallKnown(call[c])
        /\ page \in [Tabs -> Docs \cup {"lost", None}] /\ page[Main] \in Docs /\ Main \in Tabs
        /\ sideTab \in Tabs \cup {None} /\ sideTab # Main /\ TabsKnown /\ SideKnown
    BY <1>1, TabsFacts
  <1>3. UNCHANGED <<host_, begun, halted, ledger, disk, bounds, history>> /\ raced' = raced
    BY DEF Open, history
  <1>4. CASE Ends(c) /\ UNCHANGED tabs
    BY <1>1, <1>3, <1>4, EndStep DEF tabs
  <1>5. ASSUME NEW t \in Tabs, Unused(t), NEW doc \in Docs, page' = [page EXCEPT ![t] = doc],
               call' = [call EXCEPT ![c].own = t, ![c].pc = "view"],
               sideTab' = IF call[c].tool = "open" THEN t ELSE sideTab
        PROVE  IInv'
    <2> DEFINE update == [call[c] EXCEPT !.own = t, !.pc = "view"]
    <2>1. call' = [call EXCEPT ![c] = update]
      BY <1>2, <1>5 DEF CallStates
    <2>2. /\ update \in CallStates /\ update.pc = "view" /\ update.tool = call[c].tool
          /\ update.tab = call[c].tab /\ update.own = t /\ update.alone = call[c].alone
      BY <1>2 DEF CallStates
    <2> HIDE DEF update
    <2>3. /\ call' \in [Calls -> CallStates] /\ call'[c] = update
          /\ \A d \in Calls \ {c} : call'[d] = call[d]
      BY <1>2, <2>1, <2>2
    <2>4. t # Main /\ t # sideTab /\ page[t] = None /\ t # None
          /\ \A d \in InFlight : call[d].own # t /\ call[d].tab # t
      BY <1>2, <1>5, TabFacts DEF Unused
    <2>5. /\ page' \in [Tabs -> Docs \cup {"lost", None}] /\ page'[t] = doc
          /\ \A u \in Tabs \ {t} : page'[u] = page[u]
      BY <1>2, <1>5
    <2>6. \A d \in InFlight' : d \in Calls /\ d \in InFlight /\ (d # c => call'[d] = call[d])
                               /\ call[d].tab \in Tabs /\ call[d].own \in Tabs \cup {None}
      BY <1>1, <1>2, <2>3 DEF InFlight, CallStates
    <2>7. CallKnown(call'[c])
      BY <1>1, <2>2, <2>3, <2>4 DEF CallKnown
    <2>8. TabsKnown'
      <3>1. sideTab' # None => page'[sideTab'] # "lost"
        BY <1>2, <1>5, <2>4, <2>5 DEF TabsKnown, Docs
      <3>2. ASSUME NEW d \in InFlight'
            PROVE  /\ page'[call'[d].tab] # "lost"
                   /\ call'[d].own # None => page'[call'[d].own] # "lost"
                   /\ At(d, "close")' => call'[d].own # sideTab'
                   /\ At(d, "view")' /\ call'[d].tool = "peek" =>
                          /\ page'[call'[d].own] \in Docs /\ call'[d].own # sideTab'
                          /\ \A e \in InFlight' \ {d} : call'[e].own # call'[d].own
        <4>1. CASE d = c
          BY <1>1, <1>2, <1>5, <2>2, <2>3, <2>4, <2>5, <2>6, <4>1 DEF TabsKnown, Docs, At
        <4>2. CASE d # c
          BY <1>1, <1>2, <1>5, <2>2, <2>3, <2>4, <2>5, <2>6, <4>2 DEF TabsKnown, At, CallKnown, CallsKnown, IInv
        <4> QED BY <4>1, <4>2
      <3> QED BY <3>1, <3>2 DEF TabsKnown
    <2>9. SideKnown'
      <3>1. c \in InFlight'
        BY <2>2, <2>3 DEF InFlight
      <3>2. \A d \in InFlight : d \in InFlight' /\ (d # c => call'[d] = call[d])
        BY <2>3, <3>1 DEF InFlight
      <3> SUFFICES ASSUME ~raced' PROVE SideTidy'
        BY DEF SideKnown
      <3>3. SideTidy
        BY <1>2, <1>3 DEF SideKnown
      <3>4. \A d, e \in InFlight' :
                call'[d].tool = "open" /\ call'[e].tool \in SideTools => d = e
        BY <2>2, <2>3, <2>6, <3>3 DEF SideTidy
      <3>5. call[c].tool = "open" => sideTab = None /\ \A d \in InFlight : call[d].tool = "open" => d = c
        BY <1>1, <3>3 DEF SideTidy, At, SideTools
      <3>6. ASSUME NEW d \in InFlight', call'[d].tool = "open"
            PROVE  /\ At(d, "open")' => sideTab' = None
                   /\ At(d, "view")' => sideTab' = call'[d].own /\ page'[sideTab'] \in Docs
                   /\ At(d, "drop")' => sideTab' = call'[d].own /\ page'[sideTab'] \notin Docs
        <4>1. CASE d = c
          BY <1>5, <2>2, <2>3, <2>5, <3>6, <4>1 DEF At
        <4>2. CASE d # c
          <5>1. call'[d] = call[d] /\ d \in InFlight /\ call[c].tool = "peek" /\ sideTab' = sideTab
            BY <1>1, <1>5, <2>6, <3>5, <3>6, <4>2
          <5>2. At(d, "view") \/ At(d, "drop") => sideTab \in Tabs \ {t}
            BY <1>2, <2>4, <2>6, <3>3, <3>6, <5>1 DEF SideTidy, At, IInv, CallsKnown, CallKnown
          <5> QED BY <2>5, <3>3, <3>6, <5>1, <5>2 DEF SideTidy, At
        <4> QED BY <4>1, <4>2
      <3>7. ASSUME NEW u \in Tabs \ {Main}, page'[u] \in Docs
            PROVE  u = sideTab' \/ \E d \in InFlight' : call'[d].own = u
        <4>1. CASE u = t
          BY <2>2, <2>3, <3>1, <4>1
        <4>2. CASE u # t
          <5>1. page[u] \in Docs
            BY <2>5, <3>7, <4>2
          <5>2. CASE u = sideTab
            BY <1>5, <3>5, <5>2, TabFacts
          <5>3. CASE \E d \in InFlight : call[d].own = u
            <6>1. PICK d \in InFlight : call[d].own = u
              BY <5>3
            <6>2. d # c
              BY <1>1, <6>1, TabFacts
            <6> QED BY <3>2, <6>1, <6>2
          <5> QED BY <3>3, <5>1, <5>2, <5>3 DEF SideTidy
        <4> QED BY <4>1, <4>2
      <3>8. sideTab' # None =>
                page'[sideTab'] \in Docs
                \/ \E d \in InFlight' : At(d, "drop")' /\ call'[d].own = sideTab'
        <4>1. CASE call[c].tool = "open"
          BY <1>5, <2>5, <4>1
        <4>2. CASE call[c].tool # "open" /\ sideTab # None
          <5>1. sideTab' = sideTab /\ page'[sideTab] = page[sideTab]
            BY <1>2, <1>5, <2>4, <2>5, <4>2
          <5>2. \A d \in InFlight : At(d, "drop") => d \in InFlight' /\ call'[d] = call[d]
            BY <1>1, <3>2 DEF SideTidy, At
          <5> QED BY <3>3, <4>2, <5>1, <5>2 DEF SideTidy, At
        <4> QED BY <1>5, <4>1, <4>2
      <3> QED BY <3>4, <3>6, <3>7, <3>8 DEF SideTidy
    <2> QED BY <1>1, <1>2, <1>3, <1>5, <2>2, <2>3, <2>4, <2>5, <2>6, <2>7, <2>8, <2>9, TabStep DEF InFlight, CallStates
  <1>6. ASSUME NEW t \in Tabs, Unused(t), page' = [page EXCEPT ![t] = "lost"], Ends(c),
               sideTab' = IF call[c].tool = "open" THEN None ELSE sideTab
        PROVE  IInv'
    <2>1. /\ call' \in [Calls -> CallStates] /\ call'[c] = Idle
          /\ \A d \in Calls \ {c} : call'[d] = call[d]
      BY <1>2, <1>6, EndsFacts
    <2>2. t # Main /\ t # sideTab /\ page[t] = None /\ t # None
          /\ \A d \in InFlight : call[d].own # t /\ call[d].tab # t
      BY <1>2, <1>6, TabFacts DEF Unused
    <2>3. /\ page' \in [Tabs -> Docs \cup {"lost", None}] /\ page'[t] = "lost"
          /\ \A u \in Tabs \ {t} : page'[u] = page[u]
      BY <1>2, <1>6
    <2>4. \A d \in InFlight' : d \in Calls /\ d \in InFlight /\ d # c /\ call'[d] = call[d]
                               /\ call[d].tab \in Tabs /\ call[d].own \in Tabs \cup {None}
      BY <1>1, <1>2, <2>1, TabFacts DEF InFlight, CallStates
    <2>5. TabsKnown'
      <3>1. sideTab' # None => page'[sideTab'] # "lost"
        BY <1>2, <1>6, <2>2, <2>3 DEF TabsKnown
      <3>2. ASSUME NEW d \in InFlight'
            PROVE  /\ page'[call'[d].tab] # "lost"
                   /\ call'[d].own # None => page'[call'[d].own] # "lost"
                   /\ At(d, "close")' => call'[d].own # sideTab'
                   /\ At(d, "view")' /\ call'[d].tool = "peek" =>
                          /\ page'[call'[d].own] \in Docs /\ call'[d].own # sideTab'
                          /\ \A e \in InFlight' \ {d} : call'[e].own # call'[d].own
        BY <1>2, <1>6, <2>2, <2>3, <2>4, <3>2 DEF TabsKnown, At, CallKnown, CallsKnown, IInv
      <3> QED BY <3>1, <3>2 DEF TabsKnown
    <2>6. SideKnown'
      <3>1. \A d \in InFlight \ {c} : d \in InFlight' /\ call'[d] = call[d]
        BY <2>1 DEF InFlight
      <3> SUFFICES ASSUME ~raced' PROVE SideTidy'
        BY DEF SideKnown
      <3>2. SideTidy
        BY <1>2, <1>3 DEF SideKnown
      <3>3. call[c].tool = "open" => sideTab = None
        BY <1>1, <3>2 DEF SideTidy, At
      <3>4. sideTab' = sideTab
        BY <1>6, <3>3
      <3>5. \A u \in Tabs : page'[u] \in Docs <=> page[u] \in Docs
        BY <2>2, <2>3, TabFacts
      <3>6. \A u \in Tabs \ {Main} : page'[u] \in Docs =>
                u = sideTab' \/ \E d \in InFlight' : call'[d].own = u
        BY <1>1, <3>1, <3>2, <3>4, <3>5, TabFacts DEF SideTidy
      <3>7. sideTab' # None =>
                page'[sideTab'] \in Docs
                \/ \E d \in InFlight' : At(d, "drop")' /\ call'[d].own = sideTab'
        BY <1>1, <1>2, <3>1, <3>2, <3>4, <3>5 DEF SideTidy, At
      <3>8. ASSUME NEW d \in InFlight', call'[d].tool = "open"
            PROVE  /\ At(d, "open")' => sideTab' = None
                   /\ At(d, "view")' => sideTab' = call'[d].own /\ page'[sideTab'] \in Docs
                   /\ At(d, "drop")' => sideTab' = call'[d].own /\ page'[sideTab'] \notin Docs
        <4>1. At(d, "view") \/ At(d, "drop") => call[d].own # None
          BY <2>4 DEF At, IInv, CallsKnown, CallKnown
        <4> QED BY <1>2, <2>4, <3>2, <3>4, <3>5, <3>8, <4>1 DEF SideTidy, At
      <3>9. \A d, e \in InFlight' :
                call'[d].tool = "open" /\ call'[e].tool \in SideTools => d = e
        BY <2>4, <3>2 DEF SideTidy
      <3> QED BY <3>6, <3>7, <3>8, <3>9 DEF SideTidy
    <2>7. \A d \in InFlight \ {c} : page'[call[d].tab] = page[call[d].tab]
      BY <1>2, <2>2, <2>3 DEF InFlight, CallStates
    <2>8. page'[Main] \in Docs /\ sideTab' \in Tabs \cup {None} /\ sideTab' # Main
      BY <1>2, <1>6, <2>2, <2>3, TabFacts
    <2> QED BY <1>1, <1>3, <2>1, <2>3, <2>5, <2>6, <2>7, <2>8, TabStep
  <1> QED BY <1>4, <1>5, <1>6 DEF Open


\* A call closes its own tab or none, and lets go of the side tab or not.
Closes(c) ==
    /\ \A u \in Tabs : page'[u] \in {page[u], None} /\ (u # call[c].own => page'[u] = page[u])
    /\ \A d \in Calls \ {c} : call'[d] = call[d]
    /\ sideTab' \in {sideTab, None}
    /\ \/ call'[c] = Idle
       \/ /\ call'[c].pc \notin {"idle", "open", "view"} /\ call'[c].tool = call[c].tool
          /\ call'[c].tab \in Tabs /\ page[call'[c].tab] # "lost"
    /\ call'[c].own \in {None, call[c].own, sideTab}
    /\ call'[c].pc = "close" => call'[c].own # sideTab'
    /\ call'[c].own = None => call'[c].pc # "close"

LEMMA ClosesTabs ==
    ASSUME IInv, NEW c \in InFlight, Closes(c) PROVE TabsKnown'
  <1>1. /\ c \in Calls /\ call \in [Calls -> CallStates] /\ CallKnown(call[c])
        /\ sideTab \in Tabs \cup {None} /\ TabsKnown
        /\ call[c].own # None => call[c].own \in Tabs \ {Main}
    BY TabsFacts
  <1>2. \A u \in Tabs : page[u] # "lost" => page'[u] # "lost"
    BY TabFacts DEF Closes
  <1>3. sideTab' # None => page'[sideTab'] # "lost"
    BY <1>1, <1>2 DEF Closes, TabsKnown
  <1>4. ASSUME NEW d \in InFlight'
        PROVE  /\ page'[call'[d].tab] # "lost"
               /\ call'[d].own # None => page'[call'[d].own] # "lost"
               /\ At(d, "close")' => call'[d].own # sideTab'
               /\ At(d, "view")' /\ call'[d].tool = "peek" =>
                      /\ page'[call'[d].own] \in Docs /\ call'[d].own # sideTab'
                      /\ \A e \in InFlight' \ {d} : call'[e].own # call'[d].own
    <2>1. CASE d = c
      <3>1. call'[c] # Idle
        BY <1>4, <2>1, TabFacts DEF InFlight
      <3>2. page'[call'[c].tab] # "lost" /\ call'[c].pc # "view"
        BY <1>2, <3>1 DEF Closes
      <3>3. call'[c].own # None => page'[call'[c].own] # "lost"
        BY <1>1, <1>2 DEF Closes, TabsKnown
      <3> QED BY <2>1, <3>2, <3>3 DEF Closes, At
    <2>2. CASE d # c
      <3>1. d \in InFlight /\ call'[d] = call[d] /\ d \in Calls
        BY <2>2 DEF Closes, InFlight
      <3>2. call[d].tab \in Tabs /\ call[d].own \in Tabs \cup {None}
        BY <1>1, <3>1 DEF CallStates
      <3>3. At(d, "view") => call[d].own # None
        BY <3>1 DEF At, IInv, CallsKnown, CallKnown
      <3>4. At(d, "close") => call[d].own # None
        BY <3>1 DEF At, IInv, CallsKnown, CallKnown
      <3>5. ASSUME At(d, "view"), call[d].tool = "peek"
            PROVE  /\ page'[call[d].own] \in Docs /\ call[d].own # sideTab'
                   /\ \A e \in InFlight' \ {d} : call'[e].own # call[d].own
        <4>1. /\ page[call[d].own] \in Docs /\ call[d].own # sideTab
              /\ \A e \in InFlight \ {d} : call[e].own # call[d].own
          BY <1>1, <3>1, <3>5 DEF TabsKnown
        <4>2. call[d].own # call[c].own /\ call[d].own \in Tabs
          BY <2>2, <3>2, <3>3, <3>5, <4>1
        <4>3. page'[call[d].own] = page[call[d].own]
          BY <4>2 DEF Closes
        <4>4. \A e \in InFlight' \ {d} : call'[e].own # call[d].own
          BY <3>3, <3>5, <4>1, <4>2 DEF Closes, InFlight
        <4> QED BY <3>3, <3>5, <4>1, <4>3, <4>4 DEF Closes
      <3> QED BY <1>1, <1>2, <3>1, <3>2, <3>4, <3>5 DEF TabsKnown, At, Closes
    <2> QED BY <2>1, <2>2
  <1> QED BY <1>3, <1>4 DEF TabsKnown

\* The tabs stay accounted for when what is let go of is closed.
LEMMA ClosesSide ==
    ASSUME IInv, NEW c \in InFlight, Closes(c), raced' = raced,
           call[c].tool \notin SideTools => sideTab' = sideTab /\ call[c].own # sideTab,
           ~raced /\ At(c, "drop") => sideTab' = None,
           call'[c].pc = "drop" /\ ~raced =>
               sideTab' = call'[c].own /\ page'[sideTab'] \notin Docs,
           sideTab' # None =>
               page'[sideTab] = page[sideTab]
               \/ (call'[c].pc = "drop" /\ call'[c].own = sideTab),
           ~raced => \A u \in {sideTab, call[c].own} \ {None} :
               page'[u] \in Docs => u = sideTab' \/ (call'[c].pc # "idle" /\ call'[c].own = u)
    PROVE  SideKnown'
  <1> SUFFICES ASSUME ~raced' PROVE SideTidy'
    BY DEF SideKnown
  <1>1. /\ c \in Calls /\ call \in [Calls -> CallStates] /\ CallKnown(call[c])
        /\ sideTab \in Tabs \cup {None} /\ SideTidy /\ ~raced
        /\ call[c].own # None => call[c].own \in Tabs \ {Main}
    BY TabsFacts DEF SideKnown
  <1>2. \A d \in InFlight' : d \in InFlight /\ call'[d].tool = call[d].tool /\ d \in Calls
    BY TabFacts DEF Closes, InFlight
  <1>3. \A d \in InFlight \ {c} : d \in InFlight' /\ call'[d] = call[d]
    BY DEF Closes, InFlight
  <1>4. \A d, e \in InFlight' :
            call'[d].tool = "open" /\ call'[e].tool \in SideTools => d = e
    BY <1>1, <1>2 DEF SideTidy
  <1>5. ASSUME NEW d \in InFlight', call'[d].tool = "open"
        PROVE  /\ At(d, "open")' => sideTab' = None
               /\ At(d, "view")' => sideTab' = call'[d].own /\ page'[sideTab'] \in Docs
               /\ At(d, "drop")' => sideTab' = call'[d].own /\ page'[sideTab'] \notin Docs
    <2>1. CASE d = c
      BY <1>1, <1>5, <2>1, TabFacts DEF Closes, At, InFlight
    <2>2. CASE d # c
      <3>1. d \in InFlight /\ call'[d] = call[d] /\ call[d].tool = "open"
        BY <1>2, <1>3, <1>5, <2>2
      <3>2. sideTab' = sideTab /\ call[c].own # sideTab
        BY <1>1, <2>2, <3>1 DEF SideTidy, SideTools
      <3>3. sideTab \in Tabs => page'[sideTab] = page[sideTab]
        BY <3>2 DEF Closes
      <3>4. At(d, "view") \/ At(d, "drop") => call[d].own # None
        BY <3>1 DEF At, IInv, CallsKnown, CallKnown, InFlight
      <3> QED BY <1>1, <3>1, <3>2, <3>3, <3>4 DEF SideTidy, At
    <2> QED BY <2>1, <2>2
  <1>6. ASSUME NEW u \in Tabs \ {Main}, page'[u] \in Docs
        PROVE  u = sideTab' \/ \E d \in InFlight' : call'[d].own = u
    <2>1. page[u] \in Docs /\ u # None
      BY <1>6, TabFacts DEF Closes
    <2>2. CASE u \in {sideTab, call[c].own}
      BY <1>1, <2>1, <1>6, <2>2 DEF InFlight
    <2>3. CASE \E d \in InFlight \ {c} : call[d].own = u
      BY <1>3, <2>3
    <2> QED BY <1>1, <2>1, <2>2, <2>3 DEF SideTidy
  <1>7. ASSUME sideTab' # None
        PROVE  page'[sideTab'] \in Docs
               \/ \E d \in InFlight' : At(d, "drop")' /\ call'[d].own = sideTab'
    <2>1. sideTab' = sideTab /\ ~At(c, "drop")
      BY <1>1, <1>7 DEF Closes
    <2>2. CASE call'[c].pc = "drop" /\ call'[c].own = sideTab
      BY <1>1, <2>1, <2>2 DEF InFlight, At
    <2>3. CASE page'[sideTab] = page[sideTab]
      <3>1. page[sideTab] \in Docs \/ \E d \in InFlight : At(d, "drop") /\ call[d].own = sideTab
        BY <1>1, <1>7, <2>1 DEF SideTidy
      <3> QED BY <1>3, <2>1, <2>3, <3>1 DEF At
    <2> QED BY <1>7, <2>2, <2>3
  <1> QED BY <1>4, <1>5, <1>6, <1>7 DEF SideTidy


\* A call that closes tabs, and knows where it goes on.
LEMMA ClosesStep ==
    ASSUME IInv, NEW c \in InFlight, Closes(c), SideKnown',
           call' \in [Calls -> CallStates], page' \in [Tabs -> Docs \cup {"lost", None}],
           call'[c] = Idle
           \/ /\ call'[c].pc \in {"judge", "drop", "read", "close"}
              /\ call'[c].alone = call[c].alone /\ CallKnown(call'[c]),
           UNCHANGED ledger \/ Append({}), UNCHANGED <<host_, begun, halted, disk, bounds, history>>
    PROVE  IInv'
  <1>1. /\ c \in Calls /\ call \in [Calls -> CallStates]
        /\ sideTab \in Tabs \cup {None} /\ sideTab # Main /\ Main \in Tabs
        /\ page[Main] \in Docs /\ (call[c].own # None => call[c].own \in Tabs \ {Main})
    BY TabsFacts
  <1>2. page'[Main] = page[Main]
    BY <1>1, TabFacts DEF Closes
  <1>3. \A d \in InFlight \ {c} : page'[call[d].tab] \in {page[call[d].tab], None}
    BY <1>1 DEF Closes, InFlight, CallStates
  <1>4. call'[c] # Idle => call'[c].tool = call[c].tool
    BY DEF Closes
  <1>5. sideTab' \in Tabs \cup {None} /\ sideTab' # Main
    BY <1>1, TabFacts DEF Closes
  <1>6. TabsKnown'
    BY ClosesTabs
  <1> QED BY <1>1, <1>2, <1>3, <1>4, <1>5, <1>6, TabStep DEF Closes

LEMMA PeekViewStep == ASSUME IInv, NEW c \in Calls, PeekView(c) PROVE IInv'
  <1> DEFINE x == call[c].own
  <1>1. c \in InFlight /\ call[c].pc = "view" /\ call[c].tool = "peek"
    BY DEF PeekView, At, InFlight
  <1>2. /\ call \in [Calls -> CallStates] /\ CallKnown(call[c])
        /\ page \in [Tabs -> Docs \cup {"lost", None}] /\ sideTab \in Tabs \cup {None}
        /\ x \in Tabs \ {Main} /\ page[x] \in Docs /\ x # sideTab /\ call[c].tab \in Tabs
        /\ page[call[c].tab] # "lost"
    BY <1>1, TabsFacts DEF TabsKnown, At, CallKnown, CallStates
  <1>3. /\ page' \in [Tabs -> Docs \cup {"lost", None}] /\ page'[x] = None
        /\ \A u \in Tabs \ {x} : page'[u] = page[u]
    BY <1>2 DEF PeekView
  <1>4. /\ UNCHANGED <<host_, begun, halted, disk, bounds, history>> /\ raced' = raced
        /\ sideTab' = sideTab /\ (UNCHANGED ledger \/ Append({}))
    BY DEF PeekView, history
  <1>5. /\ call' \in [Calls -> CallStates] /\ \A d \in Calls \ {c} : call'[d] = call[d]
        /\ \/ call'[c] = Idle
           \/ /\ call'[c].pc = "judge" /\ call'[c].seen \in Docs /\ call'[c].own = None
              /\ call'[c].tool = "peek" /\ call'[c].tab = call[c].tab
              /\ call'[c].alone = call[c].alone
    <2>1. CASE Ends(c)
      BY <1>2, <2>1, EndsFacts
    <2>2. CASE Sees(c, page[x], "judge")
      BY <1>1, <1>2, <2>2, SeesFacts DEF Pcs
    <2> QED BY <2>1, <2>2 DEF PeekView
  <1>6. Closes(c)
    BY <1>1, <1>2, <1>3, <1>4, <1>5, TabFacts DEF Closes
  <1>7. SideKnown'
    BY <1>1, <1>2, <1>3, <1>4, <1>5, <1>6, TabFacts, ClosesSide DEF SideTools, At
  <1>8. call'[c] # Idle => CallKnown(call'[c])
    BY <1>2, <1>5, TabFacts DEF CallKnown
  <1> QED BY <1>1, <1>3, <1>4, <1>5, <1>6, <1>7, <1>8, ClosesStep

LEMMA SideViewStep == ASSUME IInv, NEW c \in Calls, SideView(c) PROVE IInv'
  <1> DEFINE x == call[c].own
  <1>1. c \in InFlight /\ call[c].pc = "view" /\ call[c].tool = "open"
    BY DEF SideView, At, InFlight
  <1>2. /\ call \in [Calls -> CallStates] /\ CallKnown(call[c])
        /\ page \in [Tabs -> Docs \cup {"lost", None}] /\ sideTab \in Tabs \cup {None}
        /\ x \in Tabs \ {Main} /\ page[x] # "lost" /\ call[c].tab \in Tabs
        /\ page[call[c].tab] # "lost" /\ (~raced => sideTab = x)
    BY <1>1, TabsFacts DEF TabsKnown, At, CallKnown, CallStates, SideKnown, SideTidy
  <1>3. /\ UNCHANGED <<host_, begun, halted, disk, bounds, history>> /\ raced' = raced
        /\ sideTab' = sideTab /\ (UNCHANGED ledger \/ Append({}))
    BY DEF SideView, history
  <1>4. CASE page[x] # None /\ Sees(c, page[x], "judge") /\ UNCHANGED page
    <2>1. page[x] \in Docs
      BY <1>2, <1>4
    <2>2. /\ call' \in [Calls -> CallStates] /\ \A d \in Calls \ {c} : call'[d] = call[d]
          /\ call'[c].pc = "judge" /\ call'[c].seen \in Docs /\ call'[c].own = None
          /\ call'[c].tool = "open" /\ call'[c].tab = call[c].tab
          /\ call'[c].alone = call[c].alone
      BY <1>1, <1>2, <1>4, <2>1, SeesFacts DEF Pcs
    <2>3. Closes(c)
      BY <1>1, <1>2, <1>3, <1>4, <2>2, TabFacts DEF Closes
    <2>4. SideKnown'
      BY <1>1, <1>2, <1>3, <1>4, <2>2, <2>3, TabFacts, ClosesSide DEF SideTools, At
    <2>5. CallKnown(call'[c])
      BY <2>2, TabFacts DEF CallKnown
    <2> QED BY <1>1, <1>2, <1>3, <1>4, <2>2, <2>3, <2>4, <2>5, ClosesStep
  <1>5. CASE Moves(c, "drop") /\ page' = [page EXCEPT ![x] = None]
    <2>1. /\ page' \in [Tabs -> Docs \cup {"lost", None}] /\ page'[x] = None
          /\ \A u \in Tabs \ {x} : page'[u] = page[u]
      BY <1>2, <1>5
    <2>2. /\ call' \in [Calls -> CallStates] /\ \A d \in Calls \ {c} : call'[d] = call[d]
          /\ call'[c].pc = "drop" /\ call'[c].own = x
          /\ call'[c].tool = "open" /\ call'[c].tab = call[c].tab
          /\ call'[c].alone = call[c].alone
      BY <1>1, <1>2, <1>5, MovesFacts DEF Pcs
    <2>3. Closes(c)
      BY <1>1, <1>2, <1>3, <2>1, <2>2, TabFacts DEF Closes
    <2>4. SideKnown'
      BY <1>1, <1>2, <1>3, <2>1, <2>2, <2>3, TabFacts, ClosesSide DEF SideTools, At
    <2>5. CallKnown(call'[c])
      BY <1>2, <2>2, TabFacts DEF CallKnown
    <2> QED BY <1>1, <1>3, <2>1, <2>2, <2>3, <2>4, <2>5, ClosesStep
  <1> QED BY <1>4, <1>5 DEF SideView


LEMMA DropStep == ASSUME IInv, NEW c \in Calls, Drop(c) PROVE IInv'
  <1>1. c \in InFlight /\ call[c].pc = "drop"
    BY DEF Drop, At, InFlight
  <1>2. /\ call \in [Calls -> CallStates] /\ CallKnown(call[c]) /\ call[c].tool = "open"
        /\ page \in [Tabs -> Docs \cup {"lost", None}] /\ sideTab \in Tabs \cup {None}
        /\ (~raced => sideTab = call[c].own /\ page[sideTab] \notin Docs)
    BY <1>1, TabsFacts DEF At, CallKnown, SideKnown, SideTidy
  <1>3. /\ UNCHANGED <<host_, page, begun, halted, ledger, disk, bounds, history>> /\ raced' = raced
        /\ sideTab' = None /\ Ends(c)
    BY DEF Drop, history
  <1>4. call' \in [Calls -> CallStates] /\ call'[c] = Idle /\ \A d \in Calls \ {c} : call'[d] = call[d]
    BY <1>2, <1>3, EndsFacts
  <1>5. Closes(c)
    BY <1>2, <1>3, <1>4, TabFacts DEF Closes
  <1>6. SideKnown'
    BY <1>1, <1>2, <1>3, <1>4, <1>5, TabFacts, ClosesSide DEF SideTools, At
  <1> QED BY <1>1, <1>2, <1>3, <1>4, <1>5, <1>6, ClosesStep

LEMMA CloseStep == ASSUME IInv, NEW c \in Calls, Close(c) PROVE IInv'
  <1> DEFINE x == call[c].own
             update == [call[c] EXCEPT !.pc = "read", !.own = None, !.tab = Main]
  <1>1. c \in InFlight /\ call[c].pc = "close"
    BY DEF Close, At, InFlight
  <1>2. /\ call \in [Calls -> CallStates] /\ CallKnown(call[c])
        /\ page \in [Tabs -> Docs \cup {"lost", None}] /\ sideTab \in Tabs \cup {None}
        /\ page[Main] \in Docs /\ Main \in Tabs /\ x \in Tabs \ {Main} /\ x # sideTab
        /\ call[c].tool # "open"
    BY <1>1, TabsFacts DEF At, CallKnown, TabsKnown
  <1>3. /\ UNCHANGED <<host_, begun, halted, ledger, disk, bounds, history>> /\ raced' = raced
        /\ sideTab' = sideTab
    BY DEF Close, history
  <1>4. /\ page' \in [Tabs -> Docs \cup {"lost", None}] /\ page'[x] = None
        /\ \A u \in Tabs \ {x} : page'[u] = page[u]
    BY <1>2 DEF Close
  <1>5. /\ call' \in [Calls -> CallStates] /\ \A d \in Calls \ {c} : call'[d] = call[d]
        /\ \/ call'[c] = Idle
           \/ /\ call'[c].pc = "read" /\ call'[c].own = None
              /\ call'[c].tool = call[c].tool /\ call'[c].tab = Main
              /\ call'[c].alone = call[c].alone
    <2>1. CASE Ends(c)
      BY <1>2, <2>1, EndsFacts
    <2>2. CASE ~Ends(c)
      <3>1. call' = [call EXCEPT ![c] = update]
        BY <1>2, <2>2 DEF Close, CallStates
      <3>2. /\ update \in CallStates /\ update.pc = "read" /\ update.own = None
            /\ update.tool = call[c].tool /\ update.tab = Main /\ update.alone = call[c].alone
        BY <1>2 DEF CallStates
      <3> HIDE DEF update
      <3> QED BY <1>2, <3>1, <3>2
    <2> QED BY <2>1, <2>2
  <1>6. Closes(c)
    BY <1>1, <1>2, <1>3, <1>4, <1>5, TabFacts DEF Closes
  <1>7. SideKnown'
    BY <1>1, <1>2, <1>3, <1>4, <1>5, <1>6, TabFacts, ClosesSide DEF SideTools, At
  <1>8. call'[c] # Idle => CallKnown(call'[c])
    BY <1>5, TabFacts DEF CallKnown
  <1> QED BY <1>1, <1>3, <1>4, <1>5, <1>6, <1>7, <1>8, ClosesStep

LEMMA ReportStep == ASSUME IInv, NEW c \in Calls, Report(c) PROVE IInv'
  <1> DEFINE update == [call[c] EXCEPT !.own = sideTab, !.pc = "close"]
  <1>1. c \in InFlight /\ call[c].pc = "report"
    BY DEF Report, At, InFlight
  <1>2. /\ call \in [Calls -> CallStates] /\ CallKnown(call[c]) /\ call[c].tool = "done"
        /\ page \in [Tabs -> Docs \cup {"lost", None}] /\ sideTab \in Tabs \cup {None}
        /\ sideTab # Main /\ call[c].own = None /\ call[c].tab \in Tabs
        /\ page[call[c].tab] # "lost"
    BY <1>1, TabsFacts DEF At, CallKnown, TabsKnown, CallStates
  <1>3. /\ UNCHANGED <<host_, page, begun, halted, ledger, disk, bounds, history>> /\ raced' = raced
    BY DEF Report, history
  <1>4. CASE Ends(c) /\ UNCHANGED sideTab
    BY <1>1, <1>3, <1>4, EndStep DEF tabs
  <1>5. CASE sideTab # None /\ sideTab' = None /\ call' = [call EXCEPT ![c].own = sideTab, ![c].pc = "close"]
    <2>1. call' = [call EXCEPT ![c] = update]
      BY <1>2, <1>5 DEF CallStates
    <2>2. /\ update \in CallStates /\ update.pc = "close" /\ update.own = sideTab
          /\ update.tool = call[c].tool /\ update.tab = call[c].tab /\ update.alone = call[c].alone
      <3>1. call[c] \in CallStates /\ sideTab \in Tabs \cup {None}
        BY <1>1, <1>2 DEF InFlight
      <3> QED BY <3>1 DEF CallStates
    <2> HIDE DEF update
    <2>3. /\ call' \in [Calls -> CallStates] /\ \A d \in Calls \ {c} : call'[d] = call[d]
          /\ call'[c].pc = "close" /\ call'[c].own = sideTab
          /\ call'[c].tool = "done" /\ call'[c].tab = call[c].tab
          /\ call'[c].alone = call[c].alone
      BY <1>2, <2>1, <2>2
    <2>4. Closes(c)
      BY <1>1, <1>2, <1>3, <1>5, <2>3, TabFacts DEF Closes
    <2>5. SideKnown'
      BY <1>1, <1>2, <1>3, <1>5, <2>3, <2>4, TabFacts, ClosesSide DEF SideTools, At
    <2>6. CallKnown(call'[c])
      BY <1>2, <1>5, <2>3, TabFacts DEF CallKnown
    <2> QED BY <1>1, <1>2, <1>3, <2>3, <2>4, <2>5, <2>6, ClosesStep
  <1> QED BY <1>4, <1>5 DEF Report


----------------------------------------------------------------------------
(* How a call begins, and how the process ends.                            *)

\* A call that begins, beside those in flight.
LEMMA BeginsFacts ==
    ASSUME IInv, NEW c \in Calls, NEW tool \in Tools, NEW pc \in Pcs \ {"idle"},
           NEW own \in Tabs \cup {None}, Begins(c, tool, pc, own)
    PROVE  /\ c \notin InFlight /\ InFlight' = InFlight \cup {c}
           /\ call' \in [Calls -> CallStates] /\ begun' \in 0..MaxBegun /\ raced' \in BOOLEAN
           /\ call'[c].tool = tool /\ call'[c].pc = pc /\ call'[c].own = own
           /\ call'[c].tab = Tab /\ (call'[c].alone <=> InFlight = {})
           /\ \A d \in InFlight :
                  /\ call'[d].pc = call[d].pc /\ call'[d].tool = call[d].tool
                  /\ call'[d].tab = call[d].tab /\ call'[d].seen = call[d].seen
                  /\ call'[d].own = call[d].own
                  /\ ~call'[d].alone /\ (call'[d].slid <=> call[d].slid)
           /\ \A d \in Calls \ (InFlight \cup {c}) : call'[d] = call[d]
           /\ halted => tool \in {"look", "peek", "done"}
           /\ ~raced' => /\ ~raced
                         /\ \A d \in InFlight :
                                tool \in SideTools /\ call[d].tool \in SideTools =>
                                    tool # "open" /\ call[d].tool # "open"
  <1> DEFINE r == [Idle EXCEPT !.tool = tool, !.pc = pc, !.tab = Tab, !.own = own,
                               !.alone = (InFlight = {})]
             other(d) == [call[d] EXCEPT !.alone = FALSE]
  <1>1. /\ call \in [Calls -> CallStates] /\ c \notin InFlight /\ InFlight \subseteq Calls
        /\ begun \in 0..MaxBegun /\ Tab \in Tabs
        /\ call' = [d \in Calls |-> IF d \in InFlight THEN other(d) ELSE IF d # c THEN call[d] ELSE r]
    BY TabFacts DEF IInv, TypeOK, Begins, InFlight, Tab
  <1>2. /\ r \in CallStates /\ r.tool = tool /\ r.pc = pc /\ r.own = own /\ r.tab = Tab
        /\ (r.alone <=> InFlight = {})
    BY <1>1 DEF CallStates, Idle, Pcs
  <1>3. ASSUME NEW d \in InFlight
        PROVE  /\ other(d) \in CallStates /\ ~other(d).alone /\ other(d).slid = call[d].slid
               /\ other(d).pc = call[d].pc /\ other(d).tool = call[d].tool
               /\ other(d).tab = call[d].tab /\ other(d).seen = call[d].seen
               /\ other(d).own = call[d].own
    BY <1>1 DEF CallStates
  <1> HIDE DEF r, other
  <1>4. call' \in [Calls -> CallStates]
    <2>1. \A d \in Calls : call'[d] \in CallStates
      BY <1>1, <1>2, <1>3
    <2> QED BY <1>1, <2>1, Zenon
  <1>5. call'[c] = r /\ (\A d \in InFlight : call'[d] = other(d))
        /\ \A d \in Calls \ (InFlight \cup {c}) : call'[d] = call[d]
    BY <1>1
  <1>6. InFlight' = InFlight \cup {c}
    BY <1>1, <1>2, <1>3, <1>5 DEF InFlight
  <1>7. \A d \in InFlight :
            /\ call'[d].pc = call[d].pc /\ call'[d].tool = call[d].tool
            /\ call'[d].tab = call[d].tab /\ call'[d].seen = call[d].seen
            /\ call'[d].own = call[d].own
            /\ ~call'[d].alone /\ (call'[d].slid <=> call[d].slid)
    BY <1>3, <1>5
  <1>8. begun' \in 0..MaxBegun
    <2>1. begun < MaxBegun /\ begun' = begun + 1
      BY DEF Begins
    <2> QED BY <1>1, <2>1, BoundsAreNumbers
  <1>9. /\ halted => tool \in {"look", "peek", "done"}
        /\ raced' = (raced \/ \E d \in InFlight :
                 {tool, call[d].tool} \subseteq SideTools /\ "open" \in {tool, call[d].tool})
        /\ raced \in BOOLEAN
    BY DEF Begins, IInv, TypeOK
  <1>10. raced' \in BOOLEAN
    BY <1>9
  <1>11. ~raced' => /\ ~raced
                    /\ \A d \in InFlight :
                           tool \in SideTools /\ call[d].tool \in SideTools =>
                               tool # "open" /\ call[d].tool # "open"
    BY <1>9
  <1> QED BY <1>1, <1>2, <1>3, <1>4, <1>5, <1>6, <1>7, <1>8, <1>9, <1>10, <1>11


\* What is known of the calls once another has begun, and nothing moved.
LEMMA BegunStep ==
    ASSUME IInv, NEW c \in Calls, NEW tool \in Tools,
           NEW pc \in {"read", "open", "report", "facts", "restore", "close"},
           NEW own \in Tabs \cup {None}, Begins(c, tool, pc, own),
           UNCHANGED <<host_, page, halted, ledger, disk, bounds, yes, told, fired>>,
           sideTab' \in {sideTab, None}, own # Main,
           pc = "restore" => tool = "restore", pc = "facts" => tool \in {"click", "go"},
           pc = "open" => tool \in {"peek", "open"}, pc = "close" => tool \in {"shut", "park"},
           pc = "report" => tool = "done", own # None <=> pc = "close"
    PROVE  TypeOK' /\ CallsKnown' /\ AloneKnown' /\ (\A d \in Calls : CallHolds(d)') /\ YesKnown'
  <1>1. pc \in Pcs \ {"idle"}
    BY DEF Pcs
  <1>2. /\ c \notin InFlight /\ InFlight' = InFlight \cup {c} /\ InFlight \subseteq Calls
        /\ call' \in [Calls -> CallStates] /\ begun' \in 0..MaxBegun /\ raced' \in BOOLEAN
        /\ call'[c].tool = tool /\ call'[c].pc = pc /\ call'[c].own = own
        /\ call'[c].tab = Tab /\ (call'[c].alone <=> InFlight = {})
        /\ \A d \in InFlight :
               /\ call'[d].pc = call[d].pc /\ call'[d].tool = call[d].tool
               /\ call'[d].tab = call[d].tab /\ call'[d].seen = call[d].seen
               /\ call'[d].own = call[d].own
               /\ ~call'[d].alone /\ (call'[d].slid <=> call[d].slid)
        /\ \A d \in Calls \ (InFlight \cup {c}) : call'[d] = call[d]
        /\ halted => tool \in {"look", "peek", "done"}
    BY <1>1, BeginsFacts DEF InFlight
  <1>3. call \in [Calls -> CallStates] /\ TypeOK /\ YesKnown
    BY DEF IInv, TypeOK
  <1>4. TypeOK'
    BY <1>2, <1>3, TabFacts DEF TypeOK, host_, ledger, disk, bounds
  <1>5. ASSUME NEW d \in InFlight
        PROVE  /\ call'[d].pc = call[d].pc /\ call'[d].tool = call[d].tool /\ call'[d].tab = call[d].tab
               /\ call'[d].seen = call[d].seen /\ call'[d].own = call[d].own
               /\ ~call'[d].alone /\ (call'[d].slid <=> call[d].slid)
    BY <1>2
  <1>6. CallsKnown'
    <2>1. ASSUME NEW d \in Calls PROVE CallKnown(call'[d])
      <3>0. CallKnown(call[d])
        BY DEF IInv, CallsKnown
      <3>1. CASE d = c
        BY <1>2, <3>1, TabFacts DEF CallKnown
      <3>2. CASE d \in InFlight
        BY <1>5, <3>0, <3>2 DEF CallKnown, Leaving
      <3>3. CASE d # c /\ d \notin InFlight
        BY <1>2, <3>0, <3>3
      <3> QED BY <3>1, <3>2, <3>3
    <2> QED BY <2>1 DEF CallsKnown
  <1>7. AloneKnown'
    BY <1>2, <1>5 DEF AloneKnown, Alone
  <1>8. ASSUME NEW d \in Calls PROVE CallHolds(d)'
    <2>0. CallHolds(d)
      BY DEF IInv
    <2>1. CASE d = c
      BY <1>2, <2>1 DEF CallHolds, Alone
    <2>2. CASE d \in InFlight
      BY <1>5, <2>0, <2>2 DEF CallHolds, Leaving, Wanted, Alone, host_, disk
    <2>3. CASE d # c /\ d \notin InFlight
      <3>1. call'[d] = call[d] /\ call[d].pc = "idle"
        BY <1>2, <2>3 DEF InFlight
      <3> QED BY <3>1 DEF CallHolds
    <2> QED BY <2>1, <2>2, <2>3
  <1>9. YesKnown'
    BY <1>3 DEF YesKnown, host_, ledger, disk
  <1> QED BY <1>4, <1>6, <1>7, <1>8, <1>9

\* The tabs, once another call has begun, with the side tab to close perhaps.
LEMMA BegunTabs ==
    ASSUME IInv, NEW c \in Calls, NEW tool \in Tools,
           NEW pc \in Pcs \ {"idle", "view", "drop"},
           NEW own \in Tabs \cup {None}, Begins(c, tool, pc, own), page' = page,
           \/ sideTab' = sideTab /\ own = None /\ pc # "close"
           \/ sideTab' = None /\ sideTab # None /\ own = sideTab /\ tool \in {"shut", "park"} /\ pc = "close",
           tool = "open" => sideTab = None
    PROVE  TabsKnown' /\ SideKnown'
  <1>1. /\ c \notin InFlight /\ InFlight' = InFlight \cup {c} /\ InFlight \subseteq Calls
        /\ call'[c].tool = tool /\ call'[c].pc = pc /\ call'[c].own = own
        /\ call'[c].tab = Tab
        /\ \A d \in InFlight :
               /\ call'[d].pc = call[d].pc /\ call'[d].tool = call[d].tool
               /\ call'[d].tab = call[d].tab /\ call'[d].own = call[d].own
        /\ ~raced' => /\ ~raced
                      /\ \A d \in InFlight :
                             tool \in SideTools /\ call[d].tool \in SideTools =>
                                 tool # "open" /\ call[d].tool # "open"
    BY BeginsFacts DEF InFlight
  <1>2. /\ call \in [Calls -> CallStates] /\ page \in [Tabs -> Docs \cup {"lost", None}]
        /\ page[Main] \in Docs /\ Main \in Tabs /\ sideTab \in Tabs \cup {None} /\ sideTab # Main
        /\ TabsKnown /\ SideKnown
    BY TabFacts DEF IInv, TypeOK
  <1>3. ASSUME NEW d \in InFlight
        PROVE  /\ call'[d].pc = call[d].pc /\ call'[d].tool = call[d].tool /\ call'[d].tab = call[d].tab
               /\ call'[d].own = call[d].own
               /\ call[d].pc \in {"view", "drop", "close"} => call[d].own # None
    <2>1. CallKnown(call[d])
      BY <1>1 DEF IInv, CallsKnown
    <2> QED BY <1>1, <2>1 DEF CallKnown
  <1>4. TabsKnown'
    <2>1. page[Tab] # "lost" /\ (sideTab # None => page[sideTab] # "lost")
      BY <1>2 DEF Tab, TabsKnown, Docs
    <2>2. ASSUME NEW d \in InFlight'
          PROVE  /\ page'[call'[d].tab] # "lost"
                 /\ call'[d].own # None => page'[call'[d].own] # "lost"
                 /\ At(d, "close")' => call'[d].own # sideTab'
                 /\ At(d, "view")' /\ call'[d].tool = "peek" =>
                        /\ page'[call'[d].own] \in Docs /\ call'[d].own # sideTab'
                        /\ \A e \in InFlight' \ {d} : call'[e].own # call'[d].own
      <3>1. CASE d = c
        BY <1>1, <1>2, <2>1, <3>1, TabFacts DEF At
      <3>2. CASE d # c
        <4>1. d \in InFlight
          BY <1>1, <3>2
        <4>2. /\ page[call[d].tab] # "lost"
              /\ call[d].own # None => page[call[d].own] # "lost"
              /\ At(d, "close") => call[d].own # sideTab
              /\ At(d, "view") /\ call[d].tool = "peek" =>
                     /\ page[call[d].own] \in Docs /\ call[d].own # sideTab
                     /\ \A e \in InFlight \ {d} : call[e].own # call[d].own
          BY <1>2, <4>1 DEF TabsKnown
        <4> QED BY <1>1, <1>3, <4>1, <4>2 DEF At
      <3> QED BY <3>1, <3>2
    <2> QED BY <2>1, <2>2 DEF TabsKnown
  <1>5. SideKnown'
    <2> SUFFICES ASSUME ~raced' PROVE SideTidy'
      BY DEF SideKnown
    <2>1. SideTidy /\ (sideTab' # sideTab => own = sideTab /\ sideTab' = None /\ tool \in SideTools
                                             /\ tool # "open")
      BY <1>1, <1>2 DEF SideKnown, SideTools
    <2>2. \A d, e \in InFlight' :
              call'[d].tool = "open" /\ call'[e].tool \in SideTools => d = e
      BY <1>1, <1>3, <2>1 DEF SideTidy, SideTools
    <2>3. ASSUME NEW d \in InFlight', call'[d].tool = "open"
          PROVE  /\ At(d, "open")' => sideTab' = None
                 /\ At(d, "view")' => sideTab' = call'[d].own /\ page'[sideTab'] \in Docs
                 /\ At(d, "drop")' => sideTab' = call'[d].own /\ page'[sideTab'] \notin Docs
      <3>1. CASE d = c
        BY <1>1, <2>1, <2>3, <3>1 DEF At
      <3>2. CASE d # c
        <4>1. d \in InFlight /\ call[d].tool = "open"
          BY <1>1, <1>3, <2>3, <3>2
        <4>2. sideTab' = sideTab
          BY <1>1, <2>1, <4>1 DEF SideTools
        <4> QED BY <1>3, <2>1, <4>1, <4>2 DEF SideTidy, At
      <3> QED BY <3>1, <3>2
    <2>4. \A u \in Tabs \ {Main} : page'[u] \in Docs =>
              u = sideTab' \/ \E d \in InFlight' : call'[d].own = u
      BY <1>1, <1>3, <2>1 DEF SideTidy
    <2>5. sideTab' # None =>
              page'[sideTab'] \in Docs
              \/ \E d \in InFlight' : At(d, "drop")' /\ call'[d].own = sideTab'
      BY <1>1, <1>3, <2>1 DEF SideTidy, At
    <2> QED BY <2>2, <2>3, <2>4, <2>5 DEF SideTidy
  <1> QED BY <1>4, <1>5


LEMMA BeginStep == ASSUME IInv, NEW c \in Calls, BeginPlain(c) \/ BeginClosing(c) PROVE IInv'
  <1>1. CASE BeginPlain(c)
    <2>1. PICK tool \in Tools, pc \in {"read", "open", "report", "facts", "restore"} :
              /\ Begins(c, tool, pc, None)
              /\ <<tool, pc>> \in {<<"look", "read">>, <<"peek", "open">>, <<"done", "report">>,
                                  <<"click", "facts">>, <<"go", "facts">>,
                                  <<"restore", "restore">>, <<"open", "open">>}
              /\ tool = "open" => sideTab = None
      BY <1>1 DEF BeginPlain, Tools, SideTools
    <2>2. /\ UNCHANGED <<host_, page, halted, ledger, disk, bounds, yes, told, fired>>
          /\ sideTab' = sideTab /\ page' = page
      BY <1>1 DEF BeginPlain, tabs
    <2>3. None \in Tabs \cup {None} /\ None # Main
      BY TabFacts
    <2>4. TypeOK' /\ CallsKnown' /\ AloneKnown' /\ (\A d \in Calls : CallHolds(d)') /\ YesKnown'
      BY <2>1, <2>2, <2>3, BegunStep
    <2>5. TabsKnown' /\ SideKnown'
      BY <2>1, <2>2, <2>3, BegunTabs DEF Pcs
    <2> QED BY <2>4, <2>5 DEF IInv
  <1>2. CASE BeginClosing(c)
    <2>1. PICK tool \in {"shut", "park"} : Begins(c, tool, "close", sideTab)
      BY <1>2 DEF BeginClosing
    <2>2. /\ UNCHANGED <<host_, page, halted, ledger, disk, bounds, yes, told, fired>>
          /\ sideTab' = None /\ sideTab # None /\ page' = page
      BY <1>2 DEF BeginClosing
    <2>3. sideTab \in Tabs \cup {None} /\ sideTab # Main /\ tool \in Tools
      BY DEF IInv, TypeOK, Tools, SideTools
    <2>4. TypeOK' /\ CallsKnown' /\ AloneKnown' /\ (\A d \in Calls : CallHolds(d)') /\ YesKnown'
      BY <2>1, <2>2, <2>3, BegunStep
    <2>5. TabsKnown' /\ SideKnown'
      BY <2>1, <2>2, <2>3, BegunTabs DEF Pcs
    <2> QED BY <2>4, <2>5 DEF IInv
  <1> QED BY <1>1, <1>2

\* A new process has no call and no side tab, and the files of the old one.
LEMMA RestartStep == ASSUME IInv, Restart PROVE IInv'
  <1>1. TypeOK /\ YesKnown
    BY DEF IInv
  <1>2. /\ UNCHANGED <<host, begun, sticky, disk, moves, yes, told, fired>>
        /\ sideTab' = None /\ halted' = FALSE /\ raced' = FALSE
        /\ page' = [t \in Tabs |-> IF t = Main THEN page[t] ELSE None]
        /\ call' = [c \in Calls |-> Idle]
        /\ restarts < MaxRestarts /\ restarts' = restarts + 1
    BY DEF Restart
  <1>3. entity' \in Entities /\ tail' \in {"clean", "torn", "glued", "corrupt"}
        /\ (tail' = "clean" => tail = "clean")
    <2>1. entity' \in Entities
      BY <1>1 DEF Restart, TypeOK
    <2>2. tail' \in {"clean", "torn", "glued", "corrupt"} /\ (tail' = "clean" => tail = "clean")
      BY <1>1 DEF Restart, TypeOK
    <2> QED BY <2>1, <2>2
  <1>4. InFlight' = {} /\ \A c \in Calls : call'[c] = Idle
    BY <1>2, TabFacts DEF InFlight
  <1>5. /\ page' \in [Tabs -> Docs \cup {"lost", None}] /\ page'[Main] \in Docs
        /\ \A t \in Tabs \ {Main} : page'[t] = None
    BY <1>1, <1>2, TabFacts DEF TypeOK
  <1>6. TypeOK'
    <2>1. restarts' \in 0..MaxRestarts
      BY <1>1, <1>2, BoundsAreNumbers DEF TypeOK
    <2>2. call' \in [Calls -> CallStates]
      BY <1>2, TabFacts
    <2> QED BY <1>1, <1>2, <1>3, <1>5, <2>1, <2>2, TabFacts DEF TypeOK, disk
  <1>7. CallsKnown' /\ AloneKnown' /\ \A c \in Calls : CallHolds(c)'
    BY <1>4, TabFacts, OverHolds DEF CallsKnown, AloneKnown
  <1>8. TabsKnown' /\ SideKnown'
    BY <1>2, <1>4, <1>5, TabFacts DEF TabsKnown, SideKnown, SideTidy
  <1>9. YesKnown'
    BY <1>1, <1>2, <1>3 DEF YesKnown, disk
  <1> QED BY <1>6, <1>7, <1>8, <1>9 DEF IInv

----------------------------------------------------------------------------

LEMMA InitIInv == Init => IInv
  <1> SUFFICES ASSUME Init PROVE IInv
    OBVIOUS
  <1>1. /\ call = [c \in Calls |-> Idle] /\ page = [t \in Tabs |-> IF t = Main THEN "list" ELSE None]
        /\ sideTab = None /\ halted = FALSE /\ checkpoint = None /\ sticky = {} /\ tail = "clean"
        /\ consumed = {} /\ moves = 0 /\ restarts = 0 /\ begun = 0
        /\ yes = {} /\ told = {} /\ fired = {} /\ raced = FALSE
        /\ host \in Hosts /\ entity \in Entities
    BY DEF Init
  <1>2. InFlight = {} /\ \A c \in Calls : call[c] = Idle
    BY <1>1, TabFacts DEF InFlight
  <1>3. /\ page \in [Tabs -> Docs \cup {"lost", None}] /\ page[Main] \in Docs
        /\ \A t \in Tabs \ {Main} : page[t] = None
    BY <1>1, TabFacts
  <1>4. TypeOK
    <2>1. begun \in 0..MaxBegun /\ moves \in 0..MaxMoves /\ restarts \in 0..MaxRestarts
      BY <1>1, BoundsAreNumbers
    <2>2. call \in [Calls -> CallStates]
      BY <1>1, TabFacts
    <2>3. sideTab \in Tabs \cup {None} /\ sideTab # Main
      BY <1>1, TabFacts
    <2> QED BY <1>1, <1>3, <2>1, <2>2, <2>3 DEF TypeOK
  <1>5. CallsKnown /\ AloneKnown /\ \A c \in Calls : CallHolds(c)
    BY <1>2, TabFacts DEF CallsKnown, AloneKnown, CallHolds
  <1>6. TabsKnown /\ SideKnown
    BY <1>1, <1>2, <1>3, TabFacts DEF TabsKnown, SideKnown, SideTidy
  <1>7. YesKnown
    BY <1>1 DEF YesKnown
  <1> QED BY <1>4, <1>5, <1>6, <1>7 DEF IInv

LEMMA NextIInv == IInv /\ [Next]_vars => IInv'
  <1> SUFFICES ASSUME IInv, [Next]_vars PROVE IInv'
    OBVIOUS
  <1>1. ASSUME NEW c \in Calls, BeginPlain(c) \/ BeginClosing(c) PROVE IInv'
    BY <1>1, BeginStep
  <1>2. ASSUME NEW c \in Calls, Look(c) PROVE IInv'
    BY <1>2, LookStep
  <1>3. ASSUME NEW c \in Calls, Judge(c) \/ Unhalt(c) PROVE IInv'
    BY <1>3, JudgeStep
  <1>4. ASSUME NEW c \in Calls, Open(c) PROVE IInv'
    BY <1>4, OpenStep
  <1>5. ASSUME NEW c \in Calls, PeekView(c) PROVE IInv'
    BY <1>5, PeekViewStep
  <1>6. ASSUME NEW c \in Calls, SideView(c) PROVE IInv'
    BY <1>6, SideViewStep
  <1>7. ASSUME NEW c \in Calls, Drop(c) PROVE IInv'
    BY <1>7, DropStep
  <1>8. ASSUME NEW c \in Calls, Close(c) PROVE IInv'
    BY <1>8, CloseStep
  <1>9. ASSUME NEW c \in Calls, Report(c) PROVE IInv'
    BY <1>9, ReportStep
  <1>10. ASSUME NEW c \in Calls, Facts(c) PROVE IInv'
    BY <1>10, FactsStep
  <1>11. ASSUME NEW c \in Calls, Forbid(c) \/ Refuse(c) PROVE IInv'
    <2>1. call[c].pc \in {"save", "gate"} /\ Ends(c) /\ Append({})
          /\ UNCHANGED <<host_, tabs, begun, halted, disk, bounds, history>>
      BY <1>11 DEF Forbid, Refuse, At
    <2> QED BY <2>1, EndStep
  <1>12. ASSUME NEW c \in Calls, Save(c) PROVE IInv'
    BY <1>12, SaveStep
  <1>13. ASSUME NEW c \in Calls, Grant(c) PROVE IInv'
    BY <1>13, GrantStep
  <1>14. ASSUME NEW c \in Calls, Remembers(c) PROVE IInv'
    BY <1>14, RemembersStep
  <1>15. ASSUME NEW c \in Calls, Answer(c) PROVE IInv'
    BY <1>15, AnswerStep
  <1>16. ASSUME NEW c \in Calls, Claim(c) PROVE IInv'
    BY <1>16, ClaimStep
  <1>17. ASSUME NEW c \in Calls, Mark(c) PROVE IInv'
    BY <1>17, MarkStep
  <1>18. ASSUME NEW c \in Calls, Act(c) PROVE IInv'
    BY <1>18, ActStep
  <1>19. ASSUME NEW c \in Calls, Settle(c) PROVE IInv'
    BY <1>19, SettleStep
  <1>20. ASSUME NEW c \in Calls, Restore(c) PROVE IInv'
    BY <1>20, RestoreStep
  <1>21. ASSUME NEW t \in Tabs, Elsewhere(t) PROVE IInv'
    BY <1>21, ElsewhereStep
  <1>22. ASSUME Restart PROVE IInv'
    BY <1>22, RestartStep
  <1>23. CASE UNCHANGED vars
    <2>1. /\ UNCHANGED <<host, entity, page, sideTab, call, begun, halted, sticky, tail>>
          /\ UNCHANGED <<checkpoint, consumed, moves, restarts, yes, told, fired, raced>>
      BY <1>23 DEF vars, host_, tabs, ledger, disk, bounds, history
    <2>2. InFlight' = InFlight
      BY <2>1 DEF InFlight
    <2>3. TypeOK' /\ CallsKnown' /\ AloneKnown' /\ YesKnown'
      BY <2>1, <2>2 DEF IInv, TypeOK, CallsKnown, AloneKnown, Alone, YesKnown
    <2>4. TabsKnown' /\ SideKnown'
      BY <2>1, <2>2 DEF IInv, TabsKnown, SideKnown, SideTidy, At
    <2>5. \A c \in Calls : CallHolds(c)'
      BY <2>1 DEF IInv, CallHolds, Alone, Wanted
    <2> QED BY <2>3, <2>4, <2>5 DEF IInv
  <1> QED BY <1>1, <1>2, <1>3, <1>4, <1>5, <1>6, <1>7, <1>8, <1>9, <1>10, <1>11, <1>12, <1>13,
             <1>14, <1>15, <1>16, <1>17, <1>18, <1>19, <1>20, <1>21, <1>22, <1>23 DEF Next

\* What the calls know at each await holds always.
THEOREM Invariance == Spec => []IInv
  BY InitIInv, NextIInv, PTL DEF Spec

\* Every variable has its type, for any number of calls, tabs and restarts.
THEOREM TypeCorrect == Spec => []TypeOK
  <1>1. IInv => TypeOK
    BY DEF IInv
  <1> QED BY Invariance, <1>1, PTL


\* Unless side calls raced, no tab is left open that nobody will close, and
\* the side tab is there when no call is in flight.
THEOREM TabsAreAccounted == Spec => []TabsAccounted
  <1>1. IInv => TabsAccounted
    <2> SUFFICES ASSUME IInv, ~raced PROVE TabsAccounted
      BY DEF TabsAccounted
    <2>1. SideTidy
      BY DEF IInv, SideKnown
    <2>2. sideTab # None /\ InFlight = {} => page[sideTab] # None
      BY <2>1, TabFacts DEF SideTidy
    <2> QED BY <2>1, <2>2 DEF SideTidy, TabsAccounted
  <1> QED BY Invariance, <1>1, PTL

----------------------------------------------------------------------------
(* What a step may never do.                                               *)

\* What a call does once it has begun.
Works(c) ==
    \/ Look(c) \/ Judge(c) \/ Unhalt(c)
    \/ Open(c) \/ PeekView(c) \/ SideView(c) \/ Drop(c) \/ Close(c) \/ Report(c)
    \/ Facts(c) \/ Forbid(c) \/ Save(c) \/ Refuse(c) \/ Grant(c)
    \/ Remembers(c) \/ Answer(c) \/ Claim(c) \/ Mark(c)
    \/ Act(c) \/ Settle(c) \/ Restore(c)

\* It leaves the others where they are.
LEMMA OthersStay ==
    ASSUME TypeOK, NEW d \in Calls, Works(d), NEW c \in Calls \ {d}
    PROVE  call'[c].pc = call[c].pc
  <1>1. call \in [Calls -> CallStates]
    BY DEF TypeOK
  <1>2. ASSUME \/ Ends(d) \/ \E pc \in Pcs : Moves(d, pc)
               \/ \E doc, pc : Sees(d, doc, pc)
        PROVE  call'[c] = call[c]
    BY <1>1, <1>2 DEF Ends, Moves, Sees
  <1>3. ASSUME NEW t, NEW doc, NEW update, Shows(d, t, doc, update) PROVE call'[c].pc = call[c].pc
    <2>1. call'[c] = call[c] \/ call'[c] = [call[c] EXCEPT !.slid = TRUE]
      BY <1>3 DEF Shows
    <2> QED BY <1>1, <2>1 DEF CallStates
  <1>4. CASE Look(d) \/ Judge(d) \/ Unhalt(d)
    BY <1>2, <1>4 DEF Look, Judge, Unhalt, Pcs
  <1>5. CASE Open(d)
    BY <1>1, <1>2, <1>5 DEF Open
  <1>6. CASE PeekView(d) \/ SideView(d) \/ Drop(d)
    BY <1>2, <1>6 DEF PeekView, SideView, Drop, Pcs
  <1>7. CASE Close(d) \/ Report(d)
    BY <1>1, <1>2, <1>7 DEF Close, Report
  <1>8. CASE Facts(d) \/ Forbid(d) \/ Save(d) \/ Refuse(d) \/ Grant(d)
    BY <1>2, <1>8 DEF Facts, Forbid, Save, Refuse, Grant, Pcs
  <1>9. CASE Remembers(d) \/ Answer(d) \/ Claim(d) \/ Mark(d) \/ Settle(d)
    BY <1>2, <1>9 DEF Remembers, Answer, Claim, Mark, Settle, Pcs
  <1>10. CASE Act(d) \/ Restore(d)
    BY <1>2, <1>3, <1>10 DEF Act, Restore
  <1> QED BY <1>4, <1>5, <1>6, <1>7, <1>8, <1>9, <1>10 DEF Works

\* A call in flight goes on by a step of its own.
LEMMA OwnStep ==
    ASSUME IInv, Next, NEW c \in Calls, c \in InFlight, call'[c].pc \notin {"idle", call[c].pc}
    PROVE  Works(c)
  <1>1. TypeOK /\ call \in [Calls -> CallStates]
    BY DEF IInv, TypeOK
  <1>2. ASSUME NEW d \in Calls, Works(d) PROVE d = c
    BY <1>1, <1>2, OthersStay
  <1>3. ASSUME NEW d \in Calls, NEW tool, NEW pc, NEW own, Begins(d, tool, pc, own) PROVE FALSE
    <2>1. call'[c] = [call[c] EXCEPT !.alone = FALSE]
      BY <1>3 DEF Begins
    <2> QED BY <1>1, <2>1 DEF CallStates
  <1>4. ASSUME NEW d \in Calls PROVE ~BeginPlain(d) /\ ~BeginClosing(d)
    BY <1>3 DEF BeginPlain, BeginClosing
  <1>5. ~\E t \in Tabs : Elsewhere(t)
    <2>1. ASSUME NEW t \in Tabs, Elsewhere(t) PROVE FALSE
      <3>1. call'[c] \in {call[c], [call[c] EXCEPT !.slid = TRUE]}
        BY <2>1, NoneIsNothing DEF Elsewhere, Shows
      <3> QED BY <1>1, <3>1 DEF CallStates
    <2> QED BY <2>1
  <1>6. ~Restart
    BY TabFacts DEF Restart
  <1> QED BY <1>2, <1>4, <1>5, <1>6 DEF Next, Works

\* Only Act takes a call past the click, and never on a page that is gone.
LEMMA ActFacts ==
    ASSUME IInv, Next, NEW c \in Calls, At(c, "act"), call'[c].pc = "settle"
    PROVE  /\ Act(c) /\ CallHolds(c) /\ CallKnown(call[c]) /\ c \in InFlight
           /\ page[call[c].tab] \in Docs
  <1>1. c \in InFlight /\ CallHolds(c) /\ CallKnown(call[c]) /\ call \in [Calls -> CallStates]
    BY CallFacts DEF At
  <1>2. Works(c)
    BY <1>1, OwnStep DEF At
  <1>3. Act(c)
    BY <1>2 DEF Works, At, Look, Judge, Unhalt, Open, PeekView, SideView, Drop, Close, Report,
               Facts, Forbid, Save, Refuse, Grant, Remembers, Answer, Claim, Mark, Settle, Restore
  <1>4. ~Gone(c)
    <2>1. ~Ends(c)
      BY <1>1, TabFacts DEF Ends
    <2> QED BY <1>3, <2>1 DEF Act
  <1> QED BY <1>1, <1>3, <1>4, CallFacts

\* Nothing leaves the session without the yes of a person or a grant, unless
\* somebody else moved the page between the decision and the click.
THEOREM NothingWithoutConsent == Spec => FiredWithConsent
  <1>1. ASSUME IInv, Next, NEW c \in Calls, Fires(c), ~call[c].slid
        PROVE  Control[page[call[c].tab]] \in yes
    <2>1. CallHolds(c) /\ page[call[c].tab] \in Docs
      BY <1>1, ActFacts DEF Fires
    <2>2. page[call[c].tab] = call[c].seen
      BY <1>1, <2>1, TabFacts DEF CallHolds, Fires, At
    <2> QED BY <1>1, <2>1, <2>2 DEF CallHolds, Fires, At, Leaving, Wanted
  <1>2. IInv /\ [Next]_vars =>
            [\A c \in Calls : Fires(c) /\ ~call[c].slid => Control[page[call[c].tab]] \in yes]_vars
    BY <1>1
  <1> QED BY Invariance, <1>2, PTL DEF Spec, FiredWithConsent

\* A job does a consequential action once for an entity, over restarts and
\* retries, by a call no other ran beside on a page nobody moved.
THEOREM DoneOnce == Spec => FiredOnce
  <1>1. ASSUME IInv, Next, NEW c \in Calls, Fires(c), host = "job", Alone(c), ~call[c].slid
        PROVE  <<entity, Control[page[call[c].tab]]>> \notin fired
    <2>1. CallHolds(c) /\ page[call[c].tab] \in Docs
      BY <1>1, ActFacts DEF Fires
    <2>2. page[call[c].tab] = call[c].seen
      BY <1>1, <2>1, TabFacts DEF CallHolds, Fires, At
    <2> QED BY <1>1, <2>1, <2>2 DEF CallHolds, Fires, At, Leaving, Wanted
  <1>2. IInv /\ [Next]_vars =>
            [\A c \in Calls : Fires(c) /\ host = "job" /\ Alone(c) /\ ~call[c].slid =>
                 <<entity, Control[page[call[c].tab]]>> \notin fired]_vars
    BY <1>1
  <1> QED BY Invariance, <1>2, PTL DEF Spec, FiredOnce

\* The person is not asked again for what the ledger holds.
THEOREM PersonAskedOnce == Spec => AskedOnce
  <1>1. ASSUME IInv, Next, NEW c \in Calls, At(c, "gate"), call'[c].pc = "ask"
        PROVE  Wanted(c) \notin told \/ tail # "clean"
    <2>1. c \in InFlight /\ YesKnown /\ call \in [Calls -> CallStates]
      BY <1>1, CallFacts DEF At, IInv
    <2>2. Works(c)
      BY <1>1, <2>1, OwnStep DEF At
    <2>3. ~Ends(c) /\ ~Moves(c, "act") /\ ~Moves(c, "claim")
      BY <1>1, <2>1, TabFacts DEF Ends, Moves, CallStates
    <2>4. Remembers(c)
      BY <1>1, <2>2, <2>3 DEF Works, At, Look, Judge, Unhalt, Open, PeekView, SideView, Drop, Close,
               Report, Facts, Forbid, Save, Refuse, Grant, Answer, Claim, Mark, Act, Settle, Restore
    <2>5. Wanted(c) \notin sticky
      BY <2>3, <2>4 DEF Remembers
    <2> QED BY <2>1, <2>5 DEF YesKnown
  <1>2. IInv /\ [Next]_vars =>
            [\A c \in Calls : At(c, "gate") /\ call'[c].pc = "ask" =>
                 Wanted(c) \notin told \/ tail # "clean"]_vars
    BY <1>1
  <1> QED BY Invariance, <1>2, PTL DEF Spec, AskedOnce

\* A failed expectation leads back to the page the action was decided on.
THEOREM OwnPageRestored == Spec => RestoresOwnPage
  <1>1. ASSUME IInv, Next, NEW c \in Calls, At(c, "restore"), call'[c].pc = "judge",
               call[c].tool = "click", Alone(c), ~call[c].slid
        PROVE  page'[call[c].tab] \in {call[c].seen, "wall"}
    <2>1. c \in InFlight /\ CallHolds(c) /\ call \in [Calls -> CallStates] /\ call[c].tab \in Tabs
          /\ page \in [Tabs -> Docs \cup {"lost", None}]
      BY <1>1, CallFacts DEF At, TypeOK
    <2>2. Works(c)
      BY <1>1, <2>1, OwnStep DEF At
    <2>3. ~Ends(c)
      BY <1>1, <2>1, TabFacts DEF Ends
    <2>4. Restore(c)
      BY <1>1, <2>2 DEF Works, At, Look, Judge, Unhalt, Open, PeekView, SideView, Drop, Close,
               Report, Facts, Forbid, Save, Refuse, Grant, Remembers, Answer, Claim, Mark, Act, Settle
    <2>5. page'[call[c].tab] \in {checkpoint, "wall"}
      BY <2>1, <2>3, <2>4 DEF Restore, Shows
    <2> QED BY <1>1, <2>1, <2>5 DEF CallHolds, At
  <1>2. IInv /\ [Next]_vars =>
            [\A c \in Calls :
                 At(c, "restore") /\ call'[c].pc = "judge" /\ call[c].tool = "click"
                   /\ Alone(c) /\ ~call[c].slid =>
                     page'[call[c].tab] \in {call[c].seen, "wall"}]_vars
    BY <1>1
  <1> QED BY Invariance, <1>2, PTL DEF Spec, RestoresOwnPage

\* While the session is halted no call acts, save one that had company.
THEOREM HaltIsKept == Spec => HaltHolds
  <1>1. ASSUME IInv, Next, NEW c \in Calls, At(c, "act"), call'[c].pc = "settle", halted
        PROVE  ~Alone(c)
    <2>1. CallHolds(c) /\ CallKnown(call[c])
      BY <1>1, ActFacts
    <2> QED BY <1>1, <2>1 DEF CallHolds, CallKnown, At
  <1>2. IInv /\ [Next]_vars =>
            [\A c \in Calls : At(c, "act") /\ call'[c].pc = "settle" /\ halted => ~Alone(c)]_vars
    BY <1>1
  <1> QED BY Invariance, <1>2, PTL DEF Spec, HaltHolds

====
