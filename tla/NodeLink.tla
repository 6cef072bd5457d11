---- MODULE NodeLink ----
(***************************************************************************)
(* The web hub (hosts/web/hub.ts) and the node agents that carry the       *)
(* browser (hosts/node-agent/client.ts): calls over web sockets that       *)
(* close, are replaced by another node's and are made again, and the flag  *)
(* at the hub that lets a person's input through to the browser.           *)
(*                                                                         *)
(* A connection is two queues; messages arrive in order, and either end    *)
(* learns of a break in its own time, until when what it sends is lost.    *)
(* A node answers on the socket it has when the answer is ready.  Of the   *)
(* methods only those matter that say whose the browser is; what they do   *)
(* at the node is one step (BrowserRuns looks into it).  The person's      *)
(* input, the screencast, accounts and the chat's sockets are left out.    *)
(***************************************************************************)
EXTENDS Integers, Sequences

CONSTANTS
    Nodes,        \* the node agents that know the hub's token
    Calls,        \* the calls of the hub's tools and commands
    MaxConns,     \* bounds the connections ever made
    MaxTroubles,  \* bounds, together, breaks, crashes and shutdowns
    None

Conns == 1..MaxConns
ASSUME BoundsAreNatural == {MaxConns, MaxTroubles} \subseteq Nat
ASSUME NoneIsNothing == None \notin Nodes \cup Calls \cup Conns

VARIABLES
    conn,      \* the connections: the node that made it, both ends, both queues
    hub,       \* the hub's socket, and the takeover flag
    call,      \* the calls, as the hub sees them
    work,      \* the calls, as the nodes see them
    node,      \* each node's socket, and whose its browser is
    troubles,  \* how many there were
    shut,      \* history: the hub was shut down
    astray     \* history: what may set flag and browser apart has happened

history == <<shut, astray>>
vars == <<conn, hub, call, work, node, troubles, history>>

Takes == {"takeover", "resume", "pauseRun"}
\* The methods of the browser's port, which a task drives the browser with.
Port == {"port"}
Methods == Takes \cup Port

Up == [kind : {"hello", "bye"}, call : {None}] \cup [kind : {"ok", "error"}, call : Calls]
Down == [kind : {"bye"}, call : {None}] \cup [kind : {"rpc"}, call : Calls]
Plain(kind) == [kind |-> kind, call |-> None]
For(kind, x) == [kind |-> kind, call |-> x]

Unmade == [node |-> None, far |-> "none", near |-> "none", cut |-> FALSE, up |-> <<>>, down |-> <<>>]
Conn == [node : Nodes \cup {None}, far : {"none", "open", "closed"},
         near : {"none", "hello", "live", "closing", "closed"},
         cut : BOOLEAN, up : Seq(Up), down : Seq(Down)]

TypeOK ==
    /\ conn \in [Conns -> Conn]
    /\ hub \in [sock : Conns \cup {None}, takeover : BOOLEAN]
    /\ call \in [Calls -> [st : {"idle", "pending", "ok", "failed"}, method : Methods \cup {None},
                           on : Conns \cup {None}]]
    /\ work \in [Calls -> {"none", "begun", "did", "threw", "over"}]
    /\ node \in [Nodes -> [sock : Conns \cup {None}, run : {"agent", "human", "paused"}]]
    /\ hub.sock # None => conn[hub.sock].near \in {"live", "closing"}
    /\ \A n \in Nodes : node[n].sock # None =>
           conn[node[n].sock].node = n /\ conn[node[n].sock].far = "open"
    /\ troubles \in 0..MaxTroubles
    /\ shut \in BOOLEAN /\ astray \in BOOLEAN

Init ==
    /\ conn = [c \in Conns |-> Unmade]
    /\ hub = [sock |-> None, takeover |-> FALSE]
    /\ call = [x \in Calls |-> [st |-> "idle", method |-> None, on |-> None]]
    /\ work = [x \in Calls |-> "none"]
    /\ node = [n \in Nodes |-> [sock |-> None, run |-> "agent"]]
    /\ troubles = 0 /\ shut = FALSE /\ astray = FALSE

Trouble == troubles < MaxTroubles /\ troubles' = troubles + 1

\* What is sent into a broken connection is lost.
Puts(queue, cut, m) == IF cut THEN queue ELSE Append(queue, m)
Sent(r, m) == [r EXCEPT !.down = Puts(@, r.cut, m)]
Replied(r, m) == [r EXCEPT !.up = Puts(@, r.cut, m)]

----------------------------------------------------------------------------
(* The hub.                                                                *)

\* hub.connected: a break that was not noticed yet does not count.
Connected == hub.sock # None /\ conn[hub.sock].near = "live"

Pending == {x \in Calls : call[x].st = "pending"}

\* Of a call that says whose the browser is, the hub now does not know.
Unsure(set) == \E x \in set : call[x].method \in Takes

RejectAll == call' = [x \in Calls |-> IF x \in Pending THEN [call[x] EXCEPT !.st = "failed"] ELSE call[x]]

\* acceptNode: the first message is hello, with the token.
Hello(c) == conn[c].near = "hello" /\ conn[c].up # <<>>

\* Variant: the calls to the node that is replaced are left as they are.
AttachOver(c) ==
    /\ Hello(c) /\ ~shut
    /\ hub' = [hub EXCEPT !.sock = c]
    /\ conn' = [d \in Conns |->
           IF d = c THEN [conn[d] EXCEPT !.near = "live", !.up = Tail(@)]
           ELSE IF d = hub.sock THEN [Sent(conn[d], Plain("bye")) EXCEPT !.near = "closing"]
           ELSE conn[d]]
    /\ astray' = (astray \/ hub.takeover)
    /\ UNCHANGED <<call, work, node, troubles, shut>>

\* attach: the connection is the hub's: the one before is closed and
\* its calls are rejected, but the flag stays.
Attach(c) ==
    /\ Hello(c) /\ ~shut
    /\ hub' = [hub EXCEPT !.sock = c]
    /\ conn' = [d \in Conns |->
           IF d = c THEN [conn[d] EXCEPT !.near = "live", !.up = Tail(@)]
           ELSE IF d = hub.sock THEN [Sent(conn[d], Plain("bye")) EXCEPT !.near = "closing"]
           ELSE conn[d]]
    /\ RejectAll
    /\ astray' = (astray \/ hub.takeover \/ Unsure(Pending))
    /\ UNCHANGED <<work, node, troubles, shut>>

\* hub.call.
Call(x, m) ==
    /\ call[x].st = "idle"
    /\ IF Connected
       THEN /\ call' = [call EXCEPT ![x] = [st |-> "pending", method |-> m, on |-> hub.sock]]
            /\ conn' = [conn EXCEPT ![hub.sock] = Sent(@, For("rpc", x))]
            /\ astray' = (astray \/ (m \in Takes /\ Unsure(Pending)))
       ELSE /\ call' = [call EXCEPT ![x] = [st |-> "failed", method |-> m, on |-> None]]
            /\ UNCHANGED <<conn, astray>>
    /\ UNCHANGED <<hub, work, node, troubles, shut>>

Hears(c) == conn[c].near \in {"live", "closing"} /\ conn[c].up # <<>>

\* Variant: any answer but takeover's lowers the flag.
AfterForgetful(method, flag) == method = "takeover"

\* The flag, after a call that went well.  pauseRun leaves it; startRun and
\* stopRun are as resume.
After(method, flag) ==
    CASE method = "takeover" -> TRUE
      [] method = "resume" -> FALSE
      [] OTHER -> flag

\* onNode: of an answer that nobody waits for nothing is made.
Answered(c) ==
    LET m == Head(conn[c].up)
        x == m.call
    IN  /\ Hears(c) /\ m.kind \in {"ok", "error"}
        /\ conn' = [conn EXCEPT ![c].up = Tail(@)]
        /\ IF x \in Pending
           THEN /\ call' = [call EXCEPT ![x].st = IF m.kind = "ok" THEN "ok" ELSE "failed"]
                /\ hub' = [hub EXCEPT !.takeover =
                              IF m.kind = "ok" THEN After(call[x].method, @) ELSE @]
           ELSE UNCHANGED <<call, hub>>
        /\ UNCHANGED <<work, node, troubles, history>>

\* Variant: who waits for an answer goes on waiting.
ClosedQuietly(c) ==
    /\ conn' = [conn EXCEPT ![c].near = "closed", ![c].up = <<>>]
    /\ IF hub.sock = c
       THEN /\ hub' = [sock |-> None, takeover |-> FALSE] /\ UNCHANGED call
            /\ astray' = (astray \/ hub.takeover \/ Unsure(Pending))
       ELSE UNCHANGED <<hub, call, astray>>

\* The close handler of a socket, which minds only the hub's own.
Closed(c) ==
    /\ conn' = [conn EXCEPT ![c].near = "closed", ![c].up = <<>>]
    /\ IF hub.sock = c
       THEN /\ hub' = [sock |-> None, takeover |-> FALSE] /\ RejectAll
            /\ astray' = (astray \/ hub.takeover \/ Unsure(Pending))
       ELSE UNCHANGED <<hub, call, astray>>

HubSeesEnd(c) ==
    /\ conn[c].near \in {"hello", "live", "closing"}
    /\ \/ conn[c].up # <<>> /\ Head(conn[c].up).kind = "bye"
       \/ conn[c].up = <<>> /\ conn[c].cut
    /\ Closed(c)
    /\ UNCHANGED <<work, node, troubles, shut>>

\* detach, of every hub when the server stops: the socket is forgotten, so its
\* close handler minds nothing and the calls stay pending.
Detach ==
    /\ ~shut /\ shut' = TRUE /\ Trouble
    /\ IF hub.sock = None THEN UNCHANGED <<conn, hub>>
       ELSE /\ conn' = [conn EXCEPT ![hub.sock] = [Sent(@, Plain("bye")) EXCEPT !.near = "closing"]]
            /\ hub' = [hub EXCEPT !.sock = None]
    /\ UNCHANGED <<call, work, node, astray>>

----------------------------------------------------------------------------
(* A node agent.                                                           *)

\* connect, at first and after each close, and hello once the socket is open.
Connect(n) ==
    /\ node[n].sock = None /\ ~shut
    /\ \E c \in Conns :
           /\ conn[c].far = "none" /\ \A d \in 1..(c - 1) : conn[d].far # "none"
           /\ conn' = [conn EXCEPT ![c] = [Unmade EXCEPT !.node = n, !.far = "open", !.near = "hello",
                                                         !.up = <<Plain("hello")>>]]
           /\ node' = [node EXCEPT ![n].sock = c]
    /\ UNCHANGED <<hub, call, work, troubles, history>>

\* onMessage is not awaited: a call begins beside those at work.
NodeHears(n) ==
    LET c == node[n].sock
        m == Head(conn[c].down)
    IN  /\ c # None /\ conn[c].down # <<>> /\ m.kind = "rpc"
        /\ conn' = [conn EXCEPT ![c].down = Tail(@)]
        /\ work' = [work EXCEPT ![m.call] = "begun"]
        /\ UNCHANGED <<hub, call, node, troubles, history>>

By(x) == conn[call[x].on].node

\* dispatchSessionRpc.
DoSession(x) ==
    /\ call[x].method \notin Port
    /\ node' = [node EXCEPT ![By(x)].run =
                   CASE call[x].method = "takeover" -> "human"
                     [] call[x].method = "resume" -> "agent"
                     [] call[x].method = "pauseRun" -> "paused"]

\* dispatchPortRpc, which asks nobody whose the browser is.
DoPort(x) == call[x].method \in Port /\ UNCHANGED node

\* What is thrown after the work: resume has unlocked the browser when its
\* inspect fails, and the disk may refuse what takeover appends.  The hub takes
\* the call for one that changed nothing.
ThrowsDone(x) ==
    /\ DoSession(x)
    /\ work' = [work EXCEPT ![x] = "threw"]
    /\ astray' = (astray \/ call[x].method \in {"takeover", "resume"})

\* onMessage: the port's method or the session's, which may throw.
Do(x) ==
    /\ work[x] = "begun"
    /\ \/ (DoPort(x) \/ DoSession(x)) /\ work' = [work EXCEPT ![x] = "did"] /\ UNCHANGED astray
       \/ UNCHANGED <<node, astray>> /\ work' = [work EXCEPT ![x] = "threw"]
       \/ ThrowsDone(x)
    /\ UNCHANGED <<conn, hub, call, troubles, shut>>

\* The answer goes to the socket there is, if it is open.
Report(x) ==
    LET c == node[By(x)].sock
    IN  /\ work[x] \in {"did", "threw"}
        /\ work' = [work EXCEPT ![x] = "over"]
        /\ IF c = None THEN UNCHANGED conn
           ELSE conn' = [conn EXCEPT ![c] =
                            Replied(@, For(IF work[x] = "did" THEN "ok" ELSE "error", x))]
        /\ UNCHANGED <<hub, call, node, troubles, history>>

\* The close handler: a bye is answered, a break noticed once all is read.
NodeSeesEnd(n) ==
    LET c == node[n].sock
    IN  /\ c # None
        /\ \/ conn[c].down # <<>> /\ Head(conn[c].down).kind = "bye"
           \/ conn[c].down = <<>> /\ conn[c].cut
        /\ conn' = [conn EXCEPT ![c] = [Replied(@, Plain("bye")) EXCEPT !.far = "closed", !.down = <<>>]]
        /\ node' = [node EXCEPT ![n].sock = None]
        /\ UNCHANGED <<hub, call, work, troubles, history>>

----------------------------------------------------------------------------
(* Breaks.                                                                 *)

\* Of what is under way in either direction the last part is lost.
Break(c) ==
    /\ conn[c].far = "open" /\ ~conn[c].cut /\ Trouble
    /\ \E i \in 0..Len(conn[c].up), j \in 0..Len(conn[c].down) :
           conn' = [conn EXCEPT ![c].cut = TRUE,
                                ![c].up = SubSeq(@, 1, i), ![c].down = SubSeq(@, 1, j)]
    /\ UNCHANGED <<hub, call, work, node, history>>

\* The node agent dies, its calls with it; the run is kept on its disk.
Crash(n) ==
    LET c == node[n].sock
    IN  /\ c # None /\ Trouble
        /\ conn' = [conn EXCEPT ![c].cut = TRUE, ![c].far = "closed", ![c].down = <<>>]
        /\ node' = [node EXCEPT ![n].sock = None]
        /\ work' = [x \in Calls |->
                       IF work[x] \in {"begun", "did", "threw"} /\ By(x) = n THEN "over" ELSE work[x]]
        /\ UNCHANGED <<hub, call, history>>

HubSteps == \E c \in Conns : Attach(c) \/ Answered(c) \/ HubSeesEnd(c)
NodeSteps == \E n \in Nodes : NodeHears(n) \/ NodeSeesEnd(n)
WorkSteps == \E x \in Calls : Do(x) \/ Report(x)

Next ==
    \/ HubSteps \/ NodeSteps \/ WorkSteps
    \/ \E c \in Conns : Break(c)
    \/ \E n \in Nodes : Connect(n) \/ Crash(n)
    \/ \E x \in Calls, m \in Methods : Call(x, m)
    \/ Detach

\* Messages arrive, breaks are noticed, and what a node has begun ends (the
\* browser's own time limits).  Nobody need call or connect again.
Fairness == WF_vars(HubSteps \/ NodeSteps \/ WorkSteps)

Spec == Init /\ [][Next]_vars /\ Fairness

----------------------------------------------------------------------------
(* What must hold.                                                         *)

\* A call that waits was sent on the connection the hub now has, so that its
\* close or its replacement will settle the call, unless the server stops.
PendingReachable == shut \/ \A x \in Pending : call[x].on = hub.sock

\* The flag that lets a person's input through is down without a node, until
\* the server stops; and while no call about it is under way, it says whose the
\* browser of the connected node is (paused it keeps), unless the connection
\* ended or was replaced with the flag up or with such a call under way, two
\* such calls overlapped, or a takeover or a resume threw when its work was
\* done: then a person may have the browser with the flag down, or the agent
\* with the flag up.
TakeoverAgrees ==
    /\ hub.takeover => hub.sock # None \/ shut
    /\ Connected /\ ~astray /\ ~Unsure(Pending) =>
           LET run == node[conn[hub.sock].node].run
           IN  (hub.takeover => run \in {"human", "paused"}) /\ (run = "human" => hub.takeover)

\* Every call is settled, by its answer or because the connection is gone,
\* whatever breaks and whoever replaces the node, until the server stops.
CallsSettle ==
    \A x \in Calls : x \in Pending ~> x \notin Pending \/ shut

====
