---- MODULE NodeLinkProofs ----
(***************************************************************************)
(* A waiting call can be settled, and the takeover flag says whose the     *)
(* browser is, for all nodes, calls, connections and breaks.               *)
(*                                                                         *)
(* PendingReachable needs little more than the types.  TakeoverAgrees is   *)
(* far from inductive: between a takeover and its answer, flag and browser *)
(* differ, and IInv says by what, at each stage of the call that is under  *)
(* way: sent, begun, done, on its way back.                                *)
(***************************************************************************)
EXTENDS NodeLink, TLAPS

\* Message m is in queue q, and not twice.
InQueue(m, q) == \E i \in 1..Len(q) : q[i] = m
Once(m, q) == \A i, j \in 1..Len(q) : q[i] = m /\ q[j] = m => i = j

\* A connection is made once, by a node; calls are made on such connections.
MadeKnown ==
    /\ \A c \in Conns :
           /\ conn[c].far = "none" => conn[c] = Unmade
           /\ conn[c].far # "none" => conn[c].node \in Nodes
    /\ \A x \in Calls :
           /\ call[x].on # None => conn[call[x].on].far # "none"
           /\ work[x] # "none" => call[x].on # None
           /\ call[x].st = "pending" => call[x].on # None
           /\ call[x].on # None => call[x].method \in Methods /\ call[x].st # "idle"

\* A call is sent once, on its connection, and begun when it arrives; its
\* answer leaves when it is over.
QueuesKnown ==
    \A c \in Conns, x \in Calls :
        /\ InQueue(For("rpc", x), conn[c].down) =>
               call[x].on = c /\ work[x] = "none" /\ call[x].st # "idle"
        /\ Once(For("rpc", x), conn[c].down)
        /\ \A kind \in {"ok", "error"} : InQueue(For(kind, x), conn[c].up) => work[x] = "over"

\* Flag and browser agree.
Agree(flag, run) == (flag => run \in {"human", "paused"}) /\ (run = "human" => flag)

Holder == conn[hub.sock].node
Taking(x) == x \in Pending /\ call[x].method \in Takes

\* What a call that says whose the browser is has already changed.
TakingKnown(x) ==
    LET run == node[Holder].run
        after == After(call[x].method, hub.takeover)
    IN  /\ work[x] \in {"none", "begun", "threw"} => Agree(hub.takeover, run)
        /\ work[x] = "did" => Agree(after, run)
        /\ \A c \in Conns :
               /\ InQueue(For("ok", x), conn[c].up) => Agree(after, run)
               /\ InQueue(For("error", x), conn[c].up) => Agree(hub.takeover, run)

\* Unless flag and browser were set apart, one such call at most is under way,
\* none is at work that nobody waits for, and no other node's browser is taken.
TakesKnown ==
    ~astray /\ ~shut =>
        /\ \A x, y \in Calls : Taking(x) /\ Taking(y) => x = y
        /\ \A x \in Calls :
               call[x].method \in Takes
               /\ (\/ work[x] \in {"begun", "did", "threw"}
                   \/ \E c \in Conns : InQueue(For("rpc", x), conn[c].down))
               => x \in Pending
        /\ \A n \in Nodes : hub.sock = None \/ n # Holder => node[n].run # "human"
        /\ hub.sock = None => ~hub.takeover
        /\ hub.sock # None /\ (\A x \in Calls : ~Taking(x)) =>
               Agree(hub.takeover, node[Holder].run)
        /\ \A x \in Calls : Taking(x) => TakingKnown(x)

IInv ==
    /\ TypeOK
    /\ MadeKnown
    /\ QueuesKnown
    /\ PendingReachable
    /\ hub.takeover => hub.sock # None \/ shut
    /\ shut => hub.sock = None
    /\ TakesKnown

----------------------------------------------------------------------------
(* Queues.                                                                 *)

\* Nothing is in an empty queue.
LEMMA EmptyFacts == ~ \E m : InQueue(m, <<>>) \/ ~Once(m, <<>>)
  BY DEF InQueue, Once

\* What Append does to a queue.
LEMMA AppendFacts ==
    ASSUME NEW S, NEW q \in Seq(S), NEW e \in S
    PROVE  /\ Append(q, e) \in Seq(S)
           /\ \A m : InQueue(m, Append(q, e)) => InQueue(m, q) \/ m = e
           /\ \A m : Once(m, q) /\ (m # e \/ ~InQueue(m, q)) => Once(m, Append(q, e))
  <1>1. /\ Append(q, e) \in Seq(S) /\ Len(Append(q, e)) = Len(q) + 1 /\ Len(q) \in Nat
        /\ \A i \in 1..Len(q) : Append(q, e)[i] = q[i]
        /\ Append(q, e)[Len(q) + 1] = e
    OBVIOUS
  <1>2. ASSUME NEW m, InQueue(m, Append(q, e)), m # e PROVE InQueue(m, q)
    <2>1. PICK i \in 1..(Len(q) + 1) : Append(q, e)[i] = m
      BY <1>1, <1>2 DEF InQueue
    <2>2. i \in 1..Len(q)
      BY <1>1, <1>2, <2>1
    <2> QED BY <1>1, <2>1, <2>2 DEF InQueue
  <1>3. ASSUME NEW m, Once(m, q), m # e \/ ~InQueue(m, q) PROVE Once(m, Append(q, e))
    <2> SUFFICES ASSUME NEW i \in 1..(Len(q) + 1), NEW j \in 1..(Len(q) + 1),
                        Append(q, e)[i] = m, Append(q, e)[j] = m
                 PROVE  i = j
      BY <1>1 DEF Once
    <2>1. CASE m # e
      <3>1. i \in 1..Len(q) /\ j \in 1..Len(q)
        BY <1>1, <2>1
      <3> QED BY <1>1, <1>3, <3>1 DEF Once
    <2>2. CASE ~InQueue(m, q)
      <3>1. i \notin 1..Len(q) /\ j \notin 1..Len(q)
        BY <1>1, <2>2 DEF InQueue
      <3> QED BY <1>1, <3>1
    <2> QED BY <1>3, <2>1, <2>2
  <1> QED BY <1>1, <1>2, <1>3

\* What Tail does to a queue.
LEMMA TailFacts ==
    ASSUME NEW S, NEW q \in Seq(S), q # <<>>
    PROVE  /\ Tail(q) \in Seq(S) /\ Head(q) \in S /\ InQueue(Head(q), q)
           /\ \A m : InQueue(m, Tail(q)) => InQueue(m, q)
           /\ \A m : Once(m, q) => Once(m, Tail(q))
           /\ Once(Head(q), q) => ~InQueue(Head(q), Tail(q))
  <1>1. /\ Tail(q) \in Seq(S) /\ Len(q) \in Nat /\ Len(q) > 0 /\ Len(Tail(q)) = Len(q) - 1
        /\ Head(q) = q[1] /\ q[1] \in S
        /\ \A i \in 1..(Len(q) - 1) : Tail(q)[i] = q[i + 1]
    OBVIOUS
  <1>2. \A i \in 1..Len(Tail(q)) : i + 1 \in 1..Len(q) /\ Tail(q)[i] = q[i + 1]
    BY <1>1
  <1>3. InQueue(Head(q), q)
    BY <1>1 DEF InQueue
  <1>4. \A m : InQueue(m, Tail(q)) => InQueue(m, q)
    BY <1>2 DEF InQueue
  <1>5. ASSUME NEW m, Once(m, q) PROVE Once(m, Tail(q))
    <2> SUFFICES ASSUME NEW i \in 1..Len(Tail(q)), NEW j \in 1..Len(Tail(q)),
                        Tail(q)[i] = m, Tail(q)[j] = m
                 PROVE  i = j
      BY DEF Once
    <2>1. i + 1 = j + 1
      BY <1>2, <1>5 DEF Once
    <2> QED BY <1>1, <2>1
  <1>6. ASSUME Once(Head(q), q), NEW i \in 1..Len(Tail(q)), Tail(q)[i] = Head(q) PROVE FALSE
    <2>1. 1 \in 1..Len(q) /\ q[i + 1] = Head(q) /\ i + 1 \in 1..Len(q)
      BY <1>1, <1>2, <1>6
    <2>2. i + 1 = 1
      BY <1>1, <1>6, <2>1 DEF Once
    <2> QED BY <1>1, <2>2
  <1> QED BY <1>1, <1>3, <1>4, <1>5, <1>6 DEF InQueue

\* What the loss of its last part does to a queue.
LEMMA FrontFacts ==
    ASSUME NEW S, NEW q \in Seq(S), NEW n \in 0..Len(q)
    PROVE  /\ SubSeq(q, 1, n) \in Seq(S)
           /\ \A m : InQueue(m, SubSeq(q, 1, n)) => InQueue(m, q)
           /\ \A m : Once(m, q) => Once(m, SubSeq(q, 1, n))
  <1>1. /\ SubSeq(q, 1, n) \in Seq(S) /\ Len(SubSeq(q, 1, n)) = n /\ Len(q) \in Nat
        /\ \A i \in 1..n : SubSeq(q, 1, n)[i] = q[i]
    OBVIOUS
  <1>2. \A i \in 1..Len(SubSeq(q, 1, n)) : i \in 1..Len(q) /\ SubSeq(q, 1, n)[i] = q[i]
    BY <1>1
  <1> QED BY <1>1, <1>2 DEF InQueue, Once

\* A queue that has no more of the calls' messages than before.
Shrinks(q, later) ==
    \A kind \in {"rpc", "ok", "error"}, x \in Calls :
        /\ InQueue(For(kind, x), later) => InQueue(For(kind, x), q)
        /\ Once(For(kind, x), q) => Once(For(kind, x), later)

\* A queue shrinks to itself and to nothing; a bye is no call's message.
LEMMA ShrinkFacts ==
    /\ \A q : Shrinks(q, q) /\ Shrinks(q, <<>>)
    /\ \A kind \in {"rpc", "ok", "error"}, x \in Calls, k \in {"hello", "bye"} :
          For(kind, x) # Plain(k)
  <1>1. \A q : Shrinks(q, q) /\ Shrinks(q, <<>>)
    BY EmptyFacts DEF Shrinks
  <1>2. \A kind \in {"rpc", "ok", "error"}, x \in Calls, k \in {"hello", "bye"} :
          For(kind, x) # Plain(k)
    BY DEF For, Plain
  <1> QED BY <1>1, <1>2

\* What is put into a queue, or lost.
LEMMA PutFacts ==
    ASSUME NEW S, NEW q \in Seq(S), NEW cut \in BOOLEAN, NEW m \in S
    PROVE  /\ Puts(q, cut, m) \in Seq(S)
           /\ \A k : InQueue(k, Puts(q, cut, m)) => InQueue(k, q) \/ k = m
           /\ \A k : Once(k, q) /\ (k # m \/ ~InQueue(k, q)) => Once(k, Puts(q, cut, m))
           /\ (\E k \in {"hello", "bye"} : m = Plain(k)) => Shrinks(q, Puts(q, cut, m))
  <1>1. /\ Puts(q, cut, m) \in Seq(S)
        /\ \A k : InQueue(k, Puts(q, cut, m)) => InQueue(k, q) \/ k = m
        /\ \A k : Once(k, q) /\ (k # m \/ ~InQueue(k, q)) => Once(k, Puts(q, cut, m))
    BY AppendFacts DEF Puts
  <1> QED BY <1>1, ShrinkFacts DEF Shrinks

\* Messages are messages.
LEMMA MessageFacts ==
    /\ \A k \in {"hello", "bye"} : Plain(k) \in Up
    /\ Plain("bye") \in Down
    /\ \A x \in Calls : For("rpc", x) \in Down /\ For("ok", x) \in Up /\ For("error", x) \in Up
    /\ \A m \in Up : m.kind \in {"ok", "error"} => m.call \in Calls /\ m = For(m.kind, m.call)
    /\ \A m \in Down : m.kind = "rpc" => m.call \in Calls /\ m = For("rpc", m.call)
  BY DEF Up, Down, Plain, For

\* What sending does to a connection.
LEMMA SentFacts ==
    ASSUME NEW r \in Conn, NEW m \in Down
    PROVE  LET s == Sent(r, m) IN
           /\ s \in Conn /\ s.down = Puts(r.down, r.cut, m)
           /\ s.up = r.up /\ s.node = r.node /\ s.far = r.far /\ s.near = r.near /\ s.cut = r.cut
  <1> DEFINE d == Puts(r.down, r.cut, m)
  <1>1. d \in Seq(Down)
    BY PutFacts DEF Conn
  <1>2. Sent(r, m) = [r EXCEPT !.down = d]
    BY DEF Sent
  <1> HIDE DEF d
  <1>3. /\ Sent(r, m) \in Conn /\ Sent(r, m).down = d
        /\ Sent(r, m).up = r.up /\ Sent(r, m).node = r.node /\ Sent(r, m).far = r.far
        /\ Sent(r, m).near = r.near /\ Sent(r, m).cut = r.cut
    BY <1>1, <1>2 DEF Conn
  <1> QED BY <1>3 DEF d

\* What an answer, or a bye, does to a connection.
LEMMA RepliedFacts ==
    ASSUME NEW r \in Conn, NEW m \in Up
    PROVE  LET s == Replied(r, m) IN
           /\ s \in Conn /\ s.up = Puts(r.up, r.cut, m)
           /\ s.down = r.down /\ s.node = r.node /\ s.far = r.far /\ s.near = r.near /\ s.cut = r.cut
  <1> DEFINE u == Puts(r.up, r.cut, m)
  <1>1. u \in Seq(Up)
    BY PutFacts DEF Conn
  <1>2. Replied(r, m) = [r EXCEPT !.up = u]
    BY DEF Replied
  <1> HIDE DEF u
  <1>3. /\ Replied(r, m) \in Conn /\ Replied(r, m).up = u
        /\ Replied(r, m).down = r.down /\ Replied(r, m).node = r.node /\ Replied(r, m).far = r.far
        /\ Replied(r, m).near = r.near /\ Replied(r, m).cut = r.cut
    BY <1>1, <1>2 DEF Conn
  <1> QED BY <1>3 DEF u


----------------------------------------------------------------------------
(* What most steps have in common.                                         *)

\* A connection that was made stays its node's; one may be made.
Onward(r, s) ==
    /\ s \in Conn
    /\ r.far # "none" => s.node = r.node /\ s.far # "none"
    /\ r.far = "none" => s = r \/ (s.node \in Nodes /\ s.far # "none")

ConnsKept == \A c \in Conns : Onward(conn[c], conn'[c])

\* No call is made, though some may be settled.
CallsKept ==
    \A x \in Calls :
        /\ call'[x].on = call[x].on /\ call'[x].method = call[x].method
        /\ call'[x].st = "idle" <=> call[x].st = "idle"
        /\ call'[x].st = "pending" => call[x].st = "pending"

QueuesShrink ==
    \A c \in Conns : Shrinks(conn[c].down, conn'[c].down) /\ Shrinks(conn[c].up, conn'[c].up)

\* Connections and calls stay known.
LEMMA MadeStays ==
    ASSUME TypeOK, MadeKnown, ConnsKept, CallsKept,
           \A x \in Calls : work'[x] # "none" => work[x] # "none" \/ call[x].on # None
    PROVE  MadeKnown'
  <1>1. ASSUME NEW c \in Conns
        PROVE  /\ conn'[c].far = "none" => conn'[c] = Unmade
               /\ conn'[c].far # "none" => conn'[c].node \in Nodes
    BY <1>1 DEF MadeKnown, ConnsKept, Onward
  <1>2. ASSUME NEW x \in Calls
        PROVE  /\ call'[x].on # None => conn'[call'[x].on].far # "none"
               /\ work'[x] # "none" => call'[x].on # None
               /\ call'[x].st = "pending" => call'[x].on # None
               /\ call'[x].on # None => call'[x].method \in Methods /\ call'[x].st # "idle"
    <2>1. call[x].on # None => call[x].on \in Conns
      BY DEF TypeOK
    <2> QED BY <2>1 DEF MadeKnown, ConnsKept, CallsKept, Onward
  <1> QED BY <1>1, <1>2 DEF MadeKnown

\* Queues that only shrink stay known.
LEMMA QueuesStay ==
    ASSUME QueuesKnown, QueuesShrink, CallsKept,
           \A x \in Calls : work'[x] = work[x] \/ work[x] \notin {"none", "over"}
    PROVE  QueuesKnown'
  <1> SUFFICES ASSUME NEW c \in Conns, NEW x \in Calls
               PROVE  /\ InQueue(For("rpc", x), conn'[c].down) =>
                             call'[x].on = c /\ work'[x] = "none" /\ call'[x].st # "idle"
                      /\ Once(For("rpc", x), conn'[c].down)
                      /\ \A kind \in {"ok", "error"} :
                             InQueue(For(kind, x), conn'[c].up) => work'[x] = "over"
    BY DEF QueuesKnown
  <1>1. /\ InQueue(For("rpc", x), conn[c].down) =>
               call[x].on = c /\ work[x] = "none" /\ call[x].st # "idle"
        /\ Once(For("rpc", x), conn[c].down)
        /\ \A kind \in {"ok", "error"} : InQueue(For(kind, x), conn[c].up) => work[x] = "over"
    BY DEF QueuesKnown
  <1>2. /\ InQueue(For("rpc", x), conn'[c].down) => InQueue(For("rpc", x), conn[c].down)
        /\ Once(For("rpc", x), conn[c].down) => Once(For("rpc", x), conn'[c].down)
        /\ \A kind \in {"ok", "error"} :
               InQueue(For(kind, x), conn'[c].up) => InQueue(For(kind, x), conn[c].up)
    BY DEF QueuesShrink, Shrinks
  <1> QED BY <1>1, <1>2 DEF CallsKept

\* A step that sets neither the flag nor a browser, makes or settles no call
\* that says whose the browser is, and sends nothing of the calls.
Quiet ==
    /\ ~astray' /\ ~shut' => ~astray /\ ~shut
    /\ hub' = hub /\ CallsKept /\ ConnsKept /\ QueuesShrink
    /\ \A x \in Calls : Taking(x) => call'[x].st = "pending"
    /\ \A n \in Nodes : node'[n].run = node[n].run
    /\ \A x \in Calls :
           \/ work'[x] = work[x]
           \/ work[x] # "none" /\ work'[x] = "over"
           \/ /\ work[x] = "none" /\ work'[x] = "begun"
              /\ \E c \in Conns : InQueue(For("rpc", x), conn[c].down)
           \/ /\ work[x] = "begun"
              /\ work'[x] = "threw" \/ (work'[x] = "did" /\ call[x].method \notin Takes)

\* After it what was known of flag and browser is still known.
LEMMA TakesStay == IInv /\ Quiet => TakesKnown'
  <1> SUFFICES ASSUME IInv, Quiet, ~astray', ~shut'
               PROVE  /\ \A x, y \in Calls : Taking(x)' /\ Taking(y)' => x = y
                      /\ \A x \in Calls :
                             call'[x].method \in Takes
                             /\ (\/ work'[x] \in {"begun", "did", "threw"}
                                 \/ \E c \in Conns : InQueue(For("rpc", x), conn'[c].down))
                             => x \in Pending'
                      /\ \A n \in Nodes : hub'.sock = None \/ n # Holder' => node'[n].run # "human"
                      /\ hub'.sock = None => ~hub'.takeover
                      /\ hub'.sock # None /\ (\A x \in Calls : ~Taking(x)') =>
                             Agree(hub'.takeover, node'[Holder'].run)
                      /\ \A x \in Calls : Taking(x)' => TakingKnown(x)'
    BY DEF TakesKnown
  <1>1. /\ \A x, y \in Calls : Taking(x) /\ Taking(y) => x = y
        /\ \A x \in Calls :
               call[x].method \in Takes
               /\ (\/ work[x] \in {"begun", "did", "threw"}
                   \/ \E c \in Conns : InQueue(For("rpc", x), conn[c].down))
               => x \in Pending
        /\ \A n \in Nodes : hub.sock = None \/ n # Holder => node[n].run # "human"
        /\ hub.sock = None => ~hub.takeover
        /\ hub.sock # None /\ (\A x \in Calls : ~Taking(x)) =>
               Agree(hub.takeover, node[Holder].run)
        /\ \A x \in Calls : Taking(x) => TakingKnown(x)
    BY DEF Quiet, IInv, TakesKnown
  <1>2. \A x \in Calls : Taking(x)' <=> Taking(x)
    BY DEF Quiet, CallsKept, Taking, Pending
  <1>3. hub' = hub /\ (hub.sock # None => Holder' = Holder /\ Holder \in Nodes)
    <2>1. hub.sock # None => hub.sock \in Conns /\ conn[hub.sock].near # "none"
      BY DEF IInv, TypeOK
    <2>2. hub.sock # None => conn[hub.sock].far # "none"
      BY <2>1 DEF IInv, MadeKnown, Unmade
    <2> QED BY <2>1, <2>2 DEF Quiet, ConnsKept, Onward, Holder, IInv, MadeKnown
  <1>4. \A n \in Nodes : node'[n].run = node[n].run
    BY DEF Quiet
  <1>5. \A c \in Conns, x \in Calls, kind \in {"ok", "error"} :
            InQueue(For(kind, x), conn'[c].up) => InQueue(For(kind, x), conn[c].up)
    BY DEF Quiet, QueuesShrink, Shrinks
  <1>6. ASSUME NEW x \in Calls, call'[x].method \in Takes,
               \/ work'[x] \in {"begun", "did", "threw"}
               \/ \E c \in Conns : InQueue(For("rpc", x), conn'[c].down)
        PROVE  x \in Pending'
    <2>1. \/ work[x] \in {"begun", "did", "threw"}
          \/ \E c \in Conns : InQueue(For("rpc", x), conn[c].down)
      BY <1>6 DEF Quiet, QueuesShrink, Shrinks
    <2>2. Taking(x)
      BY <1>1, <1>6, <2>1 DEF Quiet, CallsKept, Taking
    <2> QED BY <2>2 DEF Quiet, Pending
  <1>7. ASSUME NEW x \in Calls, Taking(x) PROVE TakingKnown(x)'
    <2>1. hub.sock # None
      BY <1>7, ~shut DEF IInv, PendingReachable, Taking, MadeKnown, Pending, Quiet
    <2>2. TakingKnown(x) /\ call'[x].method = call[x].method
      BY <1>1, <1>7 DEF Quiet, CallsKept
    <2>3. node'[Holder'].run = node[Holder].run
      BY <1>3, <1>4, <2>1
    <2>4. \/ work'[x] \in {work[x], "over"}
          \/ work[x] = "none" /\ work'[x] = "begun"
          \/ work[x] = "begun" /\ work'[x] = "threw"
      BY <1>7 DEF Quiet, Taking
    <2> QED BY <1>3, <1>5, <2>2, <2>3, <2>4 DEF TakingKnown
  <1> QED BY <1>1, <1>2, <1>3, <1>4, <1>6, <1>7


\* A quiet step that keeps the types and the queues keeps all that is known.
LEMMA QuietStep ==
    ASSUME IInv, TypeOK', Quiet, QueuesKnown', shut' = shut
    PROVE  IInv'
  <1>1. MadeKnown'
    <2>1. \A x \in Calls : work'[x] # "none" => work[x] # "none" \/ call[x].on # None
      <3> SUFFICES ASSUME NEW x \in Calls, work'[x] # "none", work[x] = "none"
                   PROVE  call[x].on # None
        OBVIOUS
      <3> QED BY NoneIsNothing DEF IInv, QueuesKnown, Quiet
    <2> QED BY <2>1, MadeStays DEF IInv, Quiet
  <1>2. PendingReachable'
    BY DEF IInv, PendingReachable, Pending, Quiet, CallsKept
  <1>3. (hub'.takeover => hub'.sock # None \/ shut') /\ (shut' => hub'.sock = None)
    BY DEF IInv, Quiet
  <1> QED BY <1>1, <1>2, <1>3, TakesStay DEF IInv


\* The sockets that hub and nodes have were made.
LEMMA SockFacts ==
    ASSUME TypeOK, MadeKnown
    PROVE  /\ \A c \in Conns : conn[c] \in Conn /\ (conn[c].near # "none" => conn[c].far # "none")
           /\ hub.sock # None =>
                  /\ hub.sock \in Conns /\ conn[hub.sock].near \in {"live", "closing"}
                  /\ conn[hub.sock].node \in Nodes
           /\ \A n \in Nodes : node[n].sock # None =>
                  node[n].sock \in Conns /\ conn[node[n].sock].far = "open"
                  /\ conn[node[n].sock].node = n
  <1>1. \A c \in Conns : conn[c] \in Conn /\ (conn[c].near # "none" => conn[c].far # "none")
    BY DEF TypeOK, MadeKnown, Unmade
  <1> QED BY <1>1 DEF TypeOK, MadeKnown

\* The types of all but the connections and the hub.
RestTyped ==
    /\ node \in [Nodes -> [sock : Conns \cup {None}, run : {"agent", "human", "paused"}]]
    /\ call \in [Calls -> [st : {"idle", "pending", "ok", "failed"},
                           method : Methods \cup {None}, on : Conns \cup {None}]]
    /\ work \in [Calls -> {"none", "begun", "did", "threw", "over"}]
    /\ troubles \in 0..MaxTroubles /\ shut \in BOOLEAN /\ astray \in BOOLEAN

\* The connections' ends, when only one changes and stays as it must for who has it.
LEMMA TypeStays ==
    ASSUME TypeOK, NEW d \in Conns, NEW s \in Conn,
           conn' = [conn EXCEPT ![d] = s], s.node = conn[d].node,
           hub' = hub, hub.sock = d => s.near \in {"live", "closing"},
           \A n \in Nodes : node'[n].sock \in {node[n].sock, None},
           \A n \in Nodes : node'[n].sock = d => s.far = "open",
           RestTyped'
    PROVE  TypeOK'
  <1>1. conn' \in [Conns -> Conn] /\ conn'[d] = s /\ \A c \in Conns \ {d} : conn'[c] = conn[c]
    BY DEF TypeOK
  <1>2. hub'.sock # None => conn'[hub'.sock].near \in {"live", "closing"}
    BY <1>1 DEF TypeOK
  <1>3. ASSUME NEW n \in Nodes, node'[n].sock # None
        PROVE  conn'[node'[n].sock].node = n /\ conn'[node'[n].sock].far = "open"
    <2>1. node'[n].sock = node[n].sock /\ node[n].sock \in Conns
      BY <1>3 DEF TypeOK
    <2> QED BY <1>1, <1>3, <2>1 DEF TypeOK
  <1> QED BY <1>1, <1>2, <1>3 DEF TypeOK, RestTyped

\* The other connections, when one changes, are as they were.
LEMMA OneConn ==
    ASSUME TypeOK, NEW d \in Conns, NEW s, conn' = [conn EXCEPT ![d] = s],
           Onward(conn[d], s), Shrinks(conn[d].down, s.down), Shrinks(conn[d].up, s.up)
    PROVE  ConnsKept /\ QueuesShrink
  <1>1. conn'[d] = s /\ \A c \in Conns \ {d} : conn'[c] = conn[c] /\ conn[c] \in Conn
    BY DEF TypeOK
  <1>2. \A c \in Conns : Onward(conn[c], conn'[c])
    BY <1>1 DEF Onward
  <1>3. \A c \in Conns : Shrinks(conn[c].down, conn'[c].down) /\ Shrinks(conn[c].up, conn'[c].up)
    BY <1>1, ShrinkFacts
  <1> QED BY <1>2, <1>3 DEF ConnsKept, QueuesShrink

----------------------------------------------------------------------------
(* The quiet steps.                                                        *)

LEMMA BreakStep == ASSUME IInv, NEW c \in Conns, Break(c) PROVE IInv'
  <1>1. TypeOK /\ MadeKnown /\ QueuesKnown /\ conn[c] \in Conn
    BY SockFacts DEF IInv
  <1>2. PICK i \in 0..Len(conn[c].up), j \in 0..Len(conn[c].down) :
            conn' = [conn EXCEPT ![c].cut = TRUE,
                                 ![c].up = SubSeq(@, 1, i), ![c].down = SubSeq(@, 1, j)]
    BY DEF Break
  <1> DEFINE u == SubSeq(conn[c].up, 1, i)
             d == SubSeq(conn[c].down, 1, j)
             s == [conn[c] EXCEPT !.cut = TRUE, !.up = u, !.down = d]
  <1>3. u \in Seq(Up) /\ d \in Seq(Down) /\ Shrinks(conn[c].up, u) /\ Shrinks(conn[c].down, d)
    BY <1>1, FrontFacts DEF Conn, Shrinks
  <1>4. conn' = [conn EXCEPT ![c] = s]
    BY <1>1, <1>2 DEF TypeOK, Conn
  <1>5. /\ s \in Conn /\ s.node = conn[c].node /\ s.far = conn[c].far /\ s.near = conn[c].near
        /\ s.up = u /\ s.down = d
    <2> HIDE DEF u, d
    <2> QED BY <1>1, <1>3 DEF Conn
  <1> HIDE DEF s
  <1>6. ConnsKept /\ QueuesShrink
    <2>1. Onward(conn[c], s)
      BY <1>5 DEF Onward, Break
    <2> QED BY <1>1, <1>3, <1>4, <1>5, <2>1, OneConn
  <1>7. TypeOK'
    <2>1. \A n \in Nodes : node[n].sock = c => conn[c].far = "open"
      BY <1>1, NoneIsNothing DEF TypeOK
    <2>2. hub.sock = c => conn[c].near \in {"live", "closing"}
      BY <1>1, NoneIsNothing DEF TypeOK
    <2>3. RestTyped' /\ hub' = hub /\ node' = node
      BY <1>1, BoundsAreNatural DEF Break, Trouble, TypeOK, RestTyped, history
    <2> QED BY <1>1, <1>4, <1>5, <2>1, <2>2, <2>3, TypeStays
  <1>8. CallsKept /\ Quiet
    BY <1>6 DEF Break, history, CallsKept, Quiet, Taking, Pending
  <1>9. QueuesKnown'
    BY <1>1, <1>6, <1>8, QueuesStay DEF Break
  <1> QED BY <1>7, <1>8, <1>9, QuietStep DEF Break, history


\* What is shared by the steps with which a node loses its socket.
LEMMA NodeLoses ==
    ASSUME IInv, NEW n \in Nodes, node[n].sock # None, NEW s \in Conn,
           conn' = [conn EXCEPT ![node[n].sock] = s],
           s.node = n, s.far # "none", s.near = conn[node[n].sock].near,
           Shrinks(conn[node[n].sock].down, s.down), Shrinks(conn[node[n].sock].up, s.up),
           node' = [node EXCEPT ![n].sock = None],
           work' \in [Calls -> {"none", "begun", "did", "threw", "over"}],
           \A x \in Calls : work'[x] = work[x] \/ (work[x] \notin {"none", "over"} /\ work'[x] = "over"),
           troubles' \in 0..MaxTroubles, UNCHANGED <<hub, call, history>>
    PROVE  IInv'
  <1> DEFINE c == node[n].sock
  <1>1. /\ TypeOK /\ MadeKnown /\ QueuesKnown /\ c \in Conns /\ conn[c] \in Conn
        /\ conn[c].node = n /\ conn[c].far = "open"
    BY SockFacts DEF IInv
  <1>2. ConnsKept /\ QueuesShrink
    <2>1. Onward(conn[c], s)
      BY <1>1 DEF Onward
    <2> HIDE DEF c
    <2> QED BY <1>1, <2>1, OneConn DEF c
  <1>3. TypeOK'
    <2>1. RestTyped'
      BY <1>1 DEF TypeOK, RestTyped, history
    <2>2. \A m \in Nodes : node'[m].sock \in {node[m].sock, None}
      BY <1>1 DEF TypeOK
    <2>3. \A m \in Nodes : node'[m].sock # c
      <3> SUFFICES ASSUME NEW m \in Nodes, node'[m].sock = c PROVE FALSE
        OBVIOUS
      <3>1. CASE m = n
        BY <3>1, <1>1, NoneIsNothing DEF TypeOK
      <3>2. CASE m # n
        <4>1. node[m].sock = c
          BY <3>2, <1>1 DEF TypeOK
        <4> QED BY <3>2, <4>1, <1>1, NoneIsNothing DEF TypeOK
      <3> QED BY <3>1, <3>2
    <2>4. hub' = hub /\ (hub.sock = c => s.near \in {"live", "closing"})
      BY <1>1, NoneIsNothing DEF TypeOK
    <2>5. conn' = [conn EXCEPT ![c] = s] /\ s.node = conn[c].node
      BY <1>1
    <2> HIDE DEF c
    <2>6. TypeOK /\ c \in Conns
      BY <1>1
    <2>7. \A m \in Nodes : node'[m].sock = c => s.far = "open"
      BY <2>3
    <2>8. hub' = hub /\ (hub.sock = c => s.near \in {"live", "closing"})
      BY <2>4
    <2> QED BY <2>1, <2>2, <2>5, <2>6, <2>7, <2>8, TypeStays
  <1>4. \A m \in Nodes : node'[m].run = node[m].run
    BY <1>1 DEF TypeOK
  <1>5. CallsKept /\ Quiet
    BY <1>2, <1>4 DEF history, CallsKept, Quiet, Taking, Pending
  <1>6. QueuesKnown'
    BY <1>1, <1>2, <1>5, QueuesStay
  <1> QED BY <1>3, <1>5, <1>6, QuietStep DEF history

LEMMA CrashStep == ASSUME IInv, NEW n \in Nodes, Crash(n) PROVE IInv'
  <1> DEFINE c == node[n].sock
             s == [conn[c] EXCEPT !.cut = TRUE, !.far = "closed", !.down = <<>>]
  <1>1. /\ TypeOK /\ c # None /\ c \in Conns /\ conn[c] \in Conn /\ conn[c].node = n
        /\ conn[c].far = "open"
    BY SockFacts DEF IInv, Crash
  <1>2. conn' = [conn EXCEPT ![c] = s]
    BY <1>1 DEF Crash, TypeOK, Conn
  <1>3. /\ s \in Conn /\ s.node = n /\ s.far = "closed" /\ s.near = conn[c].near
        /\ s.up = conn[c].up /\ s.down = <<>>
    <2>1. <<>> \in Seq(Down) /\ TRUE \in BOOLEAN /\ "closed" \in {"none", "open", "closed"}
      OBVIOUS
    <2> DEFINE k == conn[c]
    <2>2. k \in Conn /\ k.node = n
      BY <1>1
    <2> HIDE DEF c, k
    <2>3. /\ [k EXCEPT !.cut = TRUE, !.far = "closed", !.down = <<>>] \in Conn
          /\ [k EXCEPT !.cut = TRUE, !.far = "closed", !.down = <<>>].node = n
          /\ [k EXCEPT !.cut = TRUE, !.far = "closed", !.down = <<>>].far = "closed"
          /\ [k EXCEPT !.cut = TRUE, !.far = "closed", !.down = <<>>].near = k.near
          /\ [k EXCEPT !.cut = TRUE, !.far = "closed", !.down = <<>>].up = k.up
          /\ [k EXCEPT !.cut = TRUE, !.far = "closed", !.down = <<>>].down = <<>>
      BY <2>1, <2>2 DEF Conn
    <2> QED BY <2>3 DEF k
  <1>4. Shrinks(conn[c].down, s.down) /\ Shrinks(conn[c].up, s.up)
    BY <1>3, ShrinkFacts
  <1>5. /\ work' \in [Calls -> {"none", "begun", "did", "threw", "over"}]
        /\ \A x \in Calls : work'[x] = work[x] \/ (work[x] \notin {"none", "over"} /\ work'[x] = "over")
    <2>1. /\ work \in [Calls -> {"none", "begun", "did", "threw", "over"}]
          /\ work' = [x \in Calls |->
                         IF work[x] \in {"begun", "did", "threw"} /\ By(x) = n THEN "over" ELSE work[x]]
      BY <1>1 DEF Crash, TypeOK
    <2> QED BY <2>1
  <1>6. /\ troubles' \in 0..MaxTroubles /\ UNCHANGED <<hub, call, history>>
        /\ node' = [node EXCEPT ![n].sock = None]
    BY <1>1, BoundsAreNatural DEF Crash, Trouble, TypeOK
  <1> HIDE DEF s
  <1> QED BY <1>1, <1>2, <1>3, <1>4, <1>5, <1>6, NodeLoses

LEMMA NodeSeesEndStep == ASSUME IInv, NEW n \in Nodes, NodeSeesEnd(n) PROVE IInv'
  <1> DEFINE c == node[n].sock
             t == Replied(conn[c], Plain("bye"))
             s == [t EXCEPT !.far = "closed", !.down = <<>>]
  <1>1. /\ TypeOK /\ c # None /\ c \in Conns /\ conn[c] \in Conn /\ conn[c].node = n
        /\ conn[c].far = "open"
    BY SockFacts DEF IInv, NodeSeesEnd
  <1>2. conn' = [conn EXCEPT ![c] = s]
    BY <1>1 DEF NodeSeesEnd, TypeOK
  <1>3. /\ t \in Conn /\ t.node = n /\ t.near = conn[c].near
        /\ t.up = Puts(conn[c].up, conn[c].cut, Plain("bye"))
    BY <1>1, RepliedFacts, MessageFacts
  <1>4. /\ s \in Conn /\ s.node = n /\ s.far = "closed" /\ s.near = conn[c].near
        /\ s.up = t.up /\ s.down = <<>>
    <2>1. <<>> \in Seq(Down) /\ "closed" \in {"none", "open", "closed"}
      OBVIOUS
    <2> HIDE DEF c, t
    <2> QED BY <1>3, <2>1 DEF Conn
  <1>5. Shrinks(conn[c].down, s.down) /\ Shrinks(conn[c].up, s.up)
    <2>1. Shrinks(conn[c].up, t.up)
      BY <1>1, <1>3, PutFacts, MessageFacts DEF Conn
    <2> QED BY <1>4, <2>1, ShrinkFacts
  <1>6. /\ work' \in [Calls -> {"none", "begun", "did", "threw", "over"}]
        /\ work' = work
        /\ troubles' \in 0..MaxTroubles /\ UNCHANGED <<hub, call, history>>
        /\ node' = [node EXCEPT ![n].sock = None]
    BY <1>1 DEF NodeSeesEnd, TypeOK
  <1> HIDE DEF s, t
  <1>7. s \in Conn /\ s.node = n /\ s.far # "none" /\ s.near = conn[c].near
    BY <1>4
  <1> QED BY <1>1, <1>2, <1>5, <1>6, <1>7, NodeLoses


LEMMA ConnectStep == ASSUME IInv, NEW n \in Nodes, Connect(n) PROVE IInv'
  <1>1. PICK c \in Conns :
            /\ conn[c].far = "none"
            /\ conn' = [conn EXCEPT ![c] = [Unmade EXCEPT !.node = n, !.far = "open", !.near = "hello",
                                                          !.up = <<Plain("hello")>>]]
            /\ node' = [node EXCEPT ![n].sock = c]
    BY DEF Connect
  <1> DEFINE u == <<Plain("hello")>>
             s == [Unmade EXCEPT !.node = n, !.far = "open", !.near = "hello", !.up = u]
  <1>2. TypeOK /\ MadeKnown /\ QueuesKnown /\ conn[c] = Unmade /\ conn' = [conn EXCEPT ![c] = s]
    BY <1>1 DEF IInv, MadeKnown
  <1>3. u \in Seq(Up) /\ Shrinks(<<>>, u)
    <2>1. u = Append(<<>>, Plain("hello")) /\ <<>> \in Seq(Up) /\ Plain("hello") \in Up
      BY MessageFacts
    <2>2. Shrinks(<<>>, Append(<<>>, Plain("hello")))
      BY <2>1, AppendFacts, ShrinkFacts DEF Shrinks
    <2> QED BY <2>1, <2>2
  <1>4. /\ s \in Conn /\ s.node = n /\ s.far = "open" /\ s.near = "hello" /\ s.down = <<>> /\ s.up = u
    <2>1. <<>> \in Seq(Down)
      OBVIOUS
    <2> HIDE DEF u
    <2> QED BY <1>3, <2>1 DEF Unmade, Conn
  <1> HIDE DEF s, u
  <1>5. ConnsKept /\ QueuesShrink
    <2>1. Onward(conn[c], s)
      BY <1>1, <1>4 DEF Onward
    <2>2. Shrinks(conn[c].down, s.down) /\ Shrinks(conn[c].up, s.up)
      BY <1>2, <1>3, <1>4, ShrinkFacts DEF Unmade
    <2> QED BY <1>2, <2>1, <2>2, OneConn
  <1>6. node'[n].sock = c /\ \A m \in Nodes \ {n} : node'[m] = node[m]
    BY <1>1, <1>2 DEF TypeOK
  <1>7. TypeOK'
    <2>1. RestTyped'
      <3>1. UNCHANGED <<hub, call, work, troubles, history>>
        BY DEF Connect
      <3>2. node' \in [Nodes -> [sock : Conns \cup {None}, run : {"agent", "human", "paused"}]]
        BY <1>1, <1>2 DEF TypeOK
      <3> QED BY <1>2, <3>1, <3>2 DEF TypeOK, RestTyped, history
    <2>2. conn' \in [Conns -> Conn] /\ conn'[c] = s /\ \A d \in Conns \ {c} : conn'[d] = conn[d]
      BY <1>2, <1>4 DEF TypeOK
    <2>3. hub' = hub /\ (hub.sock # None => conn'[hub.sock].near \in {"live", "closing"})
      BY <1>1, <1>2, <2>2 DEF TypeOK, Connect, Unmade
    <2>4. ASSUME NEW m \in Nodes, node'[m].sock # None
          PROVE  conn'[node'[m].sock].node = m /\ conn'[node'[m].sock].far = "open"
      <3>1. CASE m = n
        BY <1>4, <1>6, <2>2, <3>1
      <3>2. CASE m # n
        <4>1. /\ node'[m] = node[m] /\ node[m].sock \in Conns
              /\ conn[node[m].sock].node = m /\ conn[node[m].sock].far = "open"
          BY <1>2, <1>6, <2>4, <3>2 DEF TypeOK
        <4> QED BY <1>1, <2>2, <4>1
      <3> QED BY <3>1, <3>2
    <2> QED BY <1>2, <2>1, <2>2, <2>3, <2>4 DEF TypeOK, RestTyped
  <1>8. \A m \in Nodes : node'[m].run = node[m].run
    BY <1>1, <1>2 DEF TypeOK
  <1>9. CallsKept /\ Quiet
    BY <1>5, <1>8 DEF Connect, history, CallsKept, Quiet, Taking, Pending
  <1>10. QueuesKnown'
    BY <1>2, <1>5, <1>9, QueuesStay DEF Connect
  <1> QED BY <1>7, <1>9, <1>10, QuietStep DEF Connect, history

LEMMA NodeHearsStep == ASSUME IInv, NEW n \in Nodes, NodeHears(n) PROVE IInv'
  <1> DEFINE c == node[n].sock
             m == Head(conn[c].down)
             y == m.call
             t == Tail(conn[c].down)
             s == [conn[c] EXCEPT !.down = t]
  <1>1. /\ TypeOK /\ QueuesKnown /\ c # None /\ c \in Conns /\ conn[c] \in Conn /\ conn[c].node = n
        /\ conn[c].far = "open"
    BY SockFacts DEF IInv, NodeHears
  <1>2. /\ conn[c].down \in Seq(Down) /\ conn[c].down # <<>> /\ m.kind = "rpc"
        /\ m \in Down /\ y \in Calls /\ m = For("rpc", y)
    <2>1. conn[c].down \in Seq(Down) /\ conn[c].down # <<>> /\ m.kind = "rpc"
      BY <1>1 DEF NodeHears, Conn
    <2> QED BY <2>1, MessageFacts, TailFacts
  <1>3. /\ t \in Seq(Down) /\ Shrinks(conn[c].down, t) /\ InQueue(m, conn[c].down)
        /\ Once(m, conn[c].down) => ~InQueue(m, t)
    BY <1>2, TailFacts DEF Shrinks
  <1>4. /\ s \in Conn /\ s.node = n /\ s.far = "open" /\ s.near = conn[c].near
        /\ s.up = conn[c].up /\ s.down = t
    <2> HIDE DEF c, t
    <2> QED BY <1>1, <1>3 DEF Conn
  <1>5. /\ conn' = [conn EXCEPT ![c] = s] /\ work' = [work EXCEPT ![y] = "begun"]
        /\ UNCHANGED <<hub, call, node, troubles, history>>
    BY <1>1 DEF NodeHears, TypeOK
  <1>6. call[y].on = c /\ work[y] = "none" /\ Once(m, conn[c].down)
    BY <1>1, <1>2, <1>3 DEF QueuesKnown
  <1>7. ConnsKept /\ QueuesShrink
    <2>1. Onward(conn[c], s) /\ Shrinks(conn[c].down, s.down) /\ Shrinks(conn[c].up, s.up)
      BY <1>1, <1>3, <1>4, ShrinkFacts DEF Onward
    <2> HIDE DEF c, s
    <2> QED BY <1>1, <1>4, <1>5, <2>1, OneConn
  <1>8. TypeOK'
    <2>1. RestTyped'
      BY <1>1, <1>2, <1>5 DEF TypeOK, RestTyped, history
    <2>2. hub.sock = c => s.near \in {"live", "closing"}
      BY <1>1, <1>4, NoneIsNothing DEF TypeOK
    <2> HIDE DEF c, s
    <2> QED BY <1>1, <1>4, <1>5, <2>1, <2>2, TypeStays
  <1>9. work'[y] = "begun" /\ \A x \in Calls \ {y} : work'[x] = work[x]
    BY <1>1, <1>2, <1>5 DEF TypeOK
  <1>10. CallsKept /\ Quiet
    <2>1. \E d \in Conns : InQueue(For("rpc", y), conn[d].down)
      BY <1>1, <1>2, <1>3
    <2> HIDE DEF c, y
    <2> QED BY <1>5, <1>6, <1>7, <1>9, <2>1 DEF history, CallsKept, Quiet, Taking, Pending
  <1>11. QueuesKnown'
    <2> SUFFICES ASSUME NEW d \in Conns, NEW x \in Calls
                 PROVE  /\ InQueue(For("rpc", x), conn'[d].down) =>
                               call'[x].on = d /\ work'[x] = "none" /\ call'[x].st # "idle"
                        /\ Once(For("rpc", x), conn'[d].down)
                        /\ \A kind \in {"ok", "error"} :
                               InQueue(For(kind, x), conn'[d].up) => work'[x] = "over"
      BY DEF QueuesKnown
    <2>1. /\ InQueue(For("rpc", x), conn'[d].down) => InQueue(For("rpc", x), conn[d].down)
          /\ Once(For("rpc", x), conn[d].down) => Once(For("rpc", x), conn'[d].down)
          /\ \A kind \in {"ok", "error"} :
                 InQueue(For(kind, x), conn'[d].up) => InQueue(For(kind, x), conn[d].up)
      BY <1>7 DEF QueuesShrink, Shrinks
    <2>2. conn'[c].down = t
      BY <1>1, <1>4, <1>5 DEF TypeOK
    <2>3. CASE x = y
      <3>1. ~InQueue(For("rpc", y), conn'[d].down)
        <4>1. InQueue(For("rpc", y), conn'[d].down) => d = c
          BY <1>1, <1>2, <1>6, <2>1, <2>3 DEF QueuesKnown
        <4>2. ~InQueue(For("rpc", y), t)
          BY <1>2, <1>3, <1>6
        <4> HIDE DEF c, t, y
        <4> QED BY <2>2, <4>1, <4>2
      <3> QED BY <1>1, <1>6, <2>1, <2>3, <3>1 DEF QueuesKnown
    <2>4. CASE x # y
      BY <1>1, <1>5, <1>9, <2>1, <2>4 DEF QueuesKnown
    <2> QED BY <2>3, <2>4
  <1> QED BY <1>5, <1>8, <1>10, <1>11, QuietStep DEF history


\* What all calls are when those that wait are rejected.
LEMMA RejectFacts ==
    ASSUME TypeOK, RejectAll
    PROVE  /\ CallsKept
           /\ \A x \in Calls : call'[x].st # "pending"
           /\ call' \in [Calls -> [st : {"idle", "pending", "ok", "failed"},
                                   method : Methods \cup {None}, on : Conns \cup {None}]]
  <1> DEFINE C == [st : {"idle", "pending", "ok", "failed"},
                   method : Methods \cup {None}, on : Conns \cup {None}]
  <1>1. call \in [Calls -> C]
    BY DEF TypeOK
  <1>2. \A x \in Calls : call'[x] = IF call[x].st = "pending"
                                    THEN [call[x] EXCEPT !.st = "failed"] ELSE call[x]
    BY DEF RejectAll, Pending
  <1>3. ASSUME NEW x \in Calls
        PROVE  /\ call'[x] \in C
               /\ call'[x].on = call[x].on /\ call'[x].method = call[x].method
               /\ call'[x].st = "idle" <=> call[x].st = "idle"
               /\ call'[x].st # "pending"
    BY <1>1, <1>2
  <1>4. call' \in [Calls -> C]
    <2>1. call' = [x \in Calls |-> call'[x]]
      BY DEF RejectAll
    <2> HIDE DEF C
    <2> QED BY <1>3, <2>1
  <1> QED BY <1>3, <1>4 DEF CallsKept

\* The hub loses or replaces its connection: who waits for an answer gets
\* none, and but for the history's causes no browser is a person's.
LEMMA HubTurns ==
    ASSUME IInv, TypeOK', RejectAll, ConnsKept, QueuesShrink,
           hub'.takeover \in {hub.takeover, FALSE},
           hub'.sock = None => ~hub'.takeover, shut => hub'.sock = None,
           astray' = (astray \/ hub.takeover \/ Unsure(Pending)),
           UNCHANGED <<work, node, shut>>
    PROVE  IInv'
  <1>1. CallsKept /\ \A x \in Calls : call'[x].st # "pending"
    BY RejectFacts DEF IInv
  <1>2. MadeKnown'
    BY <1>1, MadeStays DEF IInv
  <1>3. QueuesKnown'
    BY <1>1, QueuesStay DEF IInv
  <1>4. PendingReachable' /\ (hub'.takeover => hub'.sock # None \/ shut')
    BY <1>1 DEF PendingReachable, Pending
  <1>5. ASSUME ~astray', ~shut'
        PROVE  /\ \A n \in Nodes : node[n].run # "human"
               /\ ~hub'.takeover
               /\ \A x \in Calls :
                      call[x].method \in Takes =>
                          /\ work[x] \notin {"begun", "did", "threw"}
                          /\ ~ \E c \in Conns : InQueue(For("rpc", x), conn[c].down)
    <2>1. ~astray /\ ~shut /\ ~hub.takeover /\ \A x \in Calls : ~Taking(x)
      BY <1>5 DEF Unsure, Taking, Pending
    <2>2. /\ \A x \in Calls :
                 call[x].method \in Takes
                 /\ (\/ work[x] \in {"begun", "did", "threw"}
                     \/ \E c \in Conns : InQueue(For("rpc", x), conn[c].down))
                 => x \in Pending
          /\ \A n \in Nodes : hub.sock = None \/ n # Holder => node[n].run # "human"
          /\ hub.sock # None => Agree(FALSE, node[Holder].run)
      <3>1. hub.sock # None => Agree(hub.takeover, node[Holder].run)
        BY <2>1 DEF IInv, TakesKnown
      <3> QED BY <2>1, <3>1 DEF IInv, TakesKnown, Agree
    <2> QED BY <2>1, <2>2 DEF Agree, Taking
  <1>6. ASSUME ~astray', ~shut', hub'.sock # None PROVE Agree(FALSE, node'[Holder'].run)
    <2>1. Holder' \in Nodes
      <3>1. hub'.sock \in Conns /\ conn'[hub'.sock].near \in {"live", "closing"}
        BY <1>6 DEF TypeOK
      <3>2. conn'[hub'.sock].far # "none"
        BY <1>2, <3>1 DEF MadeKnown, Unmade
      <3> QED BY <1>2, <3>1, <3>2 DEF Holder, MadeKnown
    <2> QED BY <1>5, <1>6, <2>1 DEF Agree
  <1>7. TakesKnown'
    <2>1. \A x \in Calls : ~Taking(x)'
      BY <1>1 DEF Taking, Pending
    <2>2. ASSUME ~astray', ~shut'
          PROVE  /\ \A n \in Nodes : hub'.sock = None \/ n # Holder' => node'[n].run # "human"
                 /\ hub'.sock = None => ~hub'.takeover
                 /\ hub'.sock # None => Agree(hub'.takeover, node'[Holder'].run)
                 /\ \A x \in Calls :
                        call'[x].method \in Takes
                        /\ (\/ work'[x] \in {"begun", "did", "threw"}
                            \/ \E c \in Conns : InQueue(For("rpc", x), conn'[c].down))
                        => x \in Pending'
      <3>1. \A x \in Calls, c \in Conns :
                InQueue(For("rpc", x), conn'[c].down) => InQueue(For("rpc", x), conn[c].down)
        BY DEF QueuesShrink, Shrinks
      <3>2. hub'.takeover = FALSE
        BY <1>5, <2>2 DEF IInv, TypeOK
      <3> QED BY <1>1, <1>5, <1>6, <2>2, <3>1, <3>2 DEF CallsKept
    <2> QED BY <2>1, <2>2 DEF TakesKnown
  <1> QED BY <1>2, <1>3, <1>4, <1>7 DEF IInv

LEMMA AttachStep == ASSUME IInv, NEW c \in Conns, Attach(c) PROVE IInv'
  <1> DEFINE o == hub.sock
             u == Tail(conn[c].up)
             s == [conn[c] EXCEPT !.near = "live", !.up = u]
             b == Sent(conn[o], Plain("bye"))
             t == [b EXCEPT !.near = "closing"]
  <1>1. /\ TypeOK /\ MadeKnown /\ conn[c] \in Conn /\ conn[c].far # "none"
        /\ conn[c].near = "hello" /\ conn[c].up # <<>>
        /\ o # None => o \in Conns /\ o # c /\ conn[o] \in Conn /\ conn[o].far # "none"
    BY SockFacts DEF IInv, Attach, Hello
  <1>2. /\ conn' = [d \in Conns |-> IF d = c THEN s ELSE IF d = o THEN t ELSE conn[d]]
        /\ hub' = [hub EXCEPT !.sock = c] /\ RejectAll
        /\ astray' = (astray \/ hub.takeover \/ Unsure(Pending))
        /\ UNCHANGED <<work, node, troubles, shut>>
    BY DEF Attach
  <1>3. /\ s \in Conn /\ s.node = conn[c].node /\ s.far = conn[c].far /\ s.near = "live"
        /\ s.down = conn[c].down /\ s.up = u /\ Shrinks(conn[c].up, u)
    <2>1. u \in Seq(Up) /\ Shrinks(conn[c].up, u)
      BY <1>1, TailFacts DEF Conn, Shrinks
    <2> HIDE DEF u
    <2> QED BY <1>1, <2>1 DEF Conn
  <1>4. ASSUME o # None
        PROVE  /\ t \in Conn /\ t.node = conn[o].node /\ t.far = conn[o].far
               /\ t.up = conn[o].up /\ Shrinks(conn[o].down, t.down)
    <2>1. /\ b \in Conn /\ b.node = conn[o].node /\ b.far = conn[o].far /\ b.up = conn[o].up
          /\ b.down = Puts(conn[o].down, conn[o].cut, Plain("bye"))
      BY <1>1, <1>4, SentFacts, MessageFacts
    <2>2. Shrinks(conn[o].down, b.down)
      BY <1>1, <1>4, <2>1, PutFacts, MessageFacts DEF Conn
    <2>3. /\ t \in Conn /\ t.node = b.node /\ t.far = b.far /\ t.up = b.up /\ t.down = b.down
      <3> HIDE DEF b
      <3> QED BY <2>1 DEF Conn
    <2> HIDE DEF b, t
    <2> QED BY <2>1, <2>2, <2>3
  <1> HIDE DEF s, t, b
  <1>5. ASSUME NEW d \in Conns
        PROVE  /\ conn'[d] \in Conn /\ Onward(conn[d], conn'[d])
               /\ conn'[d].node = conn[d].node /\ conn'[d].far = conn[d].far
               /\ Shrinks(conn[d].down, conn'[d].down) /\ Shrinks(conn[d].up, conn'[d].up)
    <2>1. conn[d] \in Conn
      BY <1>1 DEF TypeOK
    <2>2. CASE d = c
      BY <1>1, <1>2, <1>3, <2>2, ShrinkFacts DEF Onward
    <2>3. CASE d # c /\ d = o
      BY <1>1, <1>2, <1>4, <2>3, NoneIsNothing, ShrinkFacts DEF Onward
    <2>4. CASE d # c /\ d # o
      BY <1>2, <2>1, <2>4, ShrinkFacts DEF Onward
    <2> QED BY <2>2, <2>3, <2>4
  <1>6. ConnsKept /\ QueuesShrink
    BY <1>5 DEF ConnsKept, QueuesShrink
  <1>7. hub'.sock = c /\ hub'.takeover = hub.takeover /\ hub' \in [sock : Conns \cup {None}, takeover : BOOLEAN]
    BY <1>1, <1>2 DEF TypeOK
  <1>8. TypeOK'
    <2>1. conn' \in [Conns -> Conn] /\ conn'[c].near = "live"
      BY <1>2, <1>3, <1>5
    <2>2. \A n \in Nodes : node'[n].sock # None =>
              conn'[node'[n].sock].node = n /\ conn'[node'[n].sock].far = "open"
      BY <1>1, <1>2, <1>5, SockFacts
    <2>3. RestTyped'
      BY <1>1, <1>2, RejectFacts DEF TypeOK, RestTyped, Unsure
    <2> QED BY <1>7, <2>1, <2>2, <2>3 DEF TypeOK, RestTyped
  <1>9. ~shut /\ c # None
    BY NoneIsNothing DEF Attach
  <1> QED BY <1>2, <1>6, <1>7, <1>8, <1>9, HubTurns


LEMMA HubSeesEndStep == ASSUME IInv, NEW c \in Conns, HubSeesEnd(c) PROVE IInv'
  <1> DEFINE s == [conn[c] EXCEPT !.near = "closed", !.up = <<>>]
  <1>1. TypeOK /\ QueuesKnown /\ conn[c] \in Conn /\ conn[c].far # "none" /\ Closed(c)
    BY SockFacts DEF IInv, HubSeesEnd
  <1>2. conn' = [conn EXCEPT ![c] = s] /\ UNCHANGED <<work, node, troubles, shut>>
    BY <1>1 DEF HubSeesEnd, Closed, TypeOK
  <1>3. /\ s \in Conn /\ s.node = conn[c].node /\ s.far = conn[c].far /\ s.near = "closed"
        /\ s.down = conn[c].down /\ s.up = <<>>
    <2>1. <<>> \in Seq(Up)
      OBVIOUS
    <2> QED BY <1>1, <2>1 DEF Conn
  <1> HIDE DEF s
  <1>4. ConnsKept /\ QueuesShrink
    <2>1. Onward(conn[c], s) /\ Shrinks(conn[c].down, s.down) /\ Shrinks(conn[c].up, s.up)
      BY <1>1, <1>3, ShrinkFacts DEF Onward
    <2> QED BY <1>1, <1>2, <1>3, <2>1, OneConn
  <1>5. \A n \in Nodes : node[n].sock = c => s.far = "open"
    BY <1>1, <1>3, NoneIsNothing DEF TypeOK
  <1>6. CASE hub.sock = c
    <2>1. /\ hub' = [sock |-> None, takeover |-> FALSE] /\ RejectAll
          /\ astray' = (astray \/ hub.takeover \/ Unsure(Pending))
      BY <1>1, <1>6 DEF Closed
    <2>2. TypeOK'
      <3>1. RestTyped'
        BY <1>1, <1>2, <2>1, RejectFacts DEF TypeOK, RestTyped, Unsure
      <3>2. conn' \in [Conns -> Conn] /\ conn'[c] = s /\ \A d \in Conns \ {c} : conn'[d] = conn[d]
        BY <1>1, <1>2, <1>3 DEF TypeOK
      <3>3. ASSUME NEW n \in Nodes, node'[n].sock # None
            PROVE  conn'[node'[n].sock].node = n /\ conn'[node'[n].sock].far = "open"
        <4>1. node[n].sock \in Conns /\ conn[node[n].sock].node = n /\ conn[node[n].sock].far = "open"
          BY <1>1, <1>2, <3>3 DEF TypeOK
        <4> QED BY <1>2, <1>3, <3>2, <4>1
      <3> QED BY <2>1, <3>1, <3>2, <3>3 DEF TypeOK, RestTyped
    <2> QED BY <1>2, <1>4, <2>1, <2>2, HubTurns
  <1>7. CASE hub.sock # c
    <2>1. UNCHANGED <<hub, call, astray>>
      BY <1>1, <1>7 DEF Closed
    <2>2. RestTyped'
      BY <1>1, <1>2, <2>1 DEF TypeOK, RestTyped
    <2>3. TypeOK'
      BY <1>1, <1>2, <1>3, <1>5, <1>7, <2>1, <2>2, TypeStays
    <2>4. CallsKept /\ Quiet
      BY <1>2, <1>4, <2>1 DEF CallsKept, Quiet, Taking, Pending
    <2>5. QueuesKnown'
      BY <1>1, <1>2, <1>4, <2>4, QueuesStay
    <2> QED BY <1>2, <2>3, <2>4, <2>5, QuietStep
  <1> QED BY <1>6, <1>7

LEMMA DetachStep == ASSUME IInv, Detach PROVE IInv'
  <1> DEFINE o == hub.sock
             b == Sent(conn[o], Plain("bye"))
             t == [b EXCEPT !.near = "closing"]
  <1>1. /\ TypeOK /\ MadeKnown /\ QueuesKnown /\ shut' = TRUE /\ UNCHANGED <<call, work, node, astray>>
        /\ troubles' \in 0..MaxTroubles
    BY BoundsAreNatural DEF IInv, Detach, Trouble, TypeOK
  <1>2. RestTyped' /\ CallsKept
    BY <1>1 DEF TypeOK, RestTyped, CallsKept
  <1>3. TypeOK' /\ ConnsKept /\ QueuesShrink /\ hub'.sock = None
    <2>1. CASE o = None
      <3>1. UNCHANGED <<conn, hub>>
        BY <2>1 DEF Detach
      <3>2. TypeOK'
        BY <1>1, <1>2, <3>1 DEF TypeOK, RestTyped
      <3> QED BY <1>1, <2>1, <3>1, <3>2, ShrinkFacts DEF ConnsKept, QueuesShrink, Onward, TypeOK
    <2>2. CASE o # None
      <3>1. o \in Conns /\ conn[o] \in Conn /\ conn[o].far # "none"
        BY <1>1, <2>2, SockFacts
      <3>2. conn' = [conn EXCEPT ![o] = t] /\ hub' = [hub EXCEPT !.sock = None]
        BY <1>1, <2>2, <3>1 DEF Detach, TypeOK
      <3>3. /\ b \in Conn /\ b.node = conn[o].node /\ b.far = conn[o].far /\ b.up = conn[o].up
            /\ b.down = Puts(conn[o].down, conn[o].cut, Plain("bye"))
        BY <3>1, SentFacts, MessageFacts
      <3>4. Shrinks(conn[o].down, b.down)
        BY <3>1, <3>3, PutFacts, MessageFacts DEF Conn
      <3>5. t \in Conn /\ t.node = b.node /\ t.far = b.far /\ t.up = b.up /\ t.down = b.down
        <4> HIDE DEF b
        <4> QED BY <3>3 DEF Conn
      <3>6. Onward(conn[o], t) /\ Shrinks(conn[o].down, t.down) /\ Shrinks(conn[o].up, t.up)
        <4> HIDE DEF b, t
        <4> QED BY <3>1, <3>3, <3>4, <3>5, ShrinkFacts DEF Onward
      <3> HIDE DEF t, b
      <3>7. ConnsKept /\ QueuesShrink
        <4> HIDE DEF o
        <4> QED BY <1>1, <3>1, <3>2, <3>6, OneConn
      <3>8. conn' \in [Conns -> Conn] /\ conn'[o] = t /\ \A d \in Conns \ {o} : conn'[d] = conn[d]
        BY <1>1, <3>1, <3>2, <3>5 DEF TypeOK
      <3>9. ASSUME NEW n \in Nodes, node'[n].sock # None
            PROVE  conn'[node'[n].sock].node = n /\ conn'[node'[n].sock].far = "open"
        <4>1. node[n].sock \in Conns /\ conn[node[n].sock].node = n /\ conn[node[n].sock].far = "open"
          BY <1>1, <3>9 DEF TypeOK
        <4> QED BY <1>1, <3>3, <3>5, <3>8, <4>1
      <3>10. hub' \in [sock : Conns \cup {None}, takeover : BOOLEAN] /\ hub'.sock = None
        BY <1>1, <3>2 DEF TypeOK
      <3> QED BY <1>2, <3>7, <3>8, <3>9, <3>10 DEF TypeOK, RestTyped
    <2> QED BY <2>1, <2>2
  <1>4. MadeKnown'
    BY <1>1, <1>2, <1>3, MadeStays
  <1>5. QueuesKnown'
    BY <1>1, <1>2, <1>3, QueuesStay
  <1> QED BY <1>1, <1>3, <1>4, <1>5 DEF IInv, PendingReachable, TakesKnown


----------------------------------------------------------------------------
(* The steps that change whose the browser is, the flag, or who is asked.  *)

\* What TakesKnown says before a step after which there is nothing astray.
LEMMA BeforeFacts ==
    ASSUME IInv, ~astray, ~shut
    PROVE  /\ \A x, y \in Calls : Taking(x) /\ Taking(y) => x = y
           /\ \A x \in Calls :
                  call[x].method \in Takes
                  /\ (\/ work[x] \in {"begun", "did", "threw"}
                      \/ \E c \in Conns : InQueue(For("rpc", x), conn[c].down))
                  => x \in Pending
           /\ \A n \in Nodes : hub.sock = None \/ n # Holder => node[n].run # "human"
           /\ hub.sock = None => ~hub.takeover
           /\ hub.sock # None /\ (\A x \in Calls : ~Taking(x)) =>
                  Agree(hub.takeover, node[Holder].run)
           /\ \A x \in Calls : Taking(x) => TakingKnown(x)
           /\ \A x \in Pending : call[x].on = hub.sock /\ hub.sock # None /\ Holder \in Nodes
  <1>1. \A x \in Pending : call[x].on = hub.sock /\ hub.sock # None
    BY DEF IInv, PendingReachable, MadeKnown, Pending
  <1>2. hub.sock # None => Holder \in Nodes
    BY SockFacts DEF IInv, Holder
  <1> QED BY <1>1, <1>2 DEF IInv, TakesKnown

\* The connections, when none changes.
LEMMA SameConns == TypeOK /\ conn' = conn => ConnsKept /\ QueuesShrink
  BY ShrinkFacts DEF ConnsKept, QueuesShrink, Onward, TypeOK

LEMMA DoStep == ASSUME IInv, NEW x \in Calls, Do(x) PROVE IInv'
  <1>1. /\ TypeOK /\ MadeKnown /\ QueuesKnown /\ work[x] = "begun"
        /\ UNCHANGED <<conn, hub, call, troubles, shut>>
        /\ astray' \in BOOLEAN /\ (astray => astray')
    BY DEF IInv, Do, ThrowsDone, TypeOK
  <1>2. call[x].on \in Conns /\ call[x].method \in Methods /\ By(x) \in Nodes
    BY <1>1, SockFacts DEF MadeKnown, TypeOK, By
  <1>3. ConnsKept /\ QueuesShrink /\ CallsKept
    BY <1>1, SameConns DEF CallsKept
  <1>4. CASE (work' = [work EXCEPT ![x] = "threw"] \/ (work' = [work EXCEPT ![x] = "did"] /\ DoPort(x)))
             /\ node' = node
    <2>1. TypeOK'
      BY <1>1, <1>4 DEF TypeOK
    <2>2. /\ \A y \in Calls \ {x} : work'[y] = work[y]
          /\ work'[x] = "threw" \/ (work'[x] = "did" /\ call[x].method \notin Takes)
      BY <1>1, <1>4 DEF TypeOK, DoPort, Port, Takes
    <2>3. Quiet
      BY <1>1, <1>3, <1>4, <2>2 DEF Quiet, CallsKept, Taking, Pending
    <2>4. QueuesKnown'
      BY <1>1, <1>3, <2>2, QueuesStay
    <2> QED BY <1>1, <2>1, <2>3, <2>4, QuietStep
  <1>5. CASE DoSession(x) /\ \/ work' = [work EXCEPT ![x] = "did"]
                             \/ ThrowsDone(x)
    <2> DEFINE run == node'[By(x)].run
    <2>1. call[x].method \in Takes
      BY <1>2, <1>5 DEF DoSession, Methods
    <2>2. /\ work' \in [Calls -> {"none", "begun", "did", "threw", "over"}]
          /\ work'[x] \in {"did", "threw"} /\ \A y \in Calls \ {x} : work'[y] = work[y]
          /\ work'[x] = "threw" /\ ~astray' => call[x].method = "pauseRun"
      BY <1>1, <1>5, <2>1 DEF TypeOK, ThrowsDone, Takes
    <2>3. /\ node' \in [Nodes -> [sock : Conns \cup {None}, run : {"agent", "human", "paused"}]]
          /\ \A n \in Nodes : node'[n].sock = node[n].sock
          /\ \A n \in Nodes \ {By(x)} : node'[n].run = node[n].run
          /\ Agree(After(call[x].method, hub.takeover), run)
          /\ call[x].method = "pauseRun" => Agree(hub.takeover, run)
      <3> DEFINE new == CASE call[x].method = "takeover" -> "human"
                          [] call[x].method = "resume" -> "agent"
                          [] call[x].method = "pauseRun" -> "paused"
      <3>1. /\ new \in {"agent", "human", "paused"}
            /\ Agree(After(call[x].method, hub.takeover), new)
            /\ call[x].method = "pauseRun" => Agree(hub.takeover, new)
        BY <2>1 DEF Takes, Agree, After
      <3>2. node' = [node EXCEPT ![By(x)].run = new]
        BY <1>5 DEF DoSession
      <3> HIDE DEF new
      <3> QED BY <1>1, <1>2, <3>1, <3>2 DEF TypeOK
    <2>4. TypeOK'
      BY <1>1, <2>2, <2>3 DEF TypeOK
    <2>5. MadeKnown' /\ QueuesKnown'
      <3>1. \A y \in Calls : work'[y] # "none" => work[y] # "none" \/ call[y].on # None
        BY <1>1, <2>2
      <3>2. \A y \in Calls : work'[y] = work[y] \/ work[y] \notin {"none", "over"}
        BY <1>1, <2>2
      <3> QED BY <1>1, <1>3, <3>1, <3>2, MadeStays, QueuesStay
    <2>6. PendingReachable' /\ (hub'.takeover => hub'.sock # None \/ shut') /\ (shut' => hub'.sock = None)
      BY <1>1 DEF IInv, PendingReachable, Pending
    <2>7. ASSUME ~astray', ~shut
          PROVE  /\ Taking(x) /\ By(x) = Holder /\ \A y \in Calls : Taking(y) => y = x
                 /\ \A n \in Nodes : hub.sock = None \/ n # Holder => node'[n].run # "human"
                 /\ hub.sock = None => ~hub.takeover
                 /\ TakingKnown(x)'
      <3>0. ~astray
        BY <1>1, <2>7
      <3>1. Taking(x) /\ By(x) = Holder /\ \A y \in Calls : Taking(y) => y = x
        BY <3>0, <1>1, <2>1, <2>7, BeforeFacts DEF Taking, By, Holder
      <3>2. \A n \in Nodes : n # Holder => node'[n].run # "human"
        BY <2>3, <2>7, <3>0, <3>1, BeforeFacts
      <3>3. \A kind \in {"ok", "error"}, c \in Conns : ~InQueue(For(kind, x), conn'[c].up)
        BY <2>2, <2>5 DEF QueuesKnown
      <3>4. TakingKnown(x)'
        <4>1. Holder' = By(x) /\ hub' = hub /\ call'[x].method = call[x].method
          BY <1>1, <3>1 DEF Holder
        <4> QED BY <2>2, <2>3, <2>7, <3>3, <4>1 DEF TakingKnown
      <3> QED BY <2>7, <3>0, <3>1, <3>2, <3>4, BeforeFacts, <1>1, NoneIsNothing DEF Taking
    <2>8. TakesKnown'
      <3>1. \A y \in Calls : (Taking(y)' <=> Taking(y)) /\ (y \in Pending' <=> y \in Pending)
        BY <1>1 DEF Taking, Pending
      <3>2. hub' = hub /\ call' = call /\ Holder' = Holder
        BY <1>1 DEF Holder
      <3>3. ASSUME ~astray', ~shut, NEW y \in Calls, call[y].method \in Takes,
                   \/ work'[y] \in {"begun", "did", "threw"}
                   \/ \E c \in Conns : InQueue(For("rpc", y), conn'[c].down)
            PROVE  y \in Pending
        <4>1. CASE y = x
          BY <2>7, <3>3, <4>1 DEF Taking
        <4>2. CASE y # x
          BY <1>1, <2>2, <3>3, <4>2, BeforeFacts
        <4> QED BY <4>1, <4>2
      <3>4. ~astray' /\ ~shut' => ~astray /\ ~shut
        BY <1>1
      <3> QED BY <2>7, <3>1, <3>2, <3>3, <3>4 DEF TakesKnown
    <2> QED BY <2>4, <2>5, <2>6, <2>8 DEF IInv
  <1> QED BY <1>4, <1>5 DEF Do, DoPort, ThrowsDone


LEMMA ReportStep == ASSUME IInv, NEW x \in Calls, Report(x) PROVE IInv'
  <1> DEFINE c == node[By(x)].sock
             kind == IF work[x] = "did" THEN "ok" ELSE "error"
             s == Replied(conn[c], For(kind, x))
  <1>1. /\ TypeOK /\ MadeKnown /\ QueuesKnown /\ work[x] \in {"did", "threw"}
        /\ work' = [work EXCEPT ![x] = "over"]
        /\ UNCHANGED <<hub, call, node, troubles, history>>
        /\ c = None => UNCHANGED conn
        /\ c # None => conn' = [conn EXCEPT ![c] = s]
    BY DEF IInv, Report
  <1>2. By(x) \in Nodes /\ (c # None => c \in Conns /\ conn[c] \in Conn /\ conn[c].far = "open")
    <2>1. By(x) \in Nodes
      BY <1>1, SockFacts DEF MadeKnown, TypeOK, By
    <2> QED BY <1>1, <2>1, SockFacts
  <1>3. /\ work' \in [Calls -> {"none", "begun", "did", "threw", "over"}]
        /\ work'[x] = "over" /\ \A y \in Calls \ {x} : work'[y] = work[y]
    BY <1>1 DEF TypeOK
  <1>4. CallsKept /\ RestTyped'
    BY <1>1, <1>3 DEF CallsKept, TypeOK, RestTyped, history
  <1>5. CASE c = None
    <2>1. conn' = conn
      BY <1>1, <1>5
    <2>2. TypeOK'
      BY <1>1, <1>4, <2>1 DEF TypeOK, RestTyped
    <2>3. Quiet
      <3>1. ConnsKept /\ QueuesShrink
        BY <1>1, <2>1, SameConns
      <3> QED BY <1>1, <1>3, <1>4, <3>1 DEF Quiet, Taking, Pending, history
    <2>4. QueuesKnown'
      BY <1>1, <1>3, <1>4, <2>3, QueuesStay DEF Quiet
    <2> QED BY <1>1, <2>2, <2>3, <2>4, QuietStep DEF history
  <1>6. CASE c # None
    <2>1. /\ kind \in {"ok", "error"} /\ For(kind, x) \in Up
          /\ kind = "ok" <=> work[x] = "did"
          /\ kind = "error" <=> work[x] = "threw"
      BY <1>1, MessageFacts
    <2>2. /\ s \in Conn /\ s.node = conn[c].node /\ s.far = conn[c].far /\ s.near = conn[c].near
          /\ s.down = conn[c].down /\ s.up = Puts(conn[c].up, conn[c].cut, For(kind, x))
      BY <1>2, <1>6, <2>1, RepliedFacts
    <2>3. \A m : InQueue(m, s.up) => InQueue(m, conn[c].up) \/ m = For(kind, x)
      BY <1>2, <1>6, <2>1, <2>2, PutFacts DEF Conn
    <2> HIDE DEF s, kind
    <2>4. conn' \in [Conns -> Conn] /\ conn'[c] = s /\ \A d \in Conns \ {c} : conn'[d] = conn[d]
      BY <1>1, <1>2, <1>6, <2>2 DEF TypeOK
    <2>5. ASSUME NEW d \in Conns
          PROVE  /\ conn'[d].down = conn[d].down /\ Onward(conn[d], conn'[d])
                 /\ conn'[d].node = conn[d].node /\ conn'[d].far = conn[d].far
                 /\ conn'[d].near = conn[d].near
                 /\ \A m : InQueue(m, conn'[d].up) => InQueue(m, conn[d].up) \/ m = For(kind, x)
      <3>1. CASE d = c
        BY <1>2, <1>6, <2>2, <2>3, <2>4, <3>1 DEF Onward
      <3>2. CASE d # c
        BY <1>1, <2>4, <3>2 DEF Onward, TypeOK
      <3> QED BY <3>1, <3>2
    <2>6. TypeOK'
      <3>1. hub'.sock # None => conn'[hub'.sock].near \in {"live", "closing"}
        BY <1>1, <2>5 DEF TypeOK
      <3>2. \A n \in Nodes : node'[n].sock # None =>
                conn'[node'[n].sock].node = n /\ conn'[node'[n].sock].far = "open"
        BY <1>1, <2>5, SockFacts
      <3> QED BY <1>1, <1>4, <2>4, <3>1, <3>2 DEF TypeOK, RestTyped
    <2>7. MadeKnown'
      <3>1. ConnsKept
        BY <2>5 DEF ConnsKept
      <3>2. \A y \in Calls : work'[y] # "none" => work[y] # "none" \/ call[y].on # None
        BY <1>1, <1>3
      <3> QED BY <1>1, <1>4, <3>1, <3>2, MadeStays
    <2>8. \A y \in Calls, k \in {"ok", "error"} :
              For(k, y) = For(kind, x) => y = x /\ k = kind
      BY DEF For
    <2>9. QueuesKnown'
      <3> SUFFICES ASSUME NEW d \in Conns, NEW y \in Calls
                   PROVE  /\ InQueue(For("rpc", y), conn'[d].down) =>
                                 call'[y].on = d /\ work'[y] = "none" /\ call'[y].st # "idle"
                          /\ Once(For("rpc", y), conn'[d].down)
                          /\ \A k \in {"ok", "error"} :
                                 InQueue(For(k, y), conn'[d].up) => work'[y] = "over"
        BY DEF QueuesKnown
      <3>1. /\ InQueue(For("rpc", y), conn'[d].down) =>
                   call'[y].on = d /\ work'[y] = "none" /\ call'[y].st # "idle"
            /\ Once(For("rpc", y), conn'[d].down)
        BY <1>1, <1>3, <2>5 DEF QueuesKnown
      <3>2. \A k \in {"ok", "error"} : InQueue(For(k, y), conn'[d].up) => work'[y] = "over"
        BY <1>1, <1>3, <2>5, <2>8 DEF QueuesKnown
      <3> QED BY <3>1, <3>2
    <2>10. PendingReachable' /\ (hub'.takeover => hub'.sock # None \/ shut') /\ (shut' => hub'.sock = None)
      BY <1>1 DEF IInv, PendingReachable, Pending, history
    <2>11. ASSUME ~astray, ~shut, NEW y \in Calls, Taking(y) PROVE TakingKnown(y)'
      <3>1. TakingKnown(y) /\ Holder \in Nodes /\ hub.sock \in Conns
        BY <2>11, BeforeFacts DEF Taking, IInv, TypeOK
      <3>2. Holder' = Holder /\ hub' = hub /\ call' = call /\ node' = node
        BY <1>1, <2>5, <3>1 DEF Holder
      <3>3. CASE y = x
        <4>1. \A d \in Conns, k \in {"ok", "error"} : ~InQueue(For(k, x), conn[d].up)
          BY <1>1 DEF QueuesKnown
        <4>2. \A d \in Conns, k \in {"ok", "error"} : InQueue(For(k, x), conn'[d].up) => k = kind
          BY <2>5, <2>8, <4>1
        <4> QED BY <1>1, <1>3, <2>1, <3>1, <3>2, <3>3, <4>2 DEF TakingKnown
      <3>4. CASE y # x
        BY <1>3, <2>5, <2>8, <3>1, <3>2, <3>4 DEF TakingKnown
      <3> QED BY <3>3, <3>4
    <2>12. TakesKnown'
      <3>1. \A y \in Calls : (Taking(y)' <=> Taking(y)) /\ (y \in Pending' <=> y \in Pending)
        BY <1>1 DEF Taking, Pending
      <3>2. hub' = hub /\ call' = call /\ node' = node /\ (hub.sock # None => Holder' = Holder)
        BY <1>1, <2>5 DEF Holder, TypeOK
      <3>3. (~astray' /\ ~shut') <=> (~astray /\ ~shut)
        BY <1>1 DEF history
      <3>4. ASSUME ~astray, ~shut, NEW y \in Calls, call[y].method \in Takes,
                   \/ work'[y] \in {"begun", "did", "threw"}
                   \/ \E d \in Conns : InQueue(For("rpc", y), conn'[d].down)
            PROVE  y \in Pending
        <4>1. \/ work[y] \in {"begun", "did", "threw"}
              \/ \E d \in Conns : InQueue(For("rpc", y), conn[d].down)
          BY <1>1, <1>3, <2>5, <3>4
        <4> QED BY <3>4, <4>1, BeforeFacts
      <3> QED BY <2>11, <3>1, <3>2, <3>3, <3>4, BeforeFacts DEF TakesKnown
    <2> QED BY <2>6, <2>7, <2>9, <2>10, <2>12 DEF IInv
  <1> QED BY <1>5, <1>6

LEMMA AnsweredStep == ASSUME IInv, NEW c \in Conns, Answered(c) PROVE IInv'
  <1> DEFINE m == Head(conn[c].up)
             x == m.call
             u == Tail(conn[c].up)
             s == [conn[c] EXCEPT !.up = u]
             st == IF m.kind = "ok" THEN "ok" ELSE "failed"
             flag == IF m.kind = "ok" THEN After(call[x].method, hub.takeover) ELSE hub.takeover
  <1>1. /\ TypeOK /\ MadeKnown /\ QueuesKnown /\ conn[c] \in Conn /\ conn[c].far # "none"
        /\ conn[c].near \in {"live", "closing"}
        /\ conn[c].up \in Seq(Up) /\ conn[c].up # <<>>
        /\ m.kind \in {"ok", "error"}
    BY SockFacts DEF IInv, Answered, Hears, Conn
  <1>2. x \in Calls /\ m = For(m.kind, x) /\ InQueue(m, conn[c].up) /\ work[x] = "over"
    <2>1. m \in Up /\ InQueue(m, conn[c].up)
      BY <1>1, TailFacts
    <2>2. x \in Calls /\ m = For(m.kind, x)
      BY <1>1, <2>1, MessageFacts
    <2> QED BY <1>1, <2>1, <2>2 DEF QueuesKnown
  <1>3. /\ s \in Conn /\ s.node = conn[c].node /\ s.far = conn[c].far /\ s.near = conn[c].near
        /\ s.down = conn[c].down /\ s.up = u /\ Shrinks(conn[c].up, u)
    <2>1. u \in Seq(Up) /\ Shrinks(conn[c].up, u)
      BY <1>1, TailFacts DEF Shrinks
    <2> HIDE DEF u
    <2> QED BY <1>1, <2>1 DEF Conn
  <1>4. /\ conn' = [conn EXCEPT ![c] = s] /\ UNCHANGED <<work, node, troubles, history>>
        /\ x \in Pending => /\ call' = [call EXCEPT ![x].st = st]
                            /\ hub' = [hub EXCEPT !.takeover = flag]
        /\ x \notin Pending => UNCHANGED <<call, hub>>
    BY <1>1, <1>2 DEF Answered, TypeOK
  <1> HIDE DEF s, u
  <1>5. ConnsKept /\ QueuesShrink
    <2>1. Onward(conn[c], s) /\ Shrinks(conn[c].down, s.down) /\ Shrinks(conn[c].up, s.up)
      BY <1>1, <1>3, ShrinkFacts DEF Onward
    <2> QED BY <1>1, <1>3, <1>4, <2>1, OneConn
  <1>6. /\ call' \in [Calls -> [st : {"idle", "pending", "ok", "failed"},
                                method : Methods \cup {None}, on : Conns \cup {None}]]
        /\ CallsKept /\ \A y \in Calls \ {x} : call'[y] = call[y]
        /\ x \in Pending => call'[x].st # "pending"
    <2>1. CASE x \in Pending
      <3>1. call' = [call EXCEPT ![x].st = st] /\ st \in {"ok", "failed"} /\ call[x].st = "pending"
        BY <1>4, <2>1 DEF Pending
      <3> HIDE DEF st, m, x
      <3> QED BY <1>1, <1>2, <2>1, <3>1 DEF TypeOK, CallsKept
    <2>2. CASE x \notin Pending
      BY <1>1, <1>4, <2>2 DEF TypeOK, CallsKept
    <2> QED BY <2>1, <2>2
  <1>7. /\ hub' \in [sock : Conns \cup {None}, takeover : BOOLEAN] /\ hub'.sock = hub.sock
        /\ x \in Pending => hub'.takeover = flag
        /\ x \notin Pending => hub' = hub
    <2>1. flag \in BOOLEAN
      BY <1>1 DEF After, TypeOK
    <2> HIDE DEF flag, m, x
    <2> QED BY <1>1, <1>4, <2>1 DEF TypeOK
  <1>8. TypeOK'
    <2>1. RestTyped'
      BY <1>1, <1>4, <1>6 DEF TypeOK, RestTyped, history
    <2>2. /\ conn' \in [Conns -> Conn]
          /\ \A d \in Conns : /\ conn'[d].node = conn[d].node /\ conn'[d].far = conn[d].far
                              /\ conn'[d].near = conn[d].near
      BY <1>1, <1>3, <1>4 DEF TypeOK
    <2>3. hub'.sock # None => conn'[hub'.sock].near \in {"live", "closing"}
      BY <1>1, <1>7, <2>2 DEF TypeOK
    <2>4. \A n \in Nodes : node'[n].sock # None =>
              conn'[node'[n].sock].node = n /\ conn'[node'[n].sock].far = "open"
      BY <1>1, <1>4, <2>2, SockFacts
    <2> QED BY <1>7, <2>1, <2>2, <2>3, <2>4 DEF TypeOK, RestTyped
  <1>9. QueuesKnown' /\ MadeKnown'
    BY <1>1, <1>4, <1>5, <1>6, QueuesStay, MadeStays
  <1>10. CASE ~Taking(x)
    <2>1. hub' = hub
      <3>1. CASE x \in Pending
        <4>1. call[x].method \notin Takes
          BY <1>10, <3>1 DEF Taking
        <4>2. flag = hub.takeover
          BY <4>1 DEF After, Takes
        <4> HIDE DEF flag, m, x
        <4> QED BY <1>1, <1>4, <3>1, <4>2 DEF TypeOK
      <3> QED BY <1>7, <3>1
    <2>2. Quiet
      BY <1>4, <1>5, <1>6, <1>10, <2>1 DEF Quiet, Taking, Pending, history
    <2> QED BY <1>4, <1>8, <1>9, <2>2, QuietStep DEF history
  <1>11. CASE Taking(x)
    <2>1. x \in Pending /\ call[x].method \in Takes /\ hub'.takeover = flag
      BY <1>7, <1>11 DEF Taking
    <2>2. PendingReachable'
      BY <1>4, <1>6, <1>7 DEF IInv, PendingReachable, Pending, CallsKept, history
    <2>3. (hub'.takeover => hub'.sock # None \/ shut') /\ (shut' => hub'.sock = None)
      BY <1>4, <1>7, <2>1 DEF IInv, PendingReachable, MadeKnown, Pending, history
    <2>4. ASSUME ~astray', ~shut'
          PROVE  /\ \A y \in Calls : ~Taking(y)'
                 /\ \A y \in Calls :
                        call'[y].method \in Takes
                        /\ (\/ work'[y] \in {"begun", "did", "threw"}
                            \/ \E d \in Conns : InQueue(For("rpc", y), conn'[d].down))
                        => y \in Pending'
                 /\ \A n \in Nodes : n # Holder' => node'[n].run # "human"
                 /\ hub'.sock # None /\ Agree(hub'.takeover, node'[Holder'].run)
      <3>1. ~astray /\ ~shut
        BY <1>4, <2>4 DEF history
      <3>2. \A y \in Calls : Taking(y) => y = x
        BY <1>2, <1>11, <3>1, BeforeFacts
      <3>3. \A y \in Calls : ~Taking(y)'
        BY <1>6, <2>1, <3>2 DEF Taking, Pending, CallsKept
      <3>4. hub.sock # None /\ hub.sock \in Conns /\ Holder' = Holder /\ node' = node /\ Holder \in Nodes
        <4>1. hub.sock # None /\ hub.sock \in Conns /\ Holder \in Nodes
          BY <1>1, <2>1, <3>1, BeforeFacts DEF TypeOK
        <4> QED BY <1>1, <1>3, <1>4, <1>7, <4>1 DEF Holder, TypeOK
      <3>5. Agree(flag, node[Holder].run)
        <4>1. TakingKnown(x)
          BY <1>2, <1>11, <3>1, BeforeFacts
        <4>2. CASE m.kind = "ok"
          <5>1. InQueue(For("ok", x), conn[c].up) /\ flag = After(call[x].method, hub.takeover)
            BY <1>2, <4>2
          <5> HIDE DEF flag, m, x
          <5> QED BY <4>1, <5>1 DEF TakingKnown
        <4>3. CASE m.kind = "error"
          <5>1. InQueue(For("error", x), conn[c].up) /\ flag = hub.takeover
            BY <1>2, <4>3
          <5> HIDE DEF flag, m, x
          <5> QED BY <4>1, <5>1 DEF TakingKnown
        <4> QED BY <1>1, <4>2, <4>3
      <3>6. ASSUME NEW y \in Calls, call'[y].method \in Takes,
                   \/ work'[y] \in {"begun", "did", "threw"}
                   \/ \E d \in Conns : InQueue(For("rpc", y), conn'[d].down)
            PROVE  FALSE
        <4>1. \/ work[y] \in {"begun", "did", "threw"}
              \/ \E d \in Conns : InQueue(For("rpc", y), conn[d].down)
          BY <1>4, <1>5, <3>6 DEF QueuesShrink, Shrinks
        <4>2. Taking(y)
          BY <1>6, <3>1, <3>6, <4>1, BeforeFacts DEF CallsKept, Taking
        <4>3. y = x
          BY <3>2, <4>2
        <4> QED BY <1>1, <1>2, <4>1, <4>3 DEF QueuesKnown
      <3>7. \A n \in Nodes : n # Holder' => node'[n].run # "human"
        BY <3>1, <3>4, BeforeFacts
      <3> QED BY <1>7, <2>1, <3>3, <3>4, <3>5, <3>6, <3>7
    <2>5. TakesKnown'
      BY <2>4 DEF TakesKnown
    <2> QED BY <1>8, <1>9, <2>2, <2>3, <2>5 DEF IInv
  <1> QED BY <1>10, <1>11


LEMMA CallStep == ASSUME IInv, NEW x \in Calls, NEW m \in Methods, Call(x, m) PROVE IInv'
  <1> DEFINE c == hub.sock
             s == Sent(conn[c], For("rpc", x))
  <1>1. /\ TypeOK /\ MadeKnown /\ QueuesKnown /\ call[x].st = "idle" /\ call[x].on = None
        /\ work[x] = "none" /\ UNCHANGED <<hub, work, node, troubles, shut>>
    BY DEF IInv, MadeKnown, Call
  <1>2. \A d \in Conns : ~InQueue(For("rpc", x), conn[d].down)
    BY <1>1 DEF QueuesKnown
  <1>3. CASE Connected
    <2>1. /\ c \in Conns /\ c # None /\ conn[c] \in Conn /\ conn[c].far # "none"
          /\ call' = [call EXCEPT ![x] = [st |-> "pending", method |-> m, on |-> c]]
          /\ conn' = [conn EXCEPT ![c] = s]
          /\ astray' = (astray \/ (m \in Takes /\ Unsure(Pending)))
      BY <1>1, <1>3, SockFacts DEF Call, Connected
    <2>2. /\ s \in Conn /\ s.node = conn[c].node /\ s.far = conn[c].far /\ s.near = conn[c].near
          /\ s.up = conn[c].up
          /\ \A k : InQueue(k, s.down) => InQueue(k, conn[c].down) \/ k = For("rpc", x)
          /\ \A k : Once(k, conn[c].down) /\ (k # For("rpc", x) \/ ~InQueue(k, conn[c].down))
                    => Once(k, s.down)
      <3>1. For("rpc", x) \in Down
        BY MessageFacts
      <3>2. /\ s \in Conn /\ s.node = conn[c].node /\ s.far = conn[c].far /\ s.near = conn[c].near
            /\ s.up = conn[c].up /\ s.down = Puts(conn[c].down, conn[c].cut, For("rpc", x))
        BY <2>1, <3>1, SentFacts
      <3>3. conn[c].down \in Seq(Down) /\ conn[c].cut \in BOOLEAN
        BY <2>1 DEF Conn
      <3> HIDE DEF s, c
      <3> QED BY <3>1, <3>2, <3>3, PutFacts
    <2> HIDE DEF s
    <2>3. /\ call' \in [Calls -> [st : {"idle", "pending", "ok", "failed"},
                                  method : Methods \cup {None}, on : Conns \cup {None}]]
          /\ call'[x].st = "pending" /\ call'[x].method = m /\ call'[x].on = c
          /\ \A y \in Calls \ {x} : call'[y] = call[y]
      <3> HIDE DEF c
      <3> QED BY <1>1, <2>1 DEF TypeOK
    <2>4. ASSUME NEW d \in Conns
          PROVE  /\ conn'[d] \in Conn /\ conn'[d].up = conn[d].up /\ conn'[d].node = conn[d].node
                 /\ conn'[d].far = conn[d].far /\ conn'[d].near = conn[d].near
                 /\ conn[d].far = "none" => conn'[d] = conn[d]
                 /\ d # c => conn'[d] = conn[d]
                 /\ d = c => conn'[d] = s
      <3> HIDE DEF c
      <3> QED BY <1>1, <2>1, <2>2 DEF TypeOK
    <2>5. TypeOK'
      <3>1. RestTyped'
        BY <1>1, <2>1, <2>3 DEF TypeOK, RestTyped, Unsure
      <3>2. conn' \in [Conns -> Conn]
        BY <1>1, <2>1, <2>4 DEF TypeOK
      <3>3. hub'.sock # None => conn'[hub'.sock].near \in {"live", "closing"}
        BY <1>1, <2>4 DEF TypeOK
      <3>4. \A n \in Nodes : node'[n].sock # None =>
                conn'[node'[n].sock].node = n /\ conn'[node'[n].sock].far = "open"
        BY <1>1, <2>4, SockFacts
      <3> QED BY <1>1, <3>1, <3>2, <3>3, <3>4 DEF TypeOK, RestTyped
    <2>6. MadeKnown'
      <3>1. ASSUME NEW d \in Conns
            PROVE  /\ conn'[d].far = "none" => conn'[d] = Unmade
                   /\ conn'[d].far # "none" => conn'[d].node \in Nodes
        BY <1>1, <2>4 DEF MadeKnown
      <3>2. ASSUME NEW y \in Calls
            PROVE  /\ call'[y].on # None => conn'[call'[y].on].far # "none"
                   /\ work'[y] # "none" => call'[y].on # None
                   /\ call'[y].st = "pending" => call'[y].on # None
                   /\ call'[y].on # None => call'[y].method \in Methods /\ call'[y].st # "idle"
        <4>1. CASE y = x
          <5>1. conn'[c].far # "none"
            BY <2>1, <2>4
          <5> HIDE DEF c
          <5> QED BY <2>1, <2>3, <4>1, <5>1
        <4>2. CASE y # x
          <5>1. call'[y] = call[y] /\ (call[y].on # None => call[y].on \in Conns)
            BY <1>1, <2>3, <4>2 DEF TypeOK
          <5> QED BY <1>1, <2>4, <5>1 DEF MadeKnown
        <4> QED BY <4>1, <4>2
      <3> QED BY <3>1, <3>2 DEF MadeKnown
    <2>7. \A d \in Conns, y \in Calls \ {x} :
              InQueue(For("rpc", y), conn'[d].down) => InQueue(For("rpc", y), conn[d].down)
      <3>1. \A y \in Calls \ {x} : For("rpc", y) # For("rpc", x)
        BY DEF For
      <3> QED BY <2>2, <2>4, <3>1
    <2>8. QueuesKnown'
      <3> SUFFICES ASSUME NEW d \in Conns, NEW y \in Calls
                   PROVE  /\ InQueue(For("rpc", y), conn'[d].down) =>
                                 call'[y].on = d /\ work'[y] = "none" /\ call'[y].st # "idle"
                          /\ Once(For("rpc", y), conn'[d].down)
                          /\ \A kind \in {"ok", "error"} :
                                 InQueue(For(kind, y), conn'[d].up) => work'[y] = "over"
        BY DEF QueuesKnown
      <3>1. Once(For("rpc", y), conn'[d].down)
        <4>1. Once(For("rpc", y), conn[d].down) /\ (y = x => ~InQueue(For("rpc", y), conn[d].down))
          BY <1>1, <1>2 DEF QueuesKnown
        <4>2. y # x => For("rpc", y) # For("rpc", x)
          BY DEF For
        <4> QED BY <2>2, <2>4, <4>1, <4>2
      <3>2. \A kind \in {"ok", "error"} : InQueue(For(kind, y), conn'[d].up) => work'[y] = "over"
        BY <1>1, <2>4 DEF QueuesKnown
      <3>3. ASSUME InQueue(For("rpc", y), conn'[d].down)
            PROVE  call'[y].on = d /\ work'[y] = "none" /\ call'[y].st # "idle"
        <4>1. CASE y = x
          <5>1. d = c
            BY <1>2, <2>4, <3>3, <4>1
          <5> QED BY <1>1, <2>3, <4>1, <5>1
        <4>2. CASE y # x
          BY <1>1, <2>3, <2>7, <3>3, <4>2 DEF QueuesKnown
        <4> QED BY <4>1, <4>2
      <3> QED BY <3>1, <3>2, <3>3
    <2>9. PendingReachable' /\ (hub'.takeover => hub'.sock # None \/ shut') /\ (shut' => hub'.sock = None)
      BY <1>1, <2>3 DEF IInv, PendingReachable, Pending
    <2>10. ASSUME ~astray', ~shut'
           PROVE  /\ ~astray /\ ~shut /\ (m \in Takes => \A y \in Calls : ~Taking(y))
                  /\ \A y \in Calls \ {x} : Taking(y)' <=> Taking(y)
                  /\ ~Taking(x) /\ (Taking(x)' <=> m \in Takes)
                  /\ Holder' = Holder /\ hub' = hub /\ node' = node
      <3>1. ~astray /\ ~shut /\ (m \in Takes => \A y \in Calls : ~Taking(y))
        BY <1>1, <2>1, <2>10 DEF Unsure, Taking
      <3>2. \A y \in Calls \ {x} : Taking(y)' <=> Taking(y)
        BY <2>3 DEF Taking, Pending
      <3>3. ~Taking(x) /\ (Taking(x)' <=> m \in Takes)
        BY <1>1, <2>3 DEF Taking, Pending
      <3>4. Holder' = Holder /\ hub' = hub /\ node' = node
        BY <1>1, <2>1, <2>4 DEF Holder
      <3> QED BY <3>1, <3>2, <3>3, <3>4
    <2>11. ASSUME ~astray', ~shut', NEW y \in Calls, Taking(y)' PROVE TakingKnown(y)'
      <3>1. \A d \in Conns, k \in {"ok", "error"} : conn'[d].up = conn[d].up
        BY <2>4
      <3>2. CASE y = x
        <4>1. Agree(hub.takeover, node[Holder].run)
          BY <2>1, <2>10, <2>11, <3>2, BeforeFacts
        <4>2. \A d \in Conns, k \in {"ok", "error"} : ~InQueue(For(k, x), conn'[d].up)
          BY <1>1, <3>1 DEF QueuesKnown
        <4> QED BY <1>1, <2>10, <2>11, <3>2, <4>1, <4>2 DEF TakingKnown
      <3>3. CASE y # x
        <4>1. TakingKnown(y) /\ call'[y] = call[y]
          BY <2>3, <2>10, <2>11, <3>3, BeforeFacts
        <4> QED BY <1>1, <2>10, <2>11, <3>1, <4>1 DEF TakingKnown
      <3> QED BY <3>2, <3>3
    <2>12. ASSUME ~astray', ~shut'
           PROVE  /\ \A y, z \in Calls : Taking(y)' /\ Taking(z)' => y = z
                  /\ \A y \in Calls :
                         call'[y].method \in Takes
                         /\ (\/ work'[y] \in {"begun", "did", "threw"}
                             \/ \E d \in Conns : InQueue(For("rpc", y), conn'[d].down))
                         => y \in Pending'
                  /\ hub'.sock # None /\ (\A y \in Calls : ~Taking(y)') =>
                         Agree(hub'.takeover, node'[Holder'].run)
      <3>1. ASSUME NEW y \in Calls, NEW z \in Calls, Taking(y)', Taking(z)' PROVE y = z
        BY <2>10, <2>12, <3>1, BeforeFacts
      <3>2. ASSUME NEW y \in Calls, call'[y].method \in Takes,
                   \/ work'[y] \in {"begun", "did", "threw"}
                   \/ \E d \in Conns : InQueue(For("rpc", y), conn'[d].down)
            PROVE  y \in Pending'
        <4>1. CASE y = x
          BY <2>3, <4>1 DEF Pending
        <4>2. CASE y # x
          <5>1. y \in Pending
            BY <1>1, <2>3, <2>7, <2>10, <2>12, <3>2, <4>2, BeforeFacts
          <5> QED BY <2>3, <4>2, <5>1 DEF Pending
        <4> QED BY <4>1, <4>2
      <3>3. hub'.sock # None /\ (\A y \in Calls : ~Taking(y)') =>
                Agree(hub'.takeover, node'[Holder'].run)
        BY <2>10, <2>12, BeforeFacts
      <3> QED BY <3>1, <3>2, <3>3
    <2>13. TakesKnown'
      <3>1. ASSUME ~astray', ~shut'
            PROVE  /\ \A n \in Nodes : hub'.sock = None \/ n # Holder' => node'[n].run # "human"
                   /\ hub'.sock = None => ~hub'.takeover
        BY <2>10, <3>1, BeforeFacts
      <3> QED BY <2>11, <2>12, <3>1 DEF TakesKnown
    <2> QED BY <2>5, <2>6, <2>8, <2>9, <2>13 DEF IInv
  <1>4. CASE ~Connected
    <2>1. /\ call' = [call EXCEPT ![x] = [st |-> "failed", method |-> m, on |-> None]]
          /\ UNCHANGED <<conn, astray>>
      BY <1>4 DEF Call
    <2>2. /\ call' \in [Calls -> [st : {"idle", "pending", "ok", "failed"},
                                  method : Methods \cup {None}, on : Conns \cup {None}]]
          /\ call'[x].st = "failed" /\ call'[x].on = None
          /\ \A y \in Calls \ {x} : call'[y] = call[y]
      BY <1>1, <2>1 DEF TypeOK
    <2>3. TypeOK'
      BY <1>1, <2>1, <2>2 DEF TypeOK
    <2>4. MadeKnown' /\ QueuesKnown'
      BY <1>1, <1>2, <2>1, <2>2 DEF MadeKnown, QueuesKnown
    <2>5. PendingReachable' /\ (hub'.takeover => hub'.sock # None \/ shut') /\ (shut' => hub'.sock = None)
      BY <1>1, <2>2 DEF IInv, PendingReachable, Pending
    <2>6. /\ \A y \in Calls : Taking(y)' <=> Taking(y)
          /\ \A y \in Calls : y \in Pending' <=> y \in Pending
          /\ \A y \in Calls : Taking(y) => call'[y] = call[y]
          /\ Holder' = Holder /\ hub' = hub /\ node' = node /\ work' = work /\ conn' = conn
      BY <1>1, <2>1, <2>2 DEF Taking, Pending, Holder
    <2>7. ASSUME ~astray, ~shut, NEW y \in Calls, call'[y].method \in Takes,
                 \/ work'[y] \in {"begun", "did", "threw"}
                 \/ \E d \in Conns : InQueue(For("rpc", y), conn'[d].down)
          PROVE  y \in Pending'
      BY <1>1, <1>2, <2>2, <2>6, <2>7, BeforeFacts
    <2>8. ASSUME ~astray, ~shut, NEW y \in Calls, Taking(y) PROVE TakingKnown(y)'
      BY <2>6, <2>8, BeforeFacts DEF TakingKnown
    <2>9. TakesKnown'
      BY <1>1, <2>1, <2>6, <2>7, <2>8, BeforeFacts DEF TakesKnown
    <2> QED BY <2>3, <2>4, <2>5, <2>9 DEF IInv
  <1> QED BY <1>3, <1>4

----------------------------------------------------------------------------
(* The theorems.                                                           *)

\* At first nothing is sent, asked or taken.
LEMMA InitIInv == Init => IInv
  <1> SUFFICES ASSUME Init PROVE IInv
    OBVIOUS
  <1>1. /\ \A c \in Conns : conn[c] = Unmade
        /\ \A x \in Calls : call[x] = [st |-> "idle", method |-> None, on |-> None] /\ work[x] = "none"
        /\ \A n \in Nodes : node[n] = [sock |-> None, run |-> "agent"]
        /\ hub = [sock |-> None, takeover |-> FALSE] /\ ~astray
    BY DEF Init
  <1>2. Unmade \in Conn
    <2>1. <<>> \in Seq(Up) /\ <<>> \in Seq(Down)
      OBVIOUS
    <2> QED BY <2>1 DEF Unmade, Conn
  <1>3. TypeOK
    <2>1. conn \in [Conns -> Conn] /\ hub.sock = None /\ \A n \in Nodes : node[n].sock = None
      BY <1>1, <1>2 DEF Init
    <2>2. RestTyped
      <3>1. /\ node \in [Nodes -> [sock : Conns \cup {None}, run : {"agent", "human", "paused"}]]
            /\ call \in [Calls -> [st : {"idle", "pending", "ok", "failed"},
                                   method : Methods \cup {None}, on : Conns \cup {None}]]
            /\ work \in [Calls -> {"none", "begun", "did", "threw", "over"}]
        BY DEF Init
      <3>2. troubles \in 0..MaxTroubles
        <4>1. MaxTroubles \in Nat /\ troubles = 0
          BY BoundsAreNatural DEF Init
        <4> QED BY <4>1
      <3>3. shut \in BOOLEAN /\ astray \in BOOLEAN
        BY DEF Init
      <3> QED BY <3>1, <3>2, <3>3 DEF RestTyped
    <2> QED BY <1>1, <2>1, <2>2 DEF TypeOK, RestTyped
  <1>4. MadeKnown /\ PendingReachable
    <2>1. \A c \in Conns : conn[c] = Unmade /\ Unmade.far = "none"
      BY <1>1 DEF Unmade
    <2>2. \A x \in Calls : call[x].st = "idle" /\ call[x].on = None /\ work[x] = "none"
      BY <1>1
    <2> QED BY <2>1, <2>2 DEF MadeKnown, PendingReachable, Pending
  <1>5. QueuesKnown
    BY <1>1, EmptyFacts DEF QueuesKnown, Unmade
  <1>6. TakesKnown
    BY <1>1, EmptyFacts DEF TakesKnown, Taking, Pending, Unmade
  <1> QED BY <1>1, <1>3, <1>4, <1>5, <1>6 DEF IInv

\* Every step keeps what is known.
LEMMA NextIInv == IInv /\ [Next]_vars => IInv'
  <1> SUFFICES ASSUME IInv, [Next]_vars PROVE IInv'
    OBVIOUS
  <1>1. CASE HubSteps
    BY <1>1, AttachStep, AnsweredStep, HubSeesEndStep DEF HubSteps
  <1>2. CASE NodeSteps
    BY <1>2, NodeHearsStep, NodeSeesEndStep DEF NodeSteps
  <1>3. CASE WorkSteps
    BY <1>3, DoStep, ReportStep DEF WorkSteps
  <1>4. CASE \E c \in Conns : Break(c)
    BY <1>4, BreakStep
  <1>5. CASE \E n \in Nodes : Connect(n) \/ Crash(n)
    BY <1>5, ConnectStep, CrashStep
  <1>6. CASE \E x \in Calls, m \in Methods : Call(x, m)
    BY <1>6, CallStep
  <1>7. CASE Detach
    BY <1>7, DetachStep
  <1>8. CASE UNCHANGED vars
    BY <1>8 DEF vars, history, IInv, TypeOK, MadeKnown, QueuesKnown, PendingReachable, Pending,
                TakesKnown, Taking, TakingKnown, Holder
  <1> QED BY <1>1, <1>2, <1>3, <1>4, <1>5, <1>6, <1>7, <1>8 DEF Next

\* What is known of connections, queues, calls and takes always holds.
THEOREM Invariance == Spec => []IInv
  BY InitIInv, NextIInv, PTL DEF Spec

\* The state keeps its types, and hub and nodes the ends of open sockets.
THEOREM TypeCorrect == Spec => []TypeOK
  <1>1. IInv => TypeOK
    BY DEF IInv
  <1> QED BY <1>1, Invariance, PTL

\* A call that waits in hub.ts was sent on the connection the hub now has,
\* however often nodes replace each other, until the server stops.
THEOREM WaitingCanSettle == Spec => []PendingReachable
  <1>1. IInv => PendingReachable
    BY DEF IInv
  <1> QED BY <1>1, Invariance, PTL

\* The flag of hub.ts that lets a person's input through says whose the
\* browser is, but after the causes TakeoverAgrees names.
THEOREM FlagTellsTheHolder == Spec => []TakeoverAgrees
  <1>1. ASSUME IInv PROVE TakeoverAgrees
    <2>1. hub.takeover => hub.sock # None \/ shut
      BY <1>1 DEF IInv
    <2>2. ASSUME Connected, ~astray, ~Unsure(Pending), ~shut
          PROVE  Agree(hub.takeover, node[Holder].run)
      <3>1. \A x \in Calls : ~Taking(x)
        BY <2>2 DEF Unsure, Taking
      <3> QED BY <1>1, <2>2, <3>1, BeforeFacts DEF Connected
    <2>3. Connected => ~shut
      BY <1>1 DEF IInv, Connected
    <2> QED BY <2>1, <2>2, <2>3 DEF TakeoverAgrees, Agree, Holder
  <1> QED BY <1>1, Invariance, PTL

====
