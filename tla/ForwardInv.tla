----------------------------- MODULE ForwardInv -----------------------------
(***************************************************************************)
(* The inductive invariant of module Forward: who is who (connections, ids *)
(* and tables), which requests are answered, and what is on its way from   *)
(* one end of a tunnel to the other.                                       *)
(***************************************************************************)
EXTENDS Forward

Tables == UNION {[D -> Nat] : D \in SUBSET Nat}
Chunk  == {<<>>} \cup (Nat \X Nat)

EngineState == [max : Nat, next_conn_id : Nat, pending : Tables, source_sockets : Tables,
                source_conn_ids : Tables, destinations : Tables]
LocalEvent  == [k : {"accepted", "read", "eof", "error"}, id : Nat, chunk : Chunk]
PeerFrame   == [h : {"REQUEST", "RESPONSE", "DATA", "ERROR", "CLOSED"}, id : Nat, sid : Nat,
                s2d : BOOLEAN, chunk : Chunk]

Typed ==
    /\ state \in [Ends -> EngineState] /\ conns \in Seq(Conn)
    /\ events \in [Ends -> Seq(LocalEvent)] /\ link \in [Ends -> Seq(PeerFrame)]

-----------------------------------------------------------------------------
(* Connections and tables. *)

\* A connection before, in and after its tunnel.
ConnOK(t) ==
    LET c == conns[t]
    IN  /\ c.role = "destination" => c.id \in SocketIds[c.end] /\ c.mate # 0
        /\ c.role = "source" => c.id < state[c.end].next_conn_id
        /\ c.id = 0 => c.reader = "none"
        /\ c.reader = "none" <=> c.writer = "none"
        /\ c.reader = "none" => c.role = "source"
        /\ c.reader = "none" \/ c.mate = 0 => c.read = 0 /\ c.queue = <<>> /\ c.got = <<>>
        /\ c.mate = 0 => c.reader \in {"none", "off"} /\ c.writer \in {"none", "off"}

\* The two connections of a tunnel.
MateOK(t) ==
    LET c == conns[t]
        d == conns[c.mate]
    IN  c.mate # 0 =>
            /\ c.mate \in DOMAIN conns /\ d.mate = t
            /\ d.end = Peer(c.end) /\ d.role # c.role
            /\ c.id # 0

ConnInv == \A t \in DOMAIN conns : ConnOK(t)
MateInv == \A t \in DOMAIN conns : MateOK(t)

\* An id names one connection of an end.
IdInv ==
    \A t, u \in DOMAIN conns :
        conns[t].end = conns[u].end /\ conns[t].id = conns[u].id /\ conns[t].id # 0 => t = u

\* The socket id of t's tunnel: the id of its destination end.
Sid(t) == IF conns[t].role = "destination" THEN conns[t].id ELSE conns[conns[t].mate].id

\* t is the connection of e in this role known by id.
Is(t, e, role, id) ==
    t \in DOMAIN conns /\ conns[t].end = e /\ conns[t].role = role /\ conns[t].id = id

PendingInv ==
    \A e \in Ends : \A id \in DOMAIN state[e].pending :
        LET t == state[e].pending[id] IN Is(t, e, "source", id) /\ id # 0 /\ conns[t].reader = "none"

\* A registered connection has its tasks, or a writer that died.
DestinationInv ==
    \A e \in Ends : \A sid \in DOMAIN state[e].destinations :
        LET t == state[e].destinations[sid]
        IN  Is(t, e, "destination", sid) /\ conns[t].writer \in {"on", "failed"}

SourceInv ==
    \A e \in Ends : \A sid \in DOMAIN state[e].source_sockets :
        LET t == state[e].source_sockets[sid]
        IN  /\ Is(t, e, "source", conns[t].id) /\ conns[t].mate # 0 /\ Sid(t) = sid
            /\ conns[t].id \in DOMAIN state[e].source_conn_ids
            /\ conns[t].writer \in {"on", "failed"}

KnownInv ==
    \A e \in Ends : \A id \in DOMAIN state[e].source_conn_ids :
        \E t \in DOMAIN conns :
            /\ Is(t, e, "source", id) /\ conns[t].mate # 0 /\ conns[t].reader # "none"
            /\ state[e].source_conn_ids[id] = Sid(t)

\* The engine passes on what t reads; it passes on to t what arrives.
Sending(t) ==
    IF conns[t].role = "destination" THEN conns[t].id \in DOMAIN state[conns[t].end].destinations
    ELSE conns[t].id \in DOMAIN state[conns[t].end].source_conn_ids
Registered(t) ==
    IF conns[t].role = "destination" THEN conns[t].id \in DOMAIN state[conns[t].end].destinations
    ELSE conns[t].mate # 0 /\ Sid(t) \in DOMAIN state[conns[t].end].source_sockets

LiveInv == \A t \in DOMAIN conns : conns[t].reader = "on" => Registered(t) /\ Sending(t)

\* Every id handed out belongs to one of the connections accepted.
NumberInv ==
    \A e \in Ends :
        /\ state[e].next_conn_id # 0
        /\ \A id \in 1 .. state[e].next_conn_id - 1 : \E t \in DOMAIN conns : Is(t, e, "source", id)

TableInv ==
    /\ ConnInv /\ MateInv /\ IdInv /\ PendingInv /\ DestinationInv /\ SourceInv /\ KnownInv /\ LiveInv
    /\ NumberInv

\* What is limited.
BoundInv ==
    \A e \in Ends : /\ Count(e) <= MaxConns[e]
                    /\ IsFiniteSet(DOMAIN state[e].destinations)
                    /\ Cardinality(DOMAIN state[e].destinations) <= state[e].max

-----------------------------------------------------------------------------
(* Requests. *)

\* The i-th frame of d is of this kind and names this fd.
Asks(d, i, h, fd) == i \in DOMAIN link[d] /\ link[d][i].h = h /\ link[d][i].id = fd

\* Item j of e's events is t's connection.
Arrives(e, j, t) == j \in DOMAIN events[e] /\ events[e][j].k = "accepted" /\ events[e][j].id = t

AcceptInv ==
    \A e \in Ends : \A t, i \in Nat :
        Arrives(e, i, t) => Is(t, e, "source", 0) /\ \A j \in Nat : Arrives(e, j, t) => i = j

\* A request in flight is that of a pending connection without a mate, and has
\* no answer yet.
RequestInv ==
    \A e \in Ends : \A fd, i \in Nat :
        Asks(e, i, "REQUEST", fd) =>
            /\ fd \in DOMAIN state[e].pending /\ conns[state[e].pending[fd]].mate = 0
            /\ \A j \in Nat : Asks(e, j, "REQUEST", fd) => i = j
            /\ \A j \in Nat : ~Asks(Peer(e), j, "RESPONSE", fd)

\* An answer in flight names the tunnel the request was given, if any.
ResponseInv ==
    \A e \in Ends : \A fd, i \in Nat :
        Asks(Peer(e), i, "RESPONSE", fd) =>
            LET sid == link[Peer(e)][i].sid
                t   == state[e].pending[fd]
            IN  /\ fd \in DOMAIN state[e].pending
                /\ sid = 0 <=> conns[t].mate = 0
                /\ sid # 0 => sid = Sid(t)
                /\ \A j \in Nat : Asks(Peer(e), j, "RESPONSE", fd) => i = j

\* A connection that has a mate and does not know yet is about to be told.
WaitingInv ==
    \A t \in DOMAIN conns :
        conns[t].mate # 0 /\ conns[t].reader = "none" =>
            \E i \in Nat : Asks(Peer(conns[t].end), i, "RESPONSE", conns[t].id)

AskInv == AcceptInv /\ RequestInv /\ ResponseInv /\ WaitingInv

-----------------------------------------------------------------------------
(* Streams: the chunks of a connection and its end, as events and as frames. *)

EventItem(x) == x.k # "accepted"
FrameItem(x) == x.h \in {"DATA", "CLOSED", "ERROR"}
Owner(x) == x.chunk[1]
Num(x)   == x.chunk[2]

\* An item belongs to a connection of its end that is in a tunnel.
Owned(x, e) == Owner(x) \in DOMAIN conns /\ conns[Owner(x)].end = e /\ conns[Owner(x)].mate # 0

OwnersOK(e) ==
    /\ \A j \in DOMAIN events[e] : EventItem(events[e][j]) => Owned(events[e][j], e)
    /\ \A i \in DOMAIN link[e] : FrameItem(link[e][i]) => Owned(link[e][i], e)

OwnerInv == \A e \in Ends : OwnersOK(e)

\* The items of m that wait at its engine, and those on their way.
Ev(m, j) == events[conns[m].end][j]
Fr(m, i) == link[conns[m].end][i]
EventOf(m, j) == j \in DOMAIN events[conns[m].end] /\ EventItem(Ev(m, j)) /\ Owner(Ev(m, j)) = m
FrameOf(m, i) == i \in DOMAIN link[conns[m].end] /\ FrameItem(Fr(m, i)) /\ Owner(Fr(m, i)) = m

\* x is an item of m: a chunk that was read, or the end.
ItemOK(m, x, ends) ==
    /\ Num(x) \in Nat \ {0} /\ x.chunk = <<m, Num(x)>> /\ conns[m].reader # "none"
    /\ IF ends THEN conns[m].reader = "eof" /\ Num(x) = conns[m].read + 1
       ELSE Num(x) <= conns[m].read

\* Events carry the id of their connection, and come in the order it was read.
EventsOK(m) ==
    \A j \in Nat : EventOf(m, j) =>
        /\ ItemOK(m, Ev(m, j), Ev(m, j).k # "read")
        /\ Ev(m, j).id = conns[m].id
        /\ \A l \in Nat : EventOf(m, l) /\ l > j => Num(Ev(m, l)) > Num(Ev(m, j))

\* Frames carry the socket id and the direction of their tunnel, follow the
\* answer that opened it, keep the order and are ahead of what still waits.
FramesOK(m) ==
    \A i \in Nat : FrameOf(m, i) =>
        /\ ItemOK(m, Fr(m, i), Fr(m, i).h # "DATA")
        /\ Fr(m, i).sid = Sid(m)
        /\ Fr(m, i).s2d = (conns[m].role = "source")
        /\ conns[conns[m].mate].reader = "none" =>
              \E j \in Nat : j < i /\ Asks(conns[m].end, j, "RESPONSE", conns[conns[m].mate].id)
        /\ \A l \in Nat : FrameOf(m, l) /\ l > i =>
              /\ Num(Fr(m, l)) >= Num(Fr(m, i))
              /\ Fr(m, i).h = "DATA" => Num(Fr(m, l)) # Num(Fr(m, i))
        /\ \A j \in Nat : EventOf(m, j) => Num(Ev(m, j)) > Num(Fr(m, i))

Passed(t) == Len(conns[t].got) + Len(conns[t].queue)
Total(m)  == IF conns[m].reader = "eof" THEN conns[m].read + 1 ELSE conns[m].read

\* t gets what arrives for it.
Receiving(t) ==
    conns[t].mate # 0 /\ conns[t].writer # "failed" /\ (conns[t].reader = "none" \/ Registered(t))

\* What waits at m's engine comes after the n-th chunk.
EventsAfter(m, n) == \A j \in Nat : EventOf(m, j) => Num(Ev(m, j)) > n

\* What is in flight continues the n-th chunk without a gap.
FramesFollow(m, n) ==
    \A i \in Nat : FrameOf(m, i) =>
        /\ Num(Fr(m, i)) > n
        /\ \A k \in n + 1 .. Num(Fr(m, i)) :
              \E l \in Nat : l <= i /\ FrameOf(m, l) /\ Num(Fr(m, l)) = k

\* Everything m read after the n-th chunk is in flight or waits.
Whole(m, n) ==
    \A k \in n + 1 .. Total(m) :
        \/ \E l \in Nat : FrameOf(m, l) /\ Num(Fr(m, l)) = k
        \/ \E l \in Nat : EventOf(m, l) /\ Num(Ev(m, l)) = k

\* No gap: what is in flight continues what the mate was passed, and as long as
\* the engine passes on what m reads, so does what waits.
FlowOK(m) ==
    LET n == Passed(conns[m].mate)
    IN  Receiving(conns[m].mate) =>
            EventsAfter(m, n) /\ FramesFollow(m, n) /\ (Sending(m) => Whole(m, n))

StreamOK(m) == conns[m].mate # 0 => EventsOK(m) /\ FramesOK(m) /\ FlowOK(m)

\* What t was passed is what its mate read, and all of it once it was closed.
GotOK(t) ==
    LET c == conns[t]
        d == conns[c.mate]
    IN  /\ \A i \in 1 .. Len(c.got) : c.got[i] = <<c.mate, i>>
        /\ \A i \in 1 .. Len(c.queue) : c.queue[i] = <<c.mate, Len(c.got) + i>>
        /\ Len(c.queue) <= CONN_WRITE_QUEUE_DEPTH
        /\ c.mate # 0 => Passed(t) <= d.read
        /\ c.mate # 0 /\ c.reader = "off" /\ c.writer \in {"draining", "off"} =>
              d.reader = "eof" /\ Passed(t) = d.read
        /\ c.writer = "off" => c.queue = <<>>

StreamInv == OwnerInv /\ \A t \in DOMAIN conns : StreamOK(t) /\ GotOK(t)

Inv == Typed /\ TableInv /\ AskInv /\ StreamInv /\ BoundInv

=============================================================================
