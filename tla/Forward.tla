------------------------------ MODULE Forward -------------------------------
(***************************************************************************)
(* The data path of the port-forward engine of                             *)
(* crates/et-proto/src/forward.rs: the two engines of a session, the       *)
(* frames between them and the local connections at either end.            *)
(*                                                                         *)
(* An engine handles one item at a time: a frame of the peer or an event   *)
(* of a local task.  A handler's frames go out in order and nothing else   *)
(* of that engine happens in between, so a handler is one action; a write  *)
(* to a local connection waits for room in its queue, which is a guard.    *)
(* How a blocked engine is stopped is module Engine's subject.             *)
(*                                                                         *)
(* Chunk n of connection t is <<t, n>>, whatever was read at once; the end *)
(* of t counts as the chunk after the last one.                            *)
(***************************************************************************)
EXTENDS Naturals, Sequences, FiniteSets

CONSTANTS
    Ends,                           \* the two engines
    MaxConns,                       \* bound: connections accepted at each end
    MaxChunks,                      \* bound: chunks read from each connection
    SocketIds,                      \* what random_u32 may return at each end
    CONN_WRITE_QUEUE_DEPTH,
    Caps,                           \* values of MAX_DESTINATION_CONNECTIONS considered
    Failing                         \* connections whose reads, writes and dup() may fail

Role == {"source", "destination"}

ASSUME EndsAssumption == \E a, b \in Ends : a # b /\ Ends = {a, b}
ASSUME ForwardAssumption ==
    /\ MaxConns \in [Ends -> Nat] /\ MaxChunks \in Seq(Nat)
    /\ SocketIds \in [Ends -> SUBSET (Nat \ {0})] /\ CONN_WRITE_QUEUE_DEPTH \in Nat \ {0}
    /\ Caps \subseteq Nat \ {0} /\ Failing \subseteq Nat
ASSUME IdsAssumption ==         \* no random socket id is also a conn_id
    \A e \in Ends : SocketIds[e] \cap (1 .. MaxConns[e]) = {}

VARIABLES
    state,      \* EngineState of each end
    conns,      \* every local connection so far, with its two tasks
    events,     \* local tasks to the engine
    link        \* frames each engine sent and its peer has yet to handle

vars == <<state, conns, events, link>>

Peer(e) == CHOOSE d \in Ends : d # e

Count(e) == Cardinality({t \in DOMAIN conns : conns[t].end = e /\ conns[t].role = "source"})

Insert(table, k, v) == [x \in DOMAIN table \cup {k} |-> IF x = k THEN v ELSE table[x]]
Remove(table, k)    == [x \in DOMAIN table \ {k} |-> table[x]]

\* max is MAX_DESTINATION_CONNECTIONS, which never changes.
EmptyState(cap) == [max |-> cap, next_conn_id |-> 1, pending |-> <<>>, source_sockets |-> <<>>,
                    source_conn_ids |-> <<>>, destinations |-> <<>>]

Conn == [end : Ends, role : Role, id : Nat, mate : Nat,
         reader : {"none", "on", "eof", "off"},
         writer : {"none", "on", "draining", "failed", "off"},
         read : Nat, queue : Seq(Nat \X Nat), got : Seq(Nat \X Nat)]

\* id is the conn_id its tasks put in their events, mate the connection at the
\* other end of the tunnel (history), got what the local program received.
Local(e, role, id, mate) ==
    [end |-> e, role |-> role, id |-> id, mate |-> mate, reader |-> "none", writer |-> "none",
     read |-> 0, queue |-> <<>>, got |-> <<>>]

Request(fd)       == [h |-> "REQUEST", id |-> fd, sid |-> 0, s2d |-> TRUE, chunk |-> <<>>]
Response(fd, sid) == [h |-> "RESPONSE", id |-> fd, sid |-> sid, s2d |-> FALSE, chunk |-> <<>>]
Data(sid, s2d, c) == [h |-> "DATA", id |-> 0, sid |-> sid, s2d |-> s2d, chunk |-> c]
Error(sid, s2d, c) == [h |-> "ERROR", id |-> 0, sid |-> sid, s2d |-> s2d, chunk |-> c]
Closed(sid, s2d, c) == [h |-> "CLOSED", id |-> 0, sid |-> sid, s2d |-> s2d, chunk |-> c]

Accepted(t)  == [k |-> "accepted", id |-> t, chunk |-> <<>>]
Read(id, c)  == [k |-> "read", id |-> id, chunk |-> c]
ReadEnd(id, k, c) == [k |-> k, id |-> id, chunk |-> c]    \* c: whose end it is (history)

TypeOK ==
    /\ \A e \in Ends :
         /\ state[e].next_conn_id \in 1 .. MaxConns[e] + 1
         /\ DOMAIN state[e].pending \cup DOMAIN state[e].source_conn_ids \subseteq 1 .. MaxConns[e]
         /\ DOMAIN state[e].destinations \subseteq SocketIds[e]
         /\ DOMAIN state[e].source_sockets \subseteq SocketIds[Peer(e)]
    /\ \A t \in DOMAIN conns :
         conns[t] \in Conn /\ Len(conns[t].queue) <= CONN_WRITE_QUEUE_DEPTH

Init ==
    /\ \E cap \in Caps : state = [e \in Ends |-> EmptyState(cap)]
    /\ conns = <<>>
    /\ events = [e \in Ends |-> <<>>]
    /\ link = [e \in Ends |-> <<>>]

-----------------------------------------------------------------------------
(* Local connections. *)

\* Mutant: the writer is aborted with the reader.
TeardownAbortsWriter(c) ==
    [c EXCEPT !.reader = IF @ = "on" THEN "off" ELSE @, !.queue = <<>>,
              !.writer = IF @ = "failed" THEN "failed" ELSE "off"]

\* Mutant: the read task is left running.
TeardownLeavesReader(c) ==
    [c EXCEPT !.writer = IF @ = "failed" THEN @ ELSE IF c.queue = <<>> THEN "off" ELSE "draining"]

\* Conn::teardown: the read task is aborted; the writer drains its queue and ends.
Teardown(c) ==
    [c EXCEPT !.reader = IF @ = "on" THEN "off" ELSE @,
              !.writer = IF @ = "failed" THEN @ ELSE IF c.queue = <<>> THEN "off" ELSE "draining"]

TeardownIn(table, k) ==
    IF k \in DOMAIN table THEN [conns EXCEPT ![table[k]] = Teardown(@)] ELSE conns

\* spawn_conn: both tasks run, or neither when the stream cannot be duplicated.
Spawned(t, c) ==
    {[c EXCEPT !.reader = "on", !.writer = "on"]}
    \cup {[c EXCEPT !.reader = "off", !.writer = "failed"] : u \in Failing \cap {t}}

\* A source listener accepts a connection.
Accept(e) ==
    /\ Count(e) < MaxConns[e]
    /\ conns' = Append(conns, Local(e, "source", 0, 0))
    /\ events' = [events EXCEPT ![e] = Append(@, Accepted(Len(conns) + 1))]
    /\ UNCHANGED <<state, link>>

\* The read task of t sends what it read; end of file or an error ends it.
ReadSome(t) ==
    /\ t \in DOMAIN conns /\ conns[t].reader = "on" /\ conns[t].read < MaxChunks[t]
    /\ conns' = [conns EXCEPT ![t].read = @ + 1]
    /\ events' = [events EXCEPT ![conns[t].end] =
                     Append(@, Read(conns[t].id, <<t, conns[t].read + 1>>))]
    /\ UNCHANGED <<state, link>>

ReadEnds(t) ==
    /\ t \in DOMAIN conns /\ conns[t].reader = "on"
    /\ conns' = [conns EXCEPT ![t].reader = "eof"]
    /\ \E k \in {"eof"} \cup {"error" : u \in Failing \cap {t}} :
         events' = [events EXCEPT ![conns[t].end] =
                       Append(@, ReadEnd(conns[t].id, k, <<t, conns[t].read + 1>>))]
    /\ UNCHANGED <<state, link>>

\* The write task of t writes the next chunk; torn down and drained, it ends.
WriteSome(t) ==
    /\ t \in DOMAIN conns /\ conns[t].writer \in {"on", "draining"} /\ conns[t].queue # <<>>
    /\ conns' = [conns EXCEPT ![t].got = Append(@, Head(conns[t].queue)),
                              ![t].queue = Tail(@),
                              ![t].writer = IF @ = "draining" /\ Len(conns[t].queue) = 1
                                            THEN "off" ELSE @]
    /\ UNCHANGED <<state, events, link>>

WriteFails(t) ==
    /\ t \in Failing \cap DOMAIN conns /\ conns[t].writer \in {"on", "draining"} /\ conns[t].queue # <<>>
    /\ conns' = [conns EXCEPT ![t].queue = <<>>, ![t].writer = "failed"]
    /\ UNCHANGED <<state, events, link>>

-----------------------------------------------------------------------------
(* The engine: local events. *)

Emit(e, frames) == link' = [link EXCEPT ![e] = @ \o frames]
Take(e)         == events' = [events EXCEPT ![e] = Tail(@)]

\* parse_ranges gives every source a destination, so there is one to ask for.
HandleAccepted(e) ==
    /\ events[e] # <<>> /\ Head(events[e]).k = "accepted"
    /\ Take(e)
    /\ LET id == state[e].next_conn_id
           t  == Head(events[e]).id
       IN  /\ state' = [state EXCEPT ![e].next_conn_id = id + 1,
                                     ![e].pending = Insert(@, id, t)]
           /\ conns' = [conns EXCEPT ![t].id = id]
           /\ Emit(e, << Request(id) >>)

\* Mutant: the end of a connection is only passed on when it is an error.
EndFramesOfErrors(k, sid, src, c) ==
    IF k = "error" THEN << Error(sid, src, c), Closed(sid, src, c) >> ELSE <<>>

EndFrames(k, sid, src, c) ==
    IF k = "error" THEN << Error(sid, src, c), Closed(sid, src, c) >> ELSE << Closed(sid, src, c) >>

\* handle_read: the role is looked up by conn_id, source connections first.  The
\* end of a connection is passed on and removes it; a read of a connection that
\* is in neither table is dropped.
HandleRead(e) ==
    /\ events[e] # <<>> /\ Head(events[e]).k # "accepted"
    /\ Take(e)
    /\ LET ev  == Head(events[e])
           s   == state[e]
           src == ev.id \in DOMAIN s.source_conn_ids
           dst == ev.id \in DOMAIN s.destinations
           sid == IF src THEN s.source_conn_ids[ev.id] ELSE ev.id
       IN  IF ~src /\ ~dst THEN UNCHANGED <<state, conns, link>>
           ELSE IF ev.k = "read"
           THEN Emit(e, << Data(sid, src, ev.chunk) >>) /\ UNCHANGED <<state, conns>>
           ELSE /\ Emit(e, EndFrames(ev.k, sid, src, ev.chunk))
                /\ IF src
                   THEN /\ conns' = TeardownIn(s.source_sockets, sid)
                        /\ state' = [state EXCEPT ![e].source_sockets = Remove(@, sid),
                                                  ![e].source_conn_ids = Remove(@, ev.id)]
                   ELSE /\ conns' = TeardownIn(s.destinations, sid)
                        /\ state' = [state EXCEPT ![e].destinations = Remove(@, sid)]

-----------------------------------------------------------------------------
(* The engine: frames of the peer. *)

Incoming(e, h) == link[Peer(e)] # <<>> /\ Head(link[Peer(e)]).h \in h
Frame(e)       == Head(link[Peer(e)])

\* The frame is taken; e's own are sent.
Answer(e, frames) == link' = [link EXCEPT ![Peer(e)] = Tail(@), ![e] = @ \o frames]

\* Mutant: one connection too many.
RefusesLate(e) == Cardinality(DOMAIN state[e].destinations) > state[e].max

\* create_destination refuses beyond the cap.
Refuses(e) == Cardinality(DOMAIN state[e].destinations) >= state[e].max

\* The id of a new destination.  The random 32 bits are taken not to repeat within
\* a session; ids are only compared, so one unused value is as good as another.
Unused(e) ==
    {sid \in SocketIds[e] :
        \A t \in DOMAIN conns : conns[t].end = e /\ conns[t].role = "destination" => conns[t].id # sid}

NewId(e) == CHOOSE sid \in Unused(e) : TRUE

\* Whoever sent the request with this fd (history).
Requester(e, fd) ==
    CHOOSE t \in DOMAIN conns : conns[t].end = Peer(e) /\ conns[t].role = "source" /\ conns[t].id = fd

\* Mutant: a request that cannot be served gets no answer.
HandleRequestDropped(e) ==
    /\ Incoming(e, {"REQUEST"})
    /\ Answer(e, <<>>)
    /\ UNCHANGED <<state, conns, events>>

\* The destination cannot be had: not enabled, no such port, refused, beyond the cap.
HandleRequestRefused(e) ==
    /\ Incoming(e, {"REQUEST"})
    /\ Answer(e, << Response(Frame(e).id, 0) >>)
    /\ UNCHANGED <<state, conns, events>>

HandleRequest(e) ==
    /\ Incoming(e, {"REQUEST"}) /\ ~Refuses(e) /\ Unused(e) # {}
    /\ LET sid == NewId(e) IN
         /\ \E c \in Spawned(Len(conns) + 1, Local(e, "destination", sid, Requester(e, Frame(e).id))) :
              conns' = [Append(conns, c) EXCEPT ![c.mate].mate = Len(conns) + 1]
         /\ state' = [state EXCEPT ![e].destinations = Insert(@, sid, Len(conns) + 1)]
         /\ Answer(e, << Response(Frame(e).id, sid) >>)
    /\ UNCHANGED events

\* Mutant: answers are taken for the latest pending connection.
PendingLatest(e) ==
    LET ids == DOMAIN state[e].pending
    IN  IF ids = {} THEN 0 ELSE CHOOSE i \in ids : \A j \in ids : i >= j

\* The pending connection the response is for, 0 when there is none.
PendingFor(e) == IF Frame(e).id \in DOMAIN state[e].pending THEN Frame(e).id ELSE 0

HandleResponse(e) ==
    /\ Incoming(e, {"RESPONSE"})
    /\ Answer(e, <<>>)
    /\ LET s   == state[e]
           id  == PendingFor(e)
           sid == Frame(e).sid
           t   == s.pending[id]
       IN  IF id = 0 THEN UNCHANGED <<state, conns>>
           ELSE IF sid = 0
           THEN /\ state' = [state EXCEPT ![e].pending = Remove(@, id)]
                /\ conns' = [conns EXCEPT ![t].reader = "off", ![t].writer = "off"]
           ELSE /\ state' = [state EXCEPT ![e].pending = Remove(@, id),
                                          ![e].source_sockets = Insert(@, sid, t),
                                          ![e].source_conn_ids = Insert(@, id, sid)]
                /\ \E c \in Spawned(t, conns[t]) :
                     conns' = [TeardownIn(s.source_sockets, sid) EXCEPT ![t] = c]
    /\ UNCHANGED events

Table(s, s2d) == IF s2d THEN s.destinations ELSE s.source_sockets

Without(s, s2d, sid) ==
    IF s2d THEN [s EXCEPT !.destinations = Remove(@, sid)]
    ELSE [s EXCEPT !.source_sockets = Remove(@, sid)]

\* Mutant: one chunk more than the queue holds.
RoomLate(t) == Len(conns[t].queue) <= CONN_WRITE_QUEUE_DEPTH

\* write_tx.send need not wait.
Room(t) == Len(conns[t].queue) < CONN_WRITE_QUEUE_DEPTH

\* PortForwardData with bytes: queued when there is room; a dead writer tears the
\* connection down, without a frame to the peer; unknown sockets are ignored.
HandleData(e) ==
    /\ Incoming(e, {"DATA"})
    /\ Answer(e, <<>>)
    /\ LET f     == Frame(e)
           table == Table(state[e], f.s2d)
           t     == table[f.sid]
       IN  IF f.sid \notin DOMAIN table THEN UNCHANGED <<state, conns>>
           ELSE IF conns[t].writer = "failed"
           THEN /\ state' = [state EXCEPT ![e] = Without(@, f.s2d, f.sid)]
                /\ conns' = TeardownIn(table, f.sid)
           ELSE /\ Room(t)
                /\ conns' = [conns EXCEPT ![t].queue = Append(@, f.chunk)]
                /\ UNCHANGED state
    /\ UNCHANGED events

\* closed, or an error: the connection is removed and torn down.  source_conn_ids
\* keeps its entry.
HandleClosed(e) ==
    /\ Incoming(e, {"CLOSED", "ERROR"})
    /\ Answer(e, <<>>)
    /\ LET f == Frame(e)
       IN  /\ state' = [state EXCEPT ![e] = Without(@, f.s2d, f.sid)]
           /\ conns' = TeardownIn(Table(state[e], f.s2d), f.sid)
    /\ UNCHANGED events

EventStep(e) == HandleAccepted(e) \/ HandleRead(e)

FrameStep(e) ==
    \/ HandleRequestRefused(e) \/ HandleRequest(e) \/ HandleResponse(e)
    \/ HandleData(e) \/ HandleClosed(e)

Streams == LET e == CHOOSE d \in Ends : TRUE IN 1 .. 2 * (MaxConns[e] + MaxConns[Peer(e)])

Next ==
    \/ \E e \in Ends : Accept(e) \/ EventStep(e) \/ FrameStep(e)
    \/ \E t \in Streams : ReadSome(t) \/ ReadEnds(t) \/ WriteSome(t) \/ WriteFails(t)

Spec == Init /\ [][Next]_vars

\* An engine's select is fair to events and to frames ("the data-path arms sit in
\* their own *unbiased* select"), and local programs read what is written to them.
\* Nobody has to connect, send or close.
FairSpec ==
    /\ Spec
    /\ \A e \in Ends : WF_vars(EventStep(e)) /\ WF_vars(FrameStep(e))
    /\ \A t \in Streams : WF_vars(WriteSome(t))

-----------------------------------------------------------------------------
(* Properties. *)

\* Tunnels do not mix and do not reorder: what the local program behind a
\* connection received is a prefix of what was read from the connection at the
\* other end of its tunnel.
TunnelsIsolated ==
    \A t \in DOMAIN conns : \A i \in DOMAIN (conns[t].got \o conns[t].queue) :
        (conns[t].got \o conns[t].queue)[i] = <<conns[t].mate, i>>

\* A connection the peer closed at its end of file received everything that had
\* been read there, although the close overtakes nothing and tears both tasks
\* down ("Dropping write_tx ends the writer task and the stream (FIN)").
CloseAfterData ==
    \A t \in DOMAIN conns :
        LET m == conns[t].mate
        IN  (m # 0 /\ conns[t].writer = "off" /\ conns[t].reader = "off" /\ conns[m].reader = "eof")
            => Len(conns[t].got) = conns[m].read

\* "every other engine resource is bounded, so this one is too": destination
\* connections alive at an end stay within the cap, draining ones aside.
DestinationsBounded ==
    \A e \in Ends :
        Cardinality({t \in DOMAIN conns : /\ conns[t].end = e /\ conns[t].role = "destination"
                                          /\ conns[t].reader = "on"}) <= state[e].max

\* A live connection is reachable both ways: the engine finds it under the socket
\* id its events are sent with, so no table entry is ever lost under a live
\* connection.
LiveIsRegistered ==
    \A t \in DOMAIN conns : conns[t].reader = "on" =>
        LET s == state[conns[t].end]
        IN  IF conns[t].role = "destination"
            THEN conns[t].id \in DOMAIN s.destinations /\ s.destinations[conns[t].id] = t
            ELSE /\ conns[t].id \in DOMAIN s.source_conn_ids
                 /\ s.source_conn_ids[conns[t].id] \in DOMAIN s.source_sockets
                 /\ s.source_sockets[s.source_conn_ids[conns[t].id]] = t

\* Every accepted connection is answered, mapped to a tunnel or dropped: again and
\* again there is none that waits (it is then answered for good).
AcceptsAnswered == []<>(\A t \in DOMAIN conns : conns[t].writer # "none")

Ended(t) == conns[t].reader \in {"eof", "off"}

\* A tunnel does not stay half open, behind a full write queue either: once one end
\* of it ended or was torn down, so is the other, unless writing to the local program
\* had failed there.  A tunnel that handle_peer_packet tears down for a dead writer
\* may stay open at the peer, whose frames are then "dropped as unknown".
EndReachesPeer ==
    []<>(\A t \in DOMAIN conns :
            conns[t].mate # 0 /\ Ended(t) /\ conns[t].writer # "failed" => Ended(conns[t].mate))

=============================================================================
