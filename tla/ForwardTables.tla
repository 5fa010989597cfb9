--------------------------- MODULE ForwardTables ----------------------------
(***************************************************************************)
(* Proofs about module Forward, first part: types, connections and tables, *)
(* and the connections that are accepted.                                  *)
(***************************************************************************)
EXTENDS ForwardInv, TLAPS

\* Most leaves are first-order; those that need more cite SMT.
USE ZenonT(20)

\* There are two ends.
LEMMA PeerFacts ==
  ASSUME NEW e \in Ends
  PROVE  /\ Peer(e) \in Ends /\ Peer(e) # e /\ Peer(Peer(e)) = e
         /\ \A d \in Ends : d = e \/ d = Peer(e)
<1>1. PICK a, b \in Ends : a # b /\ Ends = {a, b}
  BY EndsAssumption
<1>2. \E d \in Ends : d # e
  BY <1>1, SMTT(20)
<1>3. Peer(e) \in Ends /\ Peer(e) # e
  BY <1>2 DEF Peer
<1>4. \E d \in Ends : d # Peer(e)
  BY <1>3
<1>5. Peer(Peer(e)) \in Ends /\ Peer(Peer(e)) # Peer(e)
  BY <1>4 DEF Peer
<1>. QED
  BY <1>1, <1>3, <1>5

-----------------------------------------------------------------------------
(* Operators of the model. *)

\* The fields of a connection.
LEMMA ConnTypes ==
  ASSUME Typed, NEW t \in DOMAIN conns
  PROVE  /\ t \in Nat \ {0} /\ conns[t] \in Conn
         /\ conns[t].end \in Ends /\ conns[t].role \in Role
         /\ conns[t].id \in Nat /\ conns[t].mate \in Nat /\ conns[t].read \in Nat
         /\ conns[t].reader \in {"none", "on", "eof", "off"}
         /\ conns[t].writer \in {"none", "on", "draining", "failed", "off"}
         /\ conns[t].queue \in Seq(Nat \X Nat) /\ conns[t].got \in Seq(Nat \X Nat)
<1>1. t \in Nat \ {0} /\ conns[t] \in Conn
  BY SMTT(20) DEF Typed
<1>. QED
  BY <1>1 DEF Conn

\* The fields of an engine.
LEMMA StateTypes ==
  ASSUME Typed, NEW e \in Ends
  PROVE  /\ state[e] \in EngineState
         /\ state[e].max \in Nat /\ state[e].next_conn_id \in Nat
         /\ state[e].pending \in Tables /\ state[e].source_sockets \in Tables
         /\ state[e].source_conn_ids \in Tables /\ state[e].destinations \in Tables
<1>1. state[e] \in EngineState
  BY DEF Typed
<1>. QED
  BY <1>1 DEF EngineState

\* What insert and remove do to a table.
LEMMA Inserted ==
  ASSUME NEW f \in Tables, NEW k \in Nat, NEW v \in Nat
  PROVE  /\ Insert(f, k, v) \in Tables /\ DOMAIN Insert(f, k, v) = DOMAIN f \cup {k}
         /\ Insert(f, k, v)[k] = v
         /\ \A x \in DOMAIN f : x # k => Insert(f, k, v)[x] = f[x]
<1>1. PICK D \in SUBSET Nat : f \in [D -> Nat]
  BY DEF Tables
<1>2. Insert(f, k, v) \in [D \cup {k} -> Nat]
  BY <1>1 DEF Insert
<1>3. D \cup {k} \in SUBSET Nat
  BY <1>1
<1>4. Insert(f, k, v) \in Tables
  BY <1>2, <1>3 DEF Tables
<1>. QED
  BY <1>4 DEF Insert

\* A table without an entry.
LEMMA Removed ==
  ASSUME NEW f \in Tables, NEW k
  PROVE  /\ Remove(f, k) \in Tables /\ DOMAIN Remove(f, k) = DOMAIN f \ {k}
         /\ \A x \in DOMAIN f : x # k => Remove(f, k)[x] = f[x]
<1>1. PICK D \in SUBSET Nat : f \in [D -> Nat]
  BY DEF Tables
<1>2. Remove(f, k) \in [D \ {k} -> Nat]
  BY <1>1 DEF Remove
<1>3. D \ {k} \in SUBSET Nat
  BY <1>1
<1>4. Remove(f, k) \in Tables
  BY <1>2, <1>3 DEF Tables
<1>. QED
  BY <1>4 DEF Remove

\* Keys and values of a table.
LEMMA TableFacts ==
  ASSUME NEW f \in Tables
  PROVE  DOMAIN f \subseteq Nat /\ \A k \in DOMAIN f : f[k] \in Nat
BY DEF Tables

\* teardown leaves the identity and the data of a connection alone.
LEMMA TeardownFacts ==
  ASSUME NEW c \in Conn
  PROVE  /\ Teardown(c) \in Conn
         /\ Teardown(c).end = c.end /\ Teardown(c).role = c.role
         /\ Teardown(c).id = c.id /\ Teardown(c).mate = c.mate
         /\ Teardown(c).read = c.read /\ Teardown(c).queue = c.queue /\ Teardown(c).got = c.got
         /\ Teardown(c).reader = (IF c.reader = "on" THEN "off" ELSE c.reader)
         /\ Teardown(c).writer = (IF c.writer = "failed" THEN "failed"
                                  ELSE IF c.queue = <<>> THEN "off" ELSE "draining")
BY DEF Teardown, Conn

\* spawn_conn starts both tasks or neither.
LEMMA SpawnedFacts ==
  ASSUME NEW c \in Conn, NEW t, NEW d \in Spawned(t, c)
  PROVE  /\ d \in Conn
         /\ d.end = c.end /\ d.role = c.role /\ d.id = c.id /\ d.mate = c.mate
         /\ d.read = c.read /\ d.queue = c.queue /\ d.got = c.got
         /\ \/ d.reader = "on" /\ d.writer = "on"
            \/ d.reader = "off" /\ d.writer = "failed"
<1>1. CASE d = [c EXCEPT !.reader = "on", !.writer = "on"]
  BY <1>1 DEF Conn
<1>2. CASE d = [c EXCEPT !.reader = "off", !.writer = "failed"]
  BY <1>2 DEF Conn
<1>. QED
  BY <1>1, <1>2 DEF Spawned

\* Events and frames have their types.
LEMMA EventTypes ==
  ASSUME NEW i \in Nat, NEW c \in Chunk
  PROVE  /\ Accepted(i) \in LocalEvent /\ Read(i, c) \in LocalEvent
         /\ \A k \in {"eof", "error"} : ReadEnd(i, k, c) \in LocalEvent
BY DEF Accepted, Read, ReadEnd, LocalEvent, Chunk

\* The frames of the protocol.
LEMMA FrameTypes ==
  ASSUME NEW i \in Nat, NEW sid \in Nat, NEW s2d \in BOOLEAN, NEW c \in Chunk
  PROVE  /\ Request(i) \in PeerFrame /\ Response(i, sid) \in PeerFrame
         /\ Data(sid, s2d, c) \in PeerFrame
         /\ Error(sid, s2d, c) \in PeerFrame /\ Closed(sid, s2d, c) \in PeerFrame
BY DEF Request, Response, Data, Error, Closed, PeerFrame, Chunk

-----------------------------------------------------------------------------
(* Queues. *)

\* y is x without its first k items, and possibly with new ones at its end.
Shifts(x, y, k) ==
    /\ \A i \in DOMAIN y : i + k \in DOMAIN x => y[i] = x[i + k]
    /\ \A i \in DOMAIN x : i > k => i - k \in DOMAIN y

\* The empty sequence, under a name.
LEMMA EmptySequence ==
  ASSUME NEW S
  PROVE  \E x \in Seq(S) : x = <<>>
<1>1. <<>> \in Seq(S)
  BY SMTT(20)
<1>. QED
  BY <1>1

\* A sequence of one frame, under a name.
LEMMA OneFrame ==
  ASSUME NEW S, NEW f \in S
  PROVE  \E x \in Seq(S) : x = <<f>> /\ x # <<>> /\ Len(x) = 1 /\ x[1] = f /\ DOMAIN x = {1}
<1>1. <<f>> \in Seq(S) /\ <<f>> # <<>> /\ Len(<<f>>) = 1 /\ <<f>>[1] = f /\ DOMAIN <<f>> = {1}
  BY SMTT(20)
<1>. QED
  BY <1>1

\* A queue left alone.
LEMMA ShiftsSame ==
  ASSUME NEW S, NEW x \in Seq(S)
  PROVE  Shifts(x, x, 0) /\ \A i \in DOMAIN x : i + 0 \in DOMAIN x
BY SMTT(20) DEF Shifts

\* A queue that loses its head.
LEMMA ShiftsTail ==
  ASSUME NEW S, NEW x \in Seq(S), x # <<>>
  PROVE  /\ Tail(x) \in Seq(S) /\ Shifts(x, Tail(x), 1)
         /\ \A i \in DOMAIN Tail(x) : i + 1 \in DOMAIN x
         /\ 1 \in DOMAIN x /\ Head(x) = x[1] /\ x[1] \in S
BY SMTT(20) DEF Shifts

\* A queue that gains several elements.
LEMMA ShiftsConcat ==
  ASSUME NEW S, NEW x \in Seq(S), NEW z \in Seq(S)
  PROVE  /\ x \o z \in Seq(S) /\ Shifts(x, x \o z, 0)
         /\ \A i \in DOMAIN (x \o z) : i + 0 \notin DOMAIN x =>
               i - Len(x) \in DOMAIN z /\ (x \o z)[i] = z[i - Len(x)]
         /\ \A j \in DOMAIN z : Len(x) + j \in DOMAIN (x \o z) /\ (x \o z)[Len(x) + j] = z[j]
BY SMTT(20) DEF Shifts

\* A queue that gains one element.
LEMMA ShiftsAppend ==
  ASSUME NEW S, NEW x \in Seq(S), NEW z \in S
  PROVE  /\ Append(x, z) \in Seq(S) /\ Shifts(x, Append(x, z), 0)
         /\ \A i \in DOMAIN Append(x, z) : i + 0 \notin DOMAIN x => i = Len(x) + 1
         /\ Len(x) + 1 \in DOMAIN Append(x, z) /\ Append(x, z)[Len(x) + 1] = z
BY SMTT(20) DEF Shifts

\* A local task sends an event.
LEMMA PostFacts ==
  ASSUME Typed, NEW e \in Ends, NEW x \in LocalEvent,
         events' = [events EXCEPT ![e] = Append(@, x)]
  PROVE  /\ events' \in [Ends -> Seq(LocalEvent)]
         /\ \A d \in Ends : Shifts(events[d], events'[d], 0)
         /\ \A d \in Ends : \A i \in DOMAIN events'[d] :
               i + 0 \notin DOMAIN events[d] => d = e /\ i = Len(events[e]) + 1
         /\ Len(events[e]) + 1 \in DOMAIN events'[e] /\ events'[e][Len(events[e]) + 1] = x
<1>1. events[e] \in Seq(LocalEvent) /\ \A d \in Ends : events[d] \in Seq(LocalEvent)
  BY DEF Typed
<1>2. events'[e] = Append(events[e], x) /\ \A d \in Ends : d # e => events'[d] = events[d]
  BY DEF Typed
<1>3. Append(events[e], x) \in Seq(LocalEvent)
  BY <1>1, ShiftsAppend
<1>4. events' \in [Ends -> Seq(LocalEvent)]
  BY <1>3 DEF Typed
<1>5. ASSUME NEW d \in Ends, d # e
      PROVE  Shifts(events[d], events'[d], 0) /\ \A i \in DOMAIN events'[d] : i + 0 \in DOMAIN events[d]
  BY <1>1, <1>2, <1>5, ShiftsSame
<1>6. /\ Shifts(events[e], events'[e], 0)
      /\ \A i \in DOMAIN events'[e] : i + 0 \notin DOMAIN events[e] => i = Len(events[e]) + 1
      /\ Len(events[e]) + 1 \in DOMAIN events'[e] /\ events'[e][Len(events[e]) + 1] = x
  BY <1>1, <1>2, ShiftsAppend, SMTT(20)
<1>. QED
  BY <1>4, <1>5, <1>6

\* The engine takes an event.
LEMMA TakeFacts ==
  ASSUME Typed, NEW e \in Ends, events[e] # <<>>, Take(e)
  PROVE  /\ events' \in [Ends -> Seq(LocalEvent)]
         /\ \A d \in Ends : d # e => events'[d] = events[d]
         /\ Shifts(events[e], events'[e], 1)
         /\ \A i \in DOMAIN events'[e] : i + 1 \in DOMAIN events[e]
         /\ 1 \in DOMAIN events[e] /\ Head(events[e]) = events[e][1]
         /\ Head(events[e]) \in LocalEvent
<1>1. events[e] \in Seq(LocalEvent)
  BY DEF Typed
<1>2. events'[e] = Tail(events[e]) /\ \A d \in Ends : d # e => events'[d] = events[d]
  BY DEF Typed, Take
<1>3. Tail(events[e]) \in Seq(LocalEvent)
  BY <1>1, ShiftsTail
<1>4. events' \in [Ends -> Seq(LocalEvent)]
  BY <1>3 DEF Typed, Take
<1>. QED
  BY <1>1, <1>2, <1>4, ShiftsTail

\* The engine sends frames of its own.
LEMMA EmitFacts ==
  ASSUME Typed, NEW e \in Ends, NEW frames \in Seq(PeerFrame), Emit(e, frames)
  PROVE  /\ link' \in [Ends -> Seq(PeerFrame)]
         /\ \A d \in Ends : d # e => link'[d] = link[d]
         /\ Shifts(link[e], link'[e], 0)
         /\ \A i \in DOMAIN link'[e] : i + 0 \notin DOMAIN link[e] =>
               i - Len(link[e]) \in DOMAIN frames /\ link'[e][i] = frames[i - Len(link[e])]
         /\ \A j \in DOMAIN frames :
               Len(link[e]) + j \in DOMAIN link'[e] /\ link'[e][Len(link[e]) + j] = frames[j]
<1>1. link[e] \in Seq(PeerFrame)
  BY DEF Typed
<1>2. link'[e] = link[e] \o frames /\ \A d \in Ends : d # e => link'[d] = link[d]
  BY DEF Typed, Emit
<1>3. link[e] \o frames \in Seq(PeerFrame)
  BY <1>1, ShiftsConcat
<1>4. link' \in [Ends -> Seq(PeerFrame)]
  BY <1>3 DEF Typed, Emit
<1>. QED
  BY <1>1, <1>2, <1>4, ShiftsConcat, SMTT(30)

\* The engine takes a frame of its peer and sends its own.
LEMMA AnswerFacts ==
  ASSUME Typed, NEW e \in Ends, NEW frames \in Seq(PeerFrame), Answer(e, frames),
         link[Peer(e)] # <<>>
  PROVE  /\ link' \in [Ends -> Seq(PeerFrame)]
         /\ Shifts(link[Peer(e)], link'[Peer(e)], 1)
         /\ \A i \in DOMAIN link'[Peer(e)] : i + 1 \in DOMAIN link[Peer(e)]
         /\ 1 \in DOMAIN link[Peer(e)] /\ Frame(e) = link[Peer(e)][1] /\ Frame(e) \in PeerFrame
         /\ Shifts(link[e], link'[e], 0)
         /\ \A i \in DOMAIN link'[e] : i + 0 \notin DOMAIN link[e] =>
               i - Len(link[e]) \in DOMAIN frames /\ link'[e][i] = frames[i - Len(link[e])]
         /\ \A j \in DOMAIN frames :
               Len(link[e]) + j \in DOMAIN link'[e] /\ link'[e][Len(link[e]) + j] = frames[j]
<1>. PICK p \in Ends : p = Peer(e) /\ p # e
  BY PeerFacts
<1>1. link[e] \in Seq(PeerFrame) /\ link[p] \in Seq(PeerFrame)
  BY DEF Typed
<1>2. link' = [link EXCEPT ![p] = Tail(@), ![e] = @ \o frames]
  BY DEF Answer
<1>3. link'[e] = link[e] \o frames /\ link'[p] = Tail(link[p])
  BY <1>2 DEF Typed
<1>4. link[e] \o frames \in Seq(PeerFrame) /\ Tail(link[p]) \in Seq(PeerFrame)
  BY <1>1, ShiftsConcat, ShiftsTail
<1>5. link' \in [Ends -> Seq(PeerFrame)]
  BY <1>2, <1>4 DEF Typed
<1>6. /\ Shifts(link[p], link'[p], 1) /\ \A i \in DOMAIN link'[p] : i + 1 \in DOMAIN link[p]
      /\ 1 \in DOMAIN link[p] /\ Frame(e) = link[p][1] /\ Frame(e) \in PeerFrame
  BY <1>1, <1>3, ShiftsTail DEF Frame
<1>7. PICK x \in Seq(PeerFrame) : x = link[e]
  BY <1>1
<1>8. /\ Shifts(x, x \o frames, 0)
      /\ \A i \in DOMAIN (x \o frames) : i + 0 \notin DOMAIN x =>
            i - Len(x) \in DOMAIN frames /\ (x \o frames)[i] = frames[i - Len(x)]
      /\ \A j \in DOMAIN frames :
            Len(x) + j \in DOMAIN (x \o frames) /\ (x \o frames)[Len(x) + j] = frames[j]
  BY ShiftsConcat, SMTT(20)
<1>9. link'[e] = x \o frames
  BY <1>3, <1>7
<1>10. /\ Shifts(x, link'[e], 0)
       /\ \A i \in DOMAIN link'[e] : i + 0 \notin DOMAIN x =>
             i - Len(x) \in DOMAIN frames /\ link'[e][i] = frames[i - Len(x)]
       /\ \A j \in DOMAIN frames :
             Len(x) + j \in DOMAIN link'[e] /\ link'[e][Len(x) + j] = frames[j]
  BY <1>8, <1>9
<1>. QED
  BY <1>5, <1>6, <1>7, <1>10

\* What the links hold after a frame was taken without an answer.
LEMMA TakenFrame ==
  ASSUME Typed, NEW e \in Ends, Answer(e, <<>>), link[Peer(e)] # <<>>
  PROVE  /\ link' \in [Ends -> Seq(PeerFrame)] /\ link'[e] = link[e]
         /\ Shifts(link[Peer(e)], link'[Peer(e)], 1)
         /\ \A i \in DOMAIN link'[Peer(e)] : i + 1 \in DOMAIN link[Peer(e)]
         /\ 1 \in DOMAIN link[Peer(e)] /\ Frame(e) = link[Peer(e)][1] /\ Frame(e) \in PeerFrame
<1>1. PICK none \in Seq(PeerFrame) : none = <<>>
  BY EmptySequence
<1>2. Answer(e, none)
  BY <1>1
<1>3. link'[e] = link[e] \o none
  BY <1>2, PeerFacts DEF Answer, Typed
<1>4. link[e] \in Seq(PeerFrame)
  BY DEF Typed
<1>5. link'[e] = link[e]
  BY <1>1, <1>3, <1>4, SMTT(20)
<1>. QED
  BY <1>2, <1>5, AnswerFacts

-----------------------------------------------------------------------------
(* Steps that change one connection in a tunnel, and at most forget others. *)

\* Only t changes, and it remains who it is; 0 stands for no connection.
Touches(t) ==
    /\ DOMAIN conns' = DOMAIN conns
    /\ \A u \in DOMAIN conns : u # t => conns'[u] = conns[u]
    /\ t \in DOMAIN conns =>
          /\ conns'[t].end = conns[t].end /\ conns'[t].role = conns[t].role
          /\ conns'[t].id = conns[t].id /\ conns'[t].mate = conns[t].mate
          /\ conns[t].mate # 0 /\ conns[t].reader # "none"
          /\ conns'[t].reader # "none" /\ conns'[t].writer # "none"

\* The tables of d lose entries at most.
Restricts(d) ==
    /\ state'[d].pending = state[d].pending /\ state'[d].max = state[d].max
    /\ state'[d].next_conn_id = state[d].next_conn_id
    /\ \A k \in DOMAIN state'[d].destinations :
          k \in DOMAIN state[d].destinations /\ state'[d].destinations[k] = state[d].destinations[k]
    /\ \A k \in DOMAIN state'[d].source_sockets :
          k \in DOMAIN state[d].source_sockets /\ state'[d].source_sockets[k] = state[d].source_sockets[k]
    /\ \A k \in DOMAIN state'[d].source_conn_ids :
          k \in DOMAIN state[d].source_conn_ids /\ state'[d].source_conn_ids[k] = state[d].source_conn_ids[k]

\* Everybody is who they were.
LEMMA SameIdentity ==
  ASSUME MateInv, NEW t, Touches(t)
  PROVE  \A u \in DOMAIN conns :
            /\ conns'[u].end = conns[u].end /\ conns'[u].role = conns[u].role
            /\ conns'[u].id = conns[u].id /\ conns'[u].mate = conns[u].mate
            /\ conns[u].mate # 0 => Sid(u)' = Sid(u)
            /\ conns'[u].reader = "none" <=> conns[u].reader = "none"
<1>1. ASSUME NEW u \in DOMAIN conns
      PROVE  /\ conns'[u].end = conns[u].end /\ conns'[u].role = conns[u].role
             /\ conns'[u].id = conns[u].id /\ conns'[u].mate = conns[u].mate
             /\ conns'[u].reader = "none" <=> conns[u].reader = "none"
  BY DEF Touches
<1>2. ASSUME NEW u \in DOMAIN conns, conns[u].mate # 0
      PROVE  Sid(u)' = Sid(u)
  <2>1. conns[u].mate \in DOMAIN conns
    BY <1>2 DEF MateInv, MateOK
  <2>. QED
    BY <2>1, <1>1 DEF Sid
<1>. QED
  BY <1>1, <1>2

\* No two sources of an end are in a tunnel of the same socket id.
LEMMA SidUnique ==
  ASSUME Typed, MateInv, IdInv, NEW t \in DOMAIN conns, NEW u \in DOMAIN conns,
         conns[t].end = conns[u].end, conns[t].role = "source", conns[u].role = "source",
         conns[t].mate # 0, conns[u].mate # 0, Sid(t) = Sid(u)
  PROVE  t = u
<1>1. /\ conns[t].mate \in DOMAIN conns /\ conns[conns[t].mate].mate = t
      /\ conns[conns[t].mate].end = Peer(conns[t].end)
  BY DEF MateInv, MateOK
<1>2. /\ conns[u].mate \in DOMAIN conns /\ conns[conns[u].mate].mate = u
      /\ conns[conns[u].mate].end = Peer(conns[u].end)
  BY DEF MateInv, MateOK
<1>3. conns[conns[t].mate].id = conns[conns[u].mate].id
  BY DEF Sid
<1>4. conns[conns[t].mate].id # 0
  BY <1>1, ConnTypes DEF MateInv, MateOK
<1>5. conns[t].mate = conns[u].mate
  BY <1>1, <1>2, <1>3, <1>4 DEF IdInv
<1>. QED
  BY <1>1, <1>2, <1>5

\* Where a registered connection is found.
LEMMA Found ==
  ASSUME Typed, TableInv, NEW t \in DOMAIN conns, Registered(t)
  PROVE  /\ conns[t].mate # 0 /\ conns[t].writer \in {"on", "failed"}
         /\ conns[t].role = "destination" => state[conns[t].end].destinations[conns[t].id] = t
         /\ conns[t].role # "destination" =>
               /\ state[conns[t].end].source_sockets[Sid(t)] = t
               /\ Sending(t)
<1>. conns[t].end \in Ends /\ conns[t].role \in Role
  BY ConnTypes
<1>1. CASE conns[t].role = "destination"
  <2>1. conns[t].id \in DOMAIN state[conns[t].end].destinations
    BY <1>1 DEF Registered
  <2>2. PICK u : /\ u = state[conns[t].end].destinations[conns[t].id]
                 /\ Is(u, conns[t].end, "destination", conns[t].id)
                 /\ conns[u].writer \in {"on", "failed"}
    BY <2>1 DEF TableInv, DestinationInv
  <2>3. conns[t].mate # 0 /\ conns[t].id # 0
    BY <1>1 DEF TableInv, ConnInv, ConnOK, MateInv, MateOK
  <2>4. u = t
    BY <2>2, <2>3 DEF TableInv, IdInv, Is
  <2>. QED
    BY <1>1, <2>2, <2>3, <2>4
<1>2. CASE conns[t].role # "destination"
  <2>1. conns[t].mate # 0 /\ Sid(t) \in DOMAIN state[conns[t].end].source_sockets /\ conns[t].role = "source"
    BY <1>2 DEF Registered, Role
  <2>2. PICK u : /\ u = state[conns[t].end].source_sockets[Sid(t)]
                 /\ Is(u, conns[t].end, "source", conns[u].id) /\ conns[u].mate # 0 /\ Sid(u) = Sid(t)
                 /\ conns[u].id \in DOMAIN state[conns[t].end].source_conn_ids
                 /\ conns[u].writer \in {"on", "failed"}
    BY <2>1 DEF TableInv, SourceInv
  <2>3. u = t
    BY <2>1, <2>2, SidUnique DEF TableInv, Is
  <2>. QED
    BY <1>2, <2>1, <2>2, <2>3 DEF Sending
<1>. QED
  BY <1>1, <1>2

\* A step that touches one connection in a tunnel and at most removes entries
\* keeps the tables right, if no live connection loses its entries.
LEMMA ShrinkKeeps ==
  ASSUME Typed, Typed', TableInv, NEW t, Touches(t),
         \A d \in Ends : Restricts(d),
         t \in DOMAIN conns => (conns'[t].reader = "on" => conns[t].reader = "on"),
         t \in DOMAIN conns => (Registered(t)' => conns'[t].writer \in {"on", "failed"}),
         \A u \in DOMAIN conns : conns'[u].reader = "on" =>
            (Registered(u) => Registered(u)') /\ (Sending(u) => Sending(u)'),
         \A u \in DOMAIN conns : conns[u].role = "source" /\ Registered(u)' /\ Sending(u) => Sending(u)'
  PROVE  TableInv'
<1>. USE DEF TableInv
<1>1. \A u \in DOMAIN conns :
         /\ conns'[u].end = conns[u].end /\ conns'[u].role = conns[u].role
         /\ conns'[u].id = conns[u].id /\ conns'[u].mate = conns[u].mate
         /\ conns[u].mate # 0 => Sid(u)' = Sid(u)
         /\ conns'[u].reader = "none" <=> conns[u].reader = "none"
  BY SameIdentity
<1>2. DOMAIN conns' = DOMAIN conns
  BY DEF Touches
<1>3. \A u \in DOMAIN conns : conns[u].end \in Ends /\ conns[u].role \in Role /\ u # 0
  BY ConnTypes
<1>4. ConnInv'
  <2>1. ASSUME NEW u \in DOMAIN conns, u # t
        PROVE  ConnOK(u)'
    <3>1. conns'[u] = conns[u] /\ state'[conns[u].end].next_conn_id = state[conns[u].end].next_conn_id
      BY <1>3, <2>1 DEF Touches, Restricts
    <3>2. ConnOK(u)
      BY DEF ConnInv
    <3>. QED
      BY <3>1, <3>2, SMTT(20) DEF ConnOK
  <2>2. ASSUME t \in DOMAIN conns
        PROVE  ConnOK(t)'
    <3>1. state'[conns[t].end].next_conn_id = state[conns[t].end].next_conn_id
      BY <1>3, <2>2 DEF Restricts
    <3>2. ConnOK(t)
      BY <2>2 DEF ConnInv
    <3>3. /\ conns'[t].end = conns[t].end /\ conns'[t].role = conns[t].role
          /\ conns'[t].id = conns[t].id /\ conns'[t].mate = conns[t].mate
          /\ conns[t].mate # 0 /\ conns[t].reader # "none"
          /\ conns'[t].reader # "none" /\ conns'[t].writer # "none"
      BY <2>2 DEF Touches
    <3>. QED
      BY <3>1, <3>2, <3>3 DEF ConnOK
  <2>. QED
    BY <1>2, <2>1, <2>2 DEF ConnInv
<1>5. MateInv'
  <2>1. ASSUME NEW u \in DOMAIN conns, conns'[u].mate # 0
        PROVE  MateOK(u)'
    <3>1. MateOK(u) /\ conns[u].mate # 0
      BY <1>1, <2>1 DEF MateInv
    <3>2. conns[u].mate \in DOMAIN conns
      BY <3>1 DEF MateOK
    <3>. QED
      BY <1>1, <1>2, <3>1, <3>2 DEF MateOK
  <2>. QED
    BY <1>2, <2>1 DEF MateInv, MateOK
<1>6. IdInv'
  BY <1>1, <1>2, SMTT(20) DEF IdInv
<1>7. \A u, e, role, id : Is(u, e, role, id) => Is(u, e, role, id)'
  BY <1>1, <1>2 DEF Is
<1>8. PendingInv'
  <2>1. ASSUME NEW e \in Ends, NEW id \in DOMAIN state'[e].pending
        PROVE  \E u : /\ u = state'[e].pending[id] /\ Is(u, e, "source", id)' /\ id # 0
                      /\ conns'[u].reader = "none"
    <3>1. PICK u : u = state[e].pending[id] /\ u = state'[e].pending[id] /\ id \in DOMAIN state[e].pending
      BY <2>1 DEF Restricts
    <3>2. Is(u, e, "source", id) /\ id # 0 /\ conns[u].reader = "none"
      BY <3>1 DEF PendingInv
    <3>3. Is(u, e, "source", id)' /\ u \in DOMAIN conns
      BY <1>7, <3>2, SMTT(20) DEF Is
    <3>. QED
      BY <1>1, <3>1, <3>2, <3>3
  <2>. QED
    BY <2>1, SMTT(20) DEF PendingInv
<1>9. \A u \in DOMAIN conns : Registered(u)' => Registered(u)
  BY <1>1, <1>3, SMTT(20) DEF Registered, Restricts
<1>10. \A u \in DOMAIN conns : Registered(u)' => conns'[u].writer \in {"on", "failed"}
  <2>1. ASSUME NEW u \in DOMAIN conns, Registered(u)', u # t
        PROVE  conns'[u].writer \in {"on", "failed"}
    BY <1>9, <2>1, Found DEF Touches
  <2>. QED
    BY <2>1
<1>11. DestinationInv'
  <2>1. ASSUME NEW e \in Ends, NEW sid \in DOMAIN state'[e].destinations
        PROVE  \E u : /\ u = state'[e].destinations[sid] /\ Is(u, e, "destination", sid)'
                      /\ conns'[u].writer \in {"on", "failed"}
    <3>1. PICK u : /\ u = state[e].destinations[sid] /\ u = state'[e].destinations[sid]
                   /\ sid \in DOMAIN state[e].destinations
      BY <2>1 DEF Restricts
    <3>2. Is(u, e, "destination", sid)
      BY <3>1 DEF DestinationInv
    <3>3. u \in DOMAIN conns /\ Registered(u)'
      BY <1>1, <2>1, <3>2 DEF Is, Registered
    <3>4. Is(u, e, "destination", sid)'
      BY <1>7, <3>2
    <3>. QED
      BY <1>10, <3>1, <3>3, <3>4
  <2>. QED
    BY <2>1 DEF DestinationInv
<1>12. SourceInv'
  <2>1. ASSUME NEW e \in Ends, NEW sid \in DOMAIN state'[e].source_sockets
        PROVE  \E u : /\ u = state'[e].source_sockets[sid]
                      /\ Is(u, e, "source", conns[u].id)' /\ conns'[u].mate # 0 /\ Sid(u)' = sid
                      /\ conns'[u].id \in DOMAIN state'[e].source_conn_ids
                      /\ conns'[u].writer \in {"on", "failed"}
    <3>1. PICK u : /\ u = state[e].source_sockets[sid] /\ u = state'[e].source_sockets[sid]
                   /\ sid \in DOMAIN state[e].source_sockets
      BY <2>1 DEF Restricts
    <3>. /\ Is(u, e, "source", conns[u].id) /\ conns[u].mate # 0 /\ Sid(u) = sid
         /\ conns[u].id \in DOMAIN state[e].source_conn_ids
      BY <3>1 DEF SourceInv
    <3>2. u \in DOMAIN conns /\ conns[u].end = e /\ conns[u].role = "source"
      BY DEF Is
    <3>3. conns'[u].mate # 0 /\ Sid(u)' = sid /\ conns'[u].role = "source" /\ conns'[u].end = e
      BY <1>1, <3>2
    <3>4. Registered(u)' /\ Sending(u)
      BY <2>1, <3>2, <3>3 DEF Registered, Sending
    <3>5. Sending(u)'
      BY <3>2, <3>4
    <3>6. conns'[u].id \in DOMAIN state'[e].source_conn_ids
      BY <3>3, <3>5 DEF Sending
    <3>7. Is(u, e, "source", conns[u].id)'
      BY <1>2, <3>2, <3>3 DEF Is
    <3>. QED
      BY <1>10, <3>1, <3>2, <3>3, <3>4, <3>6, <3>7
  <2>. QED
    BY <2>1, SMTT(20) DEF SourceInv
<1>13. KnownInv'
  <2>1. ASSUME NEW e \in Ends, NEW id \in DOMAIN state'[e].source_conn_ids
        PROVE  \E u \in DOMAIN conns' :
                  /\ Is(u, e, "source", id)' /\ conns'[u].mate # 0 /\ conns'[u].reader # "none"
                  /\ state'[e].source_conn_ids[id] = Sid(u)'
    <3>1. /\ id \in DOMAIN state[e].source_conn_ids
          /\ state'[e].source_conn_ids[id] = state[e].source_conn_ids[id]
      BY <2>1 DEF Restricts
    <3>2. PICK u \in DOMAIN conns :
             /\ Is(u, e, "source", id) /\ conns[u].mate # 0 /\ conns[u].reader # "none"
             /\ state[e].source_conn_ids[id] = Sid(u)
      BY <3>1 DEF KnownInv
    <3>3. Is(u, e, "source", id)'
      BY <1>7, <3>2
    <3>. QED
      BY <1>1, <1>2, <3>1, <3>2, <3>3, SMTT(20)
  <2>. QED
    BY <2>1 DEF KnownInv
<1>14. LiveInv'
  <2>1. ASSUME NEW u \in DOMAIN conns, conns'[u].reader = "on"
        PROVE  Registered(u)' /\ Sending(u)'
    <3>1. conns[u].reader = "on"
      BY <2>1 DEF Touches
    <3>. QED
      BY <2>1, <3>1 DEF LiveInv
  <2>. QED
    BY <1>2, <2>1 DEF LiveInv
<1>15. NumberInv'
  <2>1. ASSUME NEW e \in Ends, NEW id \in 1 .. state'[e].next_conn_id - 1
        PROVE  \E u \in DOMAIN conns' : Is(u, e, "source", id)'
    <3>1. PICK u \in DOMAIN conns : Is(u, e, "source", id)
      BY <2>1 DEF NumberInv, Restricts
    <3>2. Is(u, e, "source", id)'
      BY <1>7, <3>1
    <3>. QED
      BY <1>2, <3>2
  <2>. QED
    BY <2>1 DEF NumberInv, Restricts
<1>. QED
  BY <1>4, <1>5, <1>6, <1>8, <1>11, <1>12, <1>13, <1>14, <1>15

\* As long as nobody changes identity and only the items of streams come and go,
\* requests stay as they were.
LEMMA AskKeeps ==
  ASSUME Typed, Typed', MateInv, PendingInv, AskInv, NEW t, Touches(t),
         \A d \in Ends : state'[d].pending = state[d].pending,
         NEW k \in [Ends -> {0, 1}], NEW q \in [Ends -> {0, 1}],
         \A d \in Ends : Shifts(link[d], link'[d], k[d]) /\ Shifts(events[d], events'[d], q[d]),
         \A d \in Ends : \A i \in DOMAIN link[d] : i <= k[d] => FrameItem(link[d][i]),
         \A d \in Ends : \A i \in DOMAIN link'[d] : i + k[d] \notin DOMAIN link[d] => FrameItem(link'[d][i]),
         \A d \in Ends : \A i \in DOMAIN events[d] : i <= q[d] => EventItem(events[d][i]),
         \A d \in Ends : \A i \in DOMAIN events'[d] : i + q[d] \notin DOMAIN events[d] => EventItem(events'[d][i])
  PROVE  AskInv'
<1>. USE DEF AskInv
<1>1. \A u \in DOMAIN conns :
         /\ conns'[u].end = conns[u].end /\ conns'[u].role = conns[u].role
         /\ conns'[u].id = conns[u].id /\ conns'[u].mate = conns[u].mate
         /\ conns[u].mate # 0 => Sid(u)' = Sid(u)
         /\ conns'[u].reader = "none" <=> conns[u].reader = "none"
  BY SameIdentity
<1>2. DOMAIN conns' = DOMAIN conns
  BY DEF Touches
<1>3. \A d \in Ends : Peer(d) \in Ends
  BY PeerFacts
<1>4. \A d \in Ends : /\ DOMAIN link[d] \subseteq Nat \ {0} /\ DOMAIN link'[d] \subseteq Nat \ {0}
                      /\ DOMAIN events[d] \subseteq Nat \ {0} /\ DOMAIN events'[d] \subseteq Nat \ {0}
  <2>1. ASSUME NEW d \in Ends
        PROVE  /\ link[d] \in Seq(PeerFrame) /\ link'[d] \in Seq(PeerFrame)
               /\ events[d] \in Seq(LocalEvent) /\ events'[d] \in Seq(LocalEvent)
    BY DEF Typed
  <2>. QED
    BY <2>1, SMTT(20)
<1>5. ASSUME NEW d \in Ends, NEW i \in Nat, NEW fd \in Nat, NEW h \in {"REQUEST", "RESPONSE"}, Asks(d, i, h, fd)'
      PROVE  i + k[d] \in Nat /\ Asks(d, i + k[d], h, fd) /\ link'[d][i] = link[d][i + k[d]]
  <2>1. i \in DOMAIN link'[d] /\ link'[d][i].h = h /\ link'[d][i].id = fd
    BY <1>5 DEF Asks
  <2>2. i + k[d] \in DOMAIN link[d]
    BY <2>1 DEF FrameItem
  <2>. QED
    BY <2>1, <2>2, SMTT(20) DEF Asks, Shifts
<1>6. ASSUME NEW d \in Ends, NEW i \in Nat, NEW fd \in Nat, NEW h \in {"REQUEST", "RESPONSE"}, Asks(d, i, h, fd)
      PROVE  \E j \in Nat : Asks(d, j, h, fd)'
  <2>1. i \in DOMAIN link[d] /\ link[d][i].h = h /\ link[d][i].id = fd
    BY <1>6 DEF Asks
  <2>2. i > k[d]
    BY <1>4, <2>1, SMTT(20) DEF FrameItem
  <2>3. PICK j \in Nat : j = i - k[d]
    BY <2>2, SMTT(20)
  <2>4. j \in DOMAIN link'[d] /\ j + k[d] = i
    BY <2>1, <2>2, <2>3, SMTT(20) DEF Shifts
  <2>5. link'[d][j] = link[d][i]
    BY <2>1, <2>4 DEF Shifts
  <2>. QED
    BY <2>1, <2>4, <2>5 DEF Asks
<1>7. AcceptInv'
  <2>1. ASSUME NEW e \in Ends, NEW u \in Nat, NEW i \in Nat, Arrives(e, i, u)'
        PROVE  i + q[e] \in Nat /\ Arrives(e, i + q[e], u)
    <3>1. i \in DOMAIN events'[e] /\ events'[e][i].k = "accepted" /\ events'[e][i].id = u
      BY <2>1 DEF Arrives
    <3>2. i + q[e] \in DOMAIN events[e]
      BY <3>1 DEF EventItem
    <3>. QED
      BY <3>1, <3>2, SMTT(20) DEF Arrives, Shifts
  <2>2. ASSUME NEW e \in Ends, NEW u \in Nat, NEW i \in Nat, Arrives(e, i, u)',
               NEW j \in Nat, Arrives(e, j, u)'
        PROVE  i = j
    <3>1. i + q[e] = j + q[e]
      BY <2>1, <2>2, SMTT(20) DEF AcceptInv
    <3>. QED
      BY <3>1, SMTT(20)
  <2>3. ASSUME NEW e \in Ends, NEW u \in Nat, NEW i \in Nat, Arrives(e, i, u)'
        PROVE  Is(u, e, "source", 0)'
    <3>1. Is(u, e, "source", 0)
      BY <2>1, <2>3, SMTT(20) DEF AcceptInv
    <3>. QED
      BY <3>1, <1>1, <1>2 DEF Is
  <2>. QED
    BY <2>2, <2>3 DEF AcceptInv
<1>8. RequestInv'
  <2>1. ASSUME NEW e \in Ends, NEW fd \in Nat, NEW i \in Nat, Asks(e, i, "REQUEST", fd)'
        PROVE  /\ fd \in DOMAIN state'[e].pending /\ conns'[state'[e].pending[fd]].mate = 0
               /\ \A j \in Nat : Asks(e, j, "REQUEST", fd)' => i = j
               /\ \A j \in Nat : ~(Asks(Peer(e), j, "RESPONSE", fd)')
    <3>1. i + k[e] \in Nat /\ Asks(e, i + k[e], "REQUEST", fd)
      BY <1>5, <2>1
    <3>2. fd \in DOMAIN state[e].pending /\ conns[state[e].pending[fd]].mate = 0
      BY <3>1 DEF RequestInv
    <3>3. state[e].pending[fd] \in DOMAIN conns
      BY <3>2 DEF PendingInv, Is
    <3>4. ASSUME NEW j \in Nat, Asks(e, j, "REQUEST", fd)'
          PROVE  i = j
      <4>1. j + k[e] \in Nat /\ Asks(e, j + k[e], "REQUEST", fd)
        BY <1>5, <3>4
      <4>2. i + k[e] = j + k[e]
        BY <3>1, <4>1 DEF RequestInv
      <4>. QED
        BY <4>2, SMTT(20)
    <3>5. ASSUME NEW j \in Nat, Asks(Peer(e), j, "RESPONSE", fd)'
          PROVE  FALSE
      <4>1. j + k[Peer(e)] \in Nat /\ Asks(Peer(e), j + k[Peer(e)], "RESPONSE", fd)
        BY <1>3, <1>5, <3>5
      <4>. QED
        BY <3>1, <4>1, SMTT(20) DEF RequestInv
    <3>. QED
      BY <1>1, <3>2, <3>3, <3>4, <3>5
  <2>. QED
    BY <2>1 DEF RequestInv
<1>9. ResponseInv'
  <2>1. ASSUME NEW e \in Ends, NEW fd \in Nat, NEW i \in Nat, Asks(Peer(e), i, "RESPONSE", fd)'
        PROVE  \E u, sid :
                  /\ sid = link'[Peer(e)][i].sid /\ u = state'[e].pending[fd]
                  /\ fd \in DOMAIN state'[e].pending
                  /\ sid = 0 <=> conns'[u].mate = 0
                  /\ sid # 0 => sid = Sid(u)'
                  /\ \A j \in Nat : Asks(Peer(e), j, "RESPONSE", fd)' => i = j
    <3>. PICK p \in Ends : p = Peer(e)
      BY <1>3
    <3>1. i + k[p] \in Nat /\ Asks(p, i + k[p], "RESPONSE", fd) /\ link'[p][i] = link[p][i + k[p]]
      BY <1>5, <2>1
    <3>2. PICK u, sid :
            /\ sid = link[p][i + k[p]].sid /\ u = state[e].pending[fd]
            /\ fd \in DOMAIN state[e].pending
            /\ sid = 0 <=> conns[u].mate = 0
            /\ sid # 0 => sid = Sid(u)
      BY <3>1, SMTT(20) DEF ResponseInv
    <3>3. u \in DOMAIN conns
      BY <3>2 DEF PendingInv, Is
    <3>4. ASSUME NEW j \in Nat, Asks(p, j, "RESPONSE", fd)'
          PROVE  i = j
      <4>1. j + k[p] \in Nat /\ Asks(p, j + k[p], "RESPONSE", fd)
        BY <1>5, <3>4
      <4>2. i + k[p] = j + k[p]
        BY <3>1, <4>1 DEF ResponseInv
      <4>. QED
        BY <4>2, SMTT(20)
    <3>5. conns'[u].mate = conns[u].mate /\ (conns[u].mate # 0 => Sid(u)' = Sid(u))
      BY <1>1, <3>3
    <3>. QED
      BY <3>1, <3>2, <3>4, <3>5
  <2>. QED
    BY <2>1, SMTT(20) DEF ResponseInv
<1>10. WaitingInv'
  <2>1. ASSUME NEW u \in DOMAIN conns, conns'[u].mate # 0, conns'[u].reader = "none"
        PROVE  \E i \in Nat : Asks(Peer(conns[u].end), i, "RESPONSE", conns[u].id)'
    <3>1. conns[u].end \in Ends /\ conns[u].id \in Nat /\ conns'[u].end = conns[u].end /\ conns'[u].id = conns[u].id
      BY <1>1, ConnTypes
    <3>2. PICK p \in Ends, fd \in Nat : p = Peer(conns[u].end) /\ fd = conns[u].id
      BY <1>3, <3>1
    <3>3. PICK i \in Nat : Asks(p, i, "RESPONSE", fd)
      BY <1>1, <2>1, <3>2 DEF WaitingInv
    <3>4. PICK j \in Nat : Asks(p, j, "RESPONSE", fd)'
      BY <1>6, <3>3
    <3>. QED
      BY <3>1, <3>2, <3>4
  <2>. QED
    BY <1>2, <2>1 DEF WaitingInv
<1>. QED
  BY <1>7, <1>8, <1>9, <1>10

-----------------------------------------------------------------------------
(* Removing a connection. *)

\* What TeardownIn does when a table has the key.
LEMMA TeardownInFacts ==
  ASSUME Typed, NEW f, NEW k, k \in DOMAIN f => f[k] \in DOMAIN conns, conns' = TeardownIn(f, k)
  PROVE  /\ conns' \in Seq(Conn) /\ DOMAIN conns' = DOMAIN conns
         /\ k \in DOMAIN f => conns'[f[k]] = Teardown(conns[f[k]])
         /\ \A u \in DOMAIN conns : k \notin DOMAIN f \/ u # f[k] => conns'[u] = conns[u]
<1>. conns \in Seq(Conn)
  BY DEF Typed
<1>1. CASE k \in DOMAIN f
  <2>1. PICK t \in DOMAIN conns : t = f[k]
    BY <1>1
  <2>2. Teardown(conns[t]) \in Conn
    BY ConnTypes, TeardownFacts
  <2>3. conns' = [conns EXCEPT ![t] = Teardown(conns[t])]
    BY <1>1, <2>1 DEF TeardownIn
  <2>. QED
    BY <1>1, <2>1, <2>2, <2>3, SMTT(20)
<1>2. CASE k \notin DOMAIN f
  BY <1>2 DEF TeardownIn
<1>. QED
  BY <1>1, <1>2

\* A connection that was torn down.
LEMMA TornDown ==
  ASSUME Typed, NEW t \in DOMAIN conns, conns'[t] = Teardown(conns[t])
  PROVE  /\ conns'[t].end = conns[t].end /\ conns'[t].role = conns[t].role
         /\ conns'[t].id = conns[t].id /\ conns'[t].mate = conns[t].mate
         /\ conns'[t].read = conns[t].read /\ conns'[t].queue = conns[t].queue
         /\ conns'[t].got = conns[t].got
         /\ conns[t].reader # "none" => conns'[t].reader # "none"
         /\ conns'[t].reader # "on" /\ conns'[t].writer # "none"
         /\ conns'[t].reader = (IF conns[t].reader = "on" THEN "off" ELSE conns[t].reader)
         /\ conns'[t].writer = (IF conns[t].writer = "failed" THEN "failed"
                                ELSE IF conns[t].queue = <<>> THEN "off" ELSE "draining")
<1>. PICK c \in Conn : c = conns[t]
  BY ConnTypes
<1>1. conns'[t] = Teardown(c)
  OBVIOUS
<1>. QED
  BY <1>1, TeardownFacts, SMTT(20)

\* The step removes connection t from its table and tears it down.
Forgets(t) ==
    /\ Touches(t) /\ \A d \in Ends : Restricts(d)
    /\ t \in DOMAIN conns => conns'[t] = Teardown(conns[t]) /\ ~(Registered(t)')
    /\ \A u \in DOMAIN conns : u # t => (Registered(u) => Registered(u)')

\* A destination torn down is forgotten, with its table entry.
LEMMA ForgetDestination ==
  ASSUME Typed, TableInv, NEW e \in Ends, NEW sid,
         events' \in [Ends -> Seq(LocalEvent)], link' \in [Ends -> Seq(PeerFrame)],
         conns' = TeardownIn(state[e].destinations, sid),
         state' = [state EXCEPT ![e].destinations = Remove(@, sid)]
  PROVE  /\ Typed' /\ TableInv'
         /\ \E t : /\ Forgets(t)
                  /\ t = IF sid \in DOMAIN state[e].destinations THEN state[e].destinations[sid] ELSE 0
<1>. DEFINE f == state[e].destinations
<1>1. /\ \A d \in Ends : d # e => state'[d] = state[d]
      /\ state'[e].pending = state[e].pending /\ state'[e].max = state[e].max
      /\ state'[e].next_conn_id = state[e].next_conn_id
      /\ state'[e].source_sockets = state[e].source_sockets
      /\ state'[e].source_conn_ids = state[e].source_conn_ids
      /\ state'[e].destinations = Remove(f, sid)
  BY StateTypes DEF Typed, EngineState
<1>2. /\ f \in Tables /\ Remove(f, sid) \in Tables /\ DOMAIN Remove(f, sid) = DOMAIN f \ {sid}
      /\ \A x \in DOMAIN f : x # sid => Remove(f, sid)[x] = f[x]
  BY StateTypes, Removed
<1>3. state' \in [Ends -> EngineState]
  BY <1>2, StateTypes DEF Typed, EngineState
<1>. HIDE DEF f
<1>4. ASSUME sid \in DOMAIN f
      PROVE  /\ f[sid] \in DOMAIN conns /\ conns[f[sid]].end = e /\ conns[f[sid]].role = "destination"
             /\ conns[f[sid]].id = sid /\ conns[f[sid]].mate # 0 /\ conns[f[sid]].writer # "none"
             /\ conns[f[sid]].reader # "none"
  <2>1. Is(f[sid], e, "destination", sid) /\ conns[f[sid]].writer \in {"on", "failed"}
    BY <1>4 DEF f, TableInv, DestinationInv
  <2>2. ConnOK(f[sid])
    BY <2>1 DEF TableInv, ConnInv, Is
  <2>. QED
    BY <2>1, <2>2 DEF Is, ConnOK
<1>5. /\ conns' \in Seq(Conn) /\ DOMAIN conns' = DOMAIN conns
      /\ sid \in DOMAIN f => conns'[f[sid]] = Teardown(conns[f[sid]])
      /\ \A u \in DOMAIN conns : sid \notin DOMAIN f \/ u # f[sid] => conns'[u] = conns[u]
  <2>1. conns' = TeardownIn(f, sid) /\ (sid \in DOMAIN f => f[sid] \in DOMAIN conns)
    BY <1>4 DEF f
  <2>. QED
    BY <2>1, TeardownInFacts, SMTT(20)
<1>6. Typed'
  BY <1>3, <1>5 DEF Typed
<1>7. PICK t : t = IF sid \in DOMAIN f THEN f[sid] ELSE 0
  OBVIOUS
<1>8. Touches(t)
  <2>1. CASE sid \in DOMAIN f
    <3>1. conns[t] \in Conn /\ conns'[t] = Teardown(conns[t])
      BY <1>4, <1>5, <1>7, <2>1, ConnTypes
    <3>2. /\ conns'[t].end = conns[t].end /\ conns'[t].role = conns[t].role
          /\ conns'[t].id = conns[t].id /\ conns'[t].mate = conns[t].mate
          /\ conns[t].reader # "none" => conns'[t].reader # "none"
          /\ conns'[t].writer # "none"
      BY <1>4, <1>7, <2>1, <3>1, TornDown
    <3>3. /\ conns[t].mate # 0 /\ conns[t].reader # "none"
          /\ \A u \in DOMAIN conns : u # t => conns'[u] = conns[u]
      BY <1>4, <1>5, <1>7, <2>1
    <3>. QED
      BY <1>5, <3>2, <3>3 DEF Touches
  <2>2. CASE sid \notin DOMAIN f
    BY <1>5, <1>7, <2>2, ConnTypes DEF Touches
  <2>. QED
    BY <2>1, <2>2
<1>9. \A d \in Ends : Restricts(d)
  BY <1>1, <1>2, SMTT(20) DEF Restricts, f
<1>10. \A u \in DOMAIN conns :
         /\ conns'[u].end = conns[u].end /\ conns'[u].role = conns[u].role
         /\ conns'[u].id = conns[u].id /\ conns'[u].mate = conns[u].mate
         /\ conns[u].mate # 0 => Sid(u)' = Sid(u)
         /\ conns[u].end \in Ends
  BY <1>8, SameIdentity, ConnTypes DEF TableInv
<1>11. ASSUME sid \in DOMAIN f
       PROVE  ~(Registered(t)')
  <2>1. t = f[sid] /\ t \in DOMAIN conns /\ conns[t].end = e /\ conns[t].role = "destination" /\ conns[t].id = sid
    BY <1>4, <1>7, <1>11
  <2>2. conns'[t].end = e /\ conns'[t].role = "destination" /\ conns'[t].id = sid
    BY <1>10, <2>1
  <2>3. sid \notin DOMAIN state'[e].destinations
    BY <1>1, <1>2
  <2>. QED
    BY <2>2, <2>3 DEF Registered
<1>12. ASSUME NEW u \in DOMAIN conns, u # t
       PROVE  (Registered(u) => Registered(u)') /\ (Sending(u) => Sending(u)')
  <2>1. ASSUME Registered(u), conns[u].role = "destination", conns[u].end = e
        PROVE  conns[u].id \in DOMAIN f \ {sid}
    BY <1>7, <1>12, <2>1, Found DEF Registered, f
  <2>2. CASE conns[u].role = "destination" /\ conns[u].end = e
    <3>1. Registered(u) => conns[u].id \in DOMAIN state'[e].destinations
      BY <1>1, <1>2, <2>1, <2>2
    <3>2. conns'[u].role = "destination" /\ conns'[u].end = e /\ conns'[u].id = conns[u].id
      BY <1>10, <2>2
    <3>. QED
      BY <2>2, <3>1, <3>2 DEF Registered, Sending
  <2>3. CASE conns[u].role = "destination" /\ conns[u].end # e
    <3>1. state'[conns[u].end].destinations = state[conns[u].end].destinations
      BY <1>1, <1>10, <2>3
    <3>2. conns'[u].role = "destination" /\ conns'[u].end = conns[u].end /\ conns'[u].id = conns[u].id
      BY <1>10, <2>3
    <3>. QED
      BY <2>3, <3>1, <3>2 DEF Registered, Sending
  <2>4. CASE conns[u].role # "destination"
    <3>1. /\ state'[conns[u].end].source_sockets = state[conns[u].end].source_sockets
          /\ state'[conns[u].end].source_conn_ids = state[conns[u].end].source_conn_ids
      BY <1>1, <1>10
    <3>2. /\ conns'[u].role = conns[u].role /\ conns'[u].end = conns[u].end
          /\ conns'[u].id = conns[u].id /\ conns'[u].mate = conns[u].mate
          /\ conns[u].mate # 0 => Sid(u)' = Sid(u)
      BY <1>10
    <3>. QED
      BY <2>4, <3>1, <3>2 DEF Registered, Sending
  <2>. QED
    BY <2>2, <2>3, <2>4
<1>13. \A u \in DOMAIN conns : conns[u].role = "source" /\ Sending(u) => Sending(u)'
  BY <1>1, <1>10, SMTT(30) DEF Sending
<1>14. t \in DOMAIN conns => conns'[t].reader # "on" /\ ~(Registered(t)')
  <2>1. ASSUME t \in DOMAIN conns
        PROVE  conns'[t].reader # "on" /\ ~(Registered(t)')
    <3>1. sid \in DOMAIN f
      BY <1>7, <2>1, ConnTypes
    <3>2. conns'[t] = Teardown(conns[t]) /\ conns[t] \in Conn
      BY <1>5, <1>7, <2>1, <3>1, ConnTypes
    <3>. QED
      BY <1>11, <2>1, <3>1, <3>2, TornDown
  <2>. QED
    BY <2>1
<1>15. TableInv'
  <2>1. t \in DOMAIN conns => (Registered(t)' => conns'[t].writer \in {"on", "failed"})
    BY <1>14
  <2>2. \A u \in DOMAIN conns : conns'[u].reader = "on" =>
           (Registered(u) => Registered(u)') /\ (Sending(u) => Sending(u)')
    BY <1>12, <1>14
  <2>3. \A u \in DOMAIN conns : conns[u].role = "source" /\ Registered(u)' /\ Sending(u) => Sending(u)'
    BY <1>13
  <2>4. t \in DOMAIN conns => (conns'[t].reader = "on" => conns[t].reader = "on")
    BY <1>14
  <2>. QED
    BY <1>6, <1>8, <1>9, <2>1, <2>2, <2>3, <2>4, ShrinkKeeps
<1>16. t \in DOMAIN conns => conns'[t] = Teardown(conns[t])
  BY <1>5, <1>7, ConnTypes
<1>17. Forgets(t)
  BY <1>8, <1>9, <1>12, <1>14, <1>16 DEF Forgets
<1>. QED
  BY <1>6, <1>7, <1>15, <1>17 DEF f

\* The same for a source; its conn_id may be forgotten with it.
LEMMA ForgetSource ==
  ASSUME Typed, TableInv, NEW e \in Ends, NEW sid, NEW id,
         events' \in [Ends -> Seq(LocalEvent)], link' \in [Ends -> Seq(PeerFrame)],
         conns' = TeardownIn(state[e].source_sockets, sid),
         state' \in [Ends -> EngineState], \A d \in Ends : d # e => state'[d] = state[d],
         state'[e].pending = state[e].pending, state'[e].max = state[e].max,
         state'[e].next_conn_id = state[e].next_conn_id,
         state'[e].destinations = state[e].destinations,
         state'[e].source_sockets = Remove(state[e].source_sockets, sid),
         \/ state'[e].source_conn_ids = state[e].source_conn_ids
         \/ /\ state'[e].source_conn_ids = Remove(state[e].source_conn_ids, id)
            /\ id \in DOMAIN state[e].source_conn_ids /\ state[e].source_conn_ids[id] = sid
  PROVE  /\ Typed' /\ TableInv'
         /\ \E t : /\ Forgets(t)
                   /\ t = IF sid \in DOMAIN state[e].source_sockets THEN state[e].source_sockets[sid] ELSE 0
<1>. DEFINE f == state[e].source_sockets
            g == state[e].source_conn_ids
<1>1. /\ f \in Tables /\ Remove(f, sid) \in Tables /\ DOMAIN Remove(f, sid) = DOMAIN f \ {sid}
      /\ \A x \in DOMAIN f : x # sid => Remove(f, sid)[x] = f[x]
  BY StateTypes, Removed
<1>2. /\ DOMAIN state'[e].source_conn_ids \subseteq DOMAIN g
      /\ \A x \in DOMAIN state'[e].source_conn_ids : state'[e].source_conn_ids[x] = g[x]
      /\ \A x \in DOMAIN g : x \in DOMAIN state'[e].source_conn_ids \/ g[x] = sid
  <2>1. /\ DOMAIN Remove(g, id) = DOMAIN g \ {id} /\ \A x \in DOMAIN g : x # id => Remove(g, id)[x] = g[x]
    BY StateTypes, Removed
  <2>. QED
    BY <2>1
<1>3. state'[e].source_sockets = Remove(f, sid)
  OBVIOUS
<1>. HIDE DEF f, g
<1>4. ASSUME sid \in DOMAIN f
      PROVE  /\ f[sid] \in DOMAIN conns /\ conns[f[sid]].end = e /\ conns[f[sid]].role = "source"
             /\ Sid(f[sid]) = sid /\ conns[f[sid]].mate # 0 /\ conns[f[sid]].reader # "none"
  <2>1. PICK u : u = f[sid]
    OBVIOUS
  <2>2. /\ Is(u, e, "source", conns[u].id) /\ conns[u].mate # 0 /\ Sid(u) = sid
        /\ conns[u].writer \in {"on", "failed"}
    BY <1>4, <2>1 DEF f, TableInv, SourceInv
  <2>3. u \in DOMAIN conns /\ conns[u].end = e /\ conns[u].role = "source"
    BY <2>2 DEF Is
  <2>4. conns[u].reader # "none"
    BY <2>2, <2>3 DEF TableInv, ConnInv, ConnOK
  <2>. QED
    BY <2>1, <2>2, <2>3, <2>4
<1>5. /\ conns' \in Seq(Conn) /\ DOMAIN conns' = DOMAIN conns
      /\ sid \in DOMAIN f => conns'[f[sid]] = Teardown(conns[f[sid]])
      /\ \A u \in DOMAIN conns : sid \notin DOMAIN f \/ u # f[sid] => conns'[u] = conns[u]
  <2>1. conns' = TeardownIn(f, sid) /\ (sid \in DOMAIN f => f[sid] \in DOMAIN conns)
    BY <1>4 DEF f
  <2>. QED
    BY <2>1, TeardownInFacts, SMTT(20)
<1>6. Typed'
  BY <1>5 DEF Typed
<1>7. PICK t : t = IF sid \in DOMAIN f THEN f[sid] ELSE 0
  OBVIOUS
<1>8. Touches(t)
  <2>1. CASE sid \in DOMAIN f
    <3>1. conns[t] \in Conn /\ conns'[t] = Teardown(conns[t])
      BY <1>4, <1>5, <1>7, <2>1, ConnTypes
    <3>2. /\ conns'[t].end = conns[t].end /\ conns'[t].role = conns[t].role
          /\ conns'[t].id = conns[t].id /\ conns'[t].mate = conns[t].mate
          /\ conns[t].reader # "none" => conns'[t].reader # "none"
          /\ conns'[t].writer # "none"
      BY <1>4, <1>7, <2>1, <3>1, TornDown
    <3>3. /\ conns[t].mate # 0 /\ conns[t].reader # "none"
          /\ \A u \in DOMAIN conns : u # t => conns'[u] = conns[u]
      BY <1>4, <1>5, <1>7, <2>1
    <3>. QED
      BY <1>5, <3>2, <3>3 DEF Touches
  <2>2. CASE sid \notin DOMAIN f
    BY <1>5, <1>7, <2>2, ConnTypes DEF Touches
  <2>. QED
    BY <2>1, <2>2
<1>9. \A d \in Ends : Restricts(d)
  <2>1. Restricts(e)
    BY <1>1, <1>2, <1>3 DEF Restricts, f, g
  <2>2. ASSUME NEW d \in Ends, d # e
        PROVE  Restricts(d)
    BY <1>1, <2>2 DEF Restricts
  <2>. QED
    BY <2>1, <2>2
<1>10. \A u \in DOMAIN conns :
         /\ conns'[u].end = conns[u].end /\ conns'[u].role = conns[u].role
         /\ conns'[u].id = conns[u].id /\ conns'[u].mate = conns[u].mate
         /\ conns[u].mate # 0 => Sid(u)' = Sid(u)
         /\ conns[u].end \in Ends /\ conns[u].role \in {"source", "destination"}
  BY <1>8, SameIdentity, ConnTypes DEF TableInv, Role
<1>11. t \in DOMAIN conns => conns'[t] = Teardown(conns[t]) /\ conns'[t].reader # "on" /\ ~(Registered(t)')
  <2>1. ASSUME t \in DOMAIN conns
        PROVE  conns'[t] = Teardown(conns[t]) /\ conns'[t].reader # "on" /\ ~(Registered(t)')
    <3>1. sid \in DOMAIN f
      BY <1>7, <2>1, ConnTypes
    <3>2. conns'[t] = Teardown(conns[t]) /\ conns[t] \in Conn
      BY <1>5, <1>7, <2>1, <3>1, ConnTypes
    <3>3. conns[t].end = e /\ conns[t].role = "source" /\ Sid(t) = sid /\ conns[t].mate # 0
      BY <1>4, <1>7, <3>1
    <3>4. ~(Registered(t)')
      BY <1>1, <1>3, <1>10, <2>1, <3>3, SMTT(20) DEF Registered
    <3>. QED
      BY <2>1, <3>2, <3>4, TornDown
  <2>. QED
    BY <2>1
<1>12. ASSUME NEW u \in DOMAIN conns, u # t
       PROVE  Registered(u) => Registered(u)'
  <2>1. ASSUME Registered(u), conns[u].role = "source", conns[u].end = e
        PROVE  Sid(u) \in DOMAIN f \ {sid} /\ conns[u].mate # 0
    BY <1>7, <1>12, <2>1, Found DEF Registered, f
  <2>2. CASE conns[u].role = "source" /\ conns[u].end = e
    BY <1>1, <1>3, <1>10, <2>1, <2>2, ZenonT(60) DEF Registered
  <2>3. CASE conns[u].role # "source"
    BY <1>10, <2>3 DEF Registered
  <2>4. CASE conns[u].end # e
    BY <1>10, <2>4, ZenonT(60) DEF Registered
  <2>. QED
    BY <2>2, <2>3, <2>4
<1>13. ASSUME NEW u \in DOMAIN conns, Sending(u), ~(Sending(u)')
       PROVE  conns[u].mate # 0 /\ conns[u].end = e /\ conns[u].role = "source" /\ Sid(u) = sid
  <2>1. conns[u].end = e /\ conns[u].role = "source" /\ conns[u].id \in DOMAIN g /\ g[conns[u].id] = sid
    <3>1. CASE conns[u].role # "source"
      BY <1>10, <1>13, <3>1 DEF Sending
    <3>2. CASE conns[u].end # e
      BY <1>10, <1>13, <3>2, ZenonT(60) DEF Sending
    <3>3. CASE conns[u].role = "source" /\ conns[u].end = e
      <4>1. conns[u].id \in DOMAIN g /\ conns[u].id \notin DOMAIN state'[e].source_conn_ids
        BY <1>10, <1>13, <3>3 DEF Sending, g
      <4>. QED
        BY <1>2, <3>3, <4>1
    <3>. QED
      BY <3>1, <3>2, <3>3
  <2>2. PICK v \in DOMAIN conns : /\ Is(v, e, "source", conns[u].id) /\ conns[v].mate # 0
                                  /\ g[conns[u].id] = Sid(v)
    BY <2>1 DEF TableInv, KnownInv, g
  <2>3. conns[u].id # 0
    BY <2>2, SMTT(20) DEF TableInv, MateInv, MateOK, Is
  <2>4. u = v
    BY <2>1, <2>2, <2>3 DEF TableInv, IdInv, Is
  <2>. QED
    BY <2>1, <2>2, <2>4
<1>14. ASSUME NEW u \in DOMAIN conns, Sending(u), ~(Sending(u)')
       PROVE  ~(Registered(u)') /\ (Registered(u) => u = t)
  <2>1. conns[u].mate # 0 /\ conns[u].end = e /\ conns[u].role = "source" /\ Sid(u) = sid
    BY <1>13, <1>14
  <2>2. ~(Registered(u)')
    BY <1>1, <1>3, <1>10, <2>1, SMTT(20) DEF Registered
  <2>. QED
    BY <1>12, <2>2
<1>15. TableInv'
  <2>1. t \in DOMAIN conns => (Registered(t)' => conns'[t].writer \in {"on", "failed"})
    BY <1>11
  <2>2. ASSUME NEW u \in DOMAIN conns, conns'[u].reader = "on"
        PROVE  (Registered(u) => Registered(u)') /\ (Sending(u) => Sending(u)')
    <3>1. u # t /\ conns[u].reader = "on"
      BY <1>8, <1>11, <2>2 DEF Touches
    <3>2. Registered(u)
      BY <3>1 DEF TableInv, LiveInv
    <3>. QED
      BY <1>12, <1>14, <3>1, <3>2
  <2>3. \A u \in DOMAIN conns : conns[u].role = "source" /\ Registered(u)' /\ Sending(u) => Sending(u)'
    BY <1>14
  <2>4. t \in DOMAIN conns => (conns'[t].reader = "on" => conns[t].reader = "on")
    BY <1>11
  <2>. QED
    BY <1>6, <1>8, <1>9, <2>1, <2>2, <2>3, <2>4, ShrinkKeeps
<1>16. Forgets(t)
  BY <1>8, <1>9, <1>11, <1>12 DEF Forgets
<1>. QED
  BY <1>6, <1>7, <1>15, <1>16 DEF f

-----------------------------------------------------------------------------
(* The read and write tasks. *)

\* One connection is replaced.
LEMMA Replaced ==
  ASSUME Typed, NEW t \in DOMAIN conns, NEW c \in Conn, conns' = [conns EXCEPT ![t] = c]
  PROVE  /\ conns' \in Seq(Conn) /\ DOMAIN conns' = DOMAIN conns /\ conns'[t] = c
         /\ \A u \in DOMAIN conns : u # t => conns'[u] = conns[u]
BY SMTT(20) DEF Typed

\* A step of a task leaves the tables alone.
LEMMA StayKeeps ==
  ASSUME Typed, Typed', TableInv, NEW t, Touches(t), state' = state,
         t \in DOMAIN conns => /\ conns'[t].reader = "on" => conns[t].reader = "on"
                               /\ conns[t].writer \in {"on", "failed"} => conns'[t].writer \in {"on", "failed"}
  PROVE  /\ TableInv' /\ \A d \in Ends : Restricts(d)
         /\ \A u \in DOMAIN conns : Registered(u)' = Registered(u) /\ Sending(u)' = Sending(u)
<1>1. \A u \in DOMAIN conns :
         /\ conns'[u].end = conns[u].end /\ conns'[u].role = conns[u].role
         /\ conns'[u].id = conns[u].id /\ conns'[u].mate = conns[u].mate
         /\ conns[u].mate # 0 => Sid(u)' = Sid(u)
  BY SameIdentity DEF TableInv
<1>2. \A u \in DOMAIN conns : Registered(u)' = Registered(u)
  BY <1>1 DEF Registered
<1>3. \A u \in DOMAIN conns : Sending(u)' = Sending(u)
  BY <1>1 DEF Sending
<1>4. \A d \in Ends : Restricts(d)
  BY DEF Restricts
<1>5. t \in DOMAIN conns => (Registered(t)' => conns'[t].writer \in {"on", "failed"})
  BY <1>2, Found
<1>6. t \in DOMAIN conns => (conns'[t].reader = "on" => conns[t].reader = "on")
  OBVIOUS
<1>7. \A u \in DOMAIN conns : conns'[u].reader = "on" =>
         (Registered(u) => Registered(u)') /\ (Sending(u) => Sending(u)')
  BY <1>2, <1>3
<1>8. \A u \in DOMAIN conns : conns[u].role = "source" /\ Registered(u)' /\ Sending(u) => Sending(u)'
  BY <1>3
<1>9. TableInv'
  BY <1>4, <1>5, <1>6, <1>7, <1>8, ShrinkKeeps
<1>. QED
  BY <1>2, <1>3, <1>4, <1>9

\* Requests stay as they are when only events of streams arrive.
LEMMA AskKeepsLocally ==
  ASSUME Typed, Typed', TableInv, AskInv, NEW t, Touches(t), state' = state, link' = link,
         \A d \in Ends : Shifts(events[d], events'[d], 0),
         \A d \in Ends : \A i \in DOMAIN events'[d] : i + 0 \notin DOMAIN events[d] => EventItem(events'[d][i])
  PROVE  AskInv'
<1>1. PICK z \in [Ends -> {0, 1}] : z = [d \in Ends |-> 0]
  OBVIOUS
<1>2. \A d \in Ends : /\ Shifts(link[d], link'[d], z[d]) /\ Shifts(events[d], events'[d], z[d])
                      /\ \A i \in DOMAIN link'[d] : i + z[d] \in DOMAIN link[d]
                      /\ \A i \in DOMAIN link[d] : ~(i <= z[d])
                      /\ \A i \in DOMAIN events[d] : ~(i <= z[d])
  <2>1. \A d \in Ends : link[d] \in Seq(PeerFrame) /\ events[d] \in Seq(LocalEvent)
    BY DEF Typed
  <2>. QED
    BY <1>1, <2>1, ShiftsSame, SMTT(20)
<1>3. \A d \in Ends : \A i \in DOMAIN events'[d] : i + z[d] \notin DOMAIN events[d] => EventItem(events'[d][i])
  BY <1>1
<1>. QED
  BY <1>2, <1>3, AskKeeps DEF TableInv

\* What a read task does.
LEMMA ReadEffect ==
  ASSUME Typed, TableInv, NEW t, ReadSome(t) \/ ReadEnds(t)
  PROVE  /\ Typed' /\ t \in DOMAIN conns /\ Touches(t) /\ state' = state /\ link' = link
         /\ conns[t].reader = "on"
         /\ conns'[t].writer = conns[t].writer /\ conns'[t].queue = conns[t].queue
         /\ conns'[t].got = conns[t].got
         /\ \E k \in {"read", "eof", "error"} :
               /\ \/ k = "read" /\ conns'[t].reader = "on" /\ conns'[t].read = conns[t].read + 1
                  \/ k # "read" /\ conns'[t].reader = "eof" /\ conns'[t].read = conns[t].read
               /\ events' = [events EXCEPT ![conns[t].end] =
                               Append(@, ReadEnd(conns[t].id, k, <<t, conns[t].read + 1>>))]
               /\ ReadEnd(conns[t].id, k, <<t, conns[t].read + 1>>) \in LocalEvent
<1>1. t \in DOMAIN conns /\ conns[t].reader = "on" /\ state' = state /\ link' = link
  BY DEF ReadSome, ReadEnds
<1>2. PICK c \in Conn : c = conns[t]
  BY <1>1, ConnTypes
<1>3. /\ t \in Nat /\ c.read \in Nat /\ c.id \in Nat /\ c.end \in Ends /\ c.mate # 0
      /\ c.writer # "none"
  BY <1>1, <1>2, ConnTypes DEF TableInv, ConnInv, ConnOK
<1>4. PICK x \in Chunk : x = <<t, c.read + 1>>
  <2>1. <<t, c.read + 1>> \in Nat \X Nat
    BY <1>3, SMTT(20)
  <2>. QED
    BY <2>1 DEF Chunk
<1>5. PICK d \in Conn, k \in {"read", "eof", "error"} :
         /\ conns' = [conns EXCEPT ![t] = d]
         /\ \/ k = "read" /\ d = [c EXCEPT !.read = @ + 1]
            \/ k # "read" /\ d = [c EXCEPT !.reader = "eof"]
         /\ events' = [events EXCEPT ![c.end] = Append(@, ReadEnd(c.id, k, x))]
  <2>1. CASE ReadSome(t)
    <3>1. [c EXCEPT !.read = @ + 1] \in Conn
      <4>1. c.read + 1 \in Nat
        BY SMTT(20) DEF Conn
      <4>. QED
        BY <4>1 DEF Conn
    <3>2. conns' = [conns EXCEPT ![t] = [c EXCEPT !.read = @ + 1]]
      BY <1>2, <2>1 DEF ReadSome
    <3>3. events' = [events EXCEPT ![c.end] = Append(@, ReadEnd(c.id, "read", x))]
      BY <1>2, <1>4, <2>1 DEF ReadSome, Read, ReadEnd
    <3>. QED
      BY <3>1, <3>2, <3>3
  <2>2. CASE ReadEnds(t)
    <3>1. [c EXCEPT !.reader = "eof"] \in Conn
      BY <1>3 DEF Conn
    <3>2. conns' = [conns EXCEPT ![t] = [c EXCEPT !.reader = "eof"]]
      BY <1>2, <2>2 DEF ReadEnds
    <3>3. PICK k \in {"eof", "error"} : events' = [events EXCEPT ![c.end] = Append(@, ReadEnd(c.id, k, x))]
      BY <1>2, <1>4, <2>2 DEF ReadEnds
    <3>. QED
      BY <3>1, <3>2, <3>3
  <2>. QED
    BY <2>1, <2>2
<1>6. /\ conns' \in Seq(Conn) /\ DOMAIN conns' = DOMAIN conns /\ conns'[t] = d
      /\ \A u \in DOMAIN conns : u # t => conns'[u] = conns[u]
  BY <1>1, <1>5, Replaced
<1>7. ReadEnd(c.id, k, x) \in LocalEvent
  BY <1>3, EventTypes DEF Read, ReadEnd
<1>8. events' \in [Ends -> Seq(LocalEvent)]
  BY <1>3, <1>5, <1>7, PostFacts
<1>9. Typed'
  BY <1>1, <1>6, <1>8 DEF Typed
<1>10. /\ d.end = c.end /\ d.role = c.role /\ d.id = c.id /\ d.mate = c.mate
       /\ d.writer = c.writer /\ d.queue = c.queue /\ d.got = c.got
       /\ \/ k = "read" /\ d.reader = c.reader /\ d.read = c.read + 1
          \/ k # "read" /\ d.reader = "eof" /\ d.read = c.read
  BY <1>5 DEF Conn
<1>11. Touches(t)
  BY <1>1, <1>2, <1>3, <1>6, <1>10 DEF Touches
<1>. QED
  BY <1>1, <1>2, <1>4, <1>5, <1>6, <1>7, <1>9, <1>10, <1>11

\* Reading keeps tables and requests.
LEMMA ReadKeeps ==
  ASSUME Typed, TableInv, AskInv, NEW t, ReadSome(t) \/ ReadEnds(t)
  PROVE  TableInv' /\ AskInv'
<1>1. /\ Typed' /\ t \in DOMAIN conns /\ Touches(t) /\ state' = state /\ link' = link
      /\ conns[t].reader = "on" /\ conns'[t].writer = conns[t].writer
  BY ReadEffect
<1>2. PICK k \in {"read", "eof", "error"}, x \in LocalEvent :
         /\ x = ReadEnd(conns[t].id, k, <<t, conns[t].read + 1>>)
         /\ events' = [events EXCEPT ![conns[t].end] = Append(@, x)]
  BY ReadEffect, SMTT(20)
<1>3. EventItem(x)
  BY <1>2 DEF ReadEnd, EventItem
<1>4. PICK e \in Ends : e = conns[t].end
  BY <1>1, ConnTypes
<1>5. TableInv'
  BY <1>1, StayKeeps
<1>6. /\ \A d \in Ends : Shifts(events[d], events'[d], 0)
      /\ \A d \in Ends : \A i \in DOMAIN events'[d] :
            i + 0 \notin DOMAIN events[d] => EventItem(events'[d][i])
  <2>1. events' = [events EXCEPT ![e] = Append(@, x)]
    BY <1>2, <1>4
  <2>2. /\ \A d \in Ends : Shifts(events[d], events'[d], 0)
        /\ \A d \in Ends : \A i \in DOMAIN events'[d] :
              i + 0 \notin DOMAIN events[d] => d = e /\ i = Len(events[e]) + 1
        /\ events'[e][Len(events[e]) + 1] = x
    BY <2>1, PostFacts
  <2>. QED
    BY <1>3, <2>2
<1>. QED
  BY <1>1, <1>5, <1>6, AskKeepsLocally

\* What a write task does.
LEMMA WriteEffect ==
  ASSUME Typed, TableInv, NEW t, WriteSome(t) \/ WriteFails(t)
  PROVE  /\ Typed' /\ t \in DOMAIN conns /\ Touches(t)
         /\ state' = state /\ link' = link /\ events' = events
         /\ conns[t].writer \in {"on", "draining"} /\ conns[t].queue # <<>>
         /\ conns'[t].reader = conns[t].reader /\ conns'[t].read = conns[t].read
         /\ \/ /\ conns'[t].got = Append(conns[t].got, Head(conns[t].queue))
               /\ conns'[t].queue = Tail(conns[t].queue)
               /\ conns'[t].writer = IF conns[t].writer = "draining" /\ Len(conns[t].queue) = 1
                                     THEN "off" ELSE conns[t].writer
            \/ conns'[t].got = conns[t].got /\ conns'[t].queue = <<>> /\ conns'[t].writer = "failed"
<1>1. /\ t \in DOMAIN conns /\ state' = state /\ link' = link /\ events' = events
      /\ conns[t].writer \in {"on", "draining"} /\ conns[t].queue # <<>>
  BY DEF WriteSome, WriteFails
<1>2. PICK c \in Conn : c = conns[t]
  BY <1>1, ConnTypes
<1>3. /\ c.mate # 0 /\ c.reader # "none" /\ c.writer \in {"on", "draining"} /\ c.queue # <<>>
      /\ c.queue \in Seq(Nat \X Nat) /\ c.got \in Seq(Nat \X Nat)
  BY <1>1, <1>2, ConnTypes DEF TableInv, ConnInv, ConnOK
<1>4. PICK d \in Conn :
         /\ conns' = [conns EXCEPT ![t] = d]
         /\ d.end = c.end /\ d.role = c.role /\ d.id = c.id /\ d.mate = c.mate
         /\ d.reader = c.reader /\ d.read = c.read /\ d.writer # "none"
         /\ \/ /\ d.got = Append(c.got, Head(c.queue)) /\ d.queue = Tail(c.queue)
               /\ d.writer = IF c.writer = "draining" /\ Len(c.queue) = 1 THEN "off" ELSE c.writer
            \/ d.got = c.got /\ d.queue = <<>> /\ d.writer = "failed"
  <2>1. CASE WriteSome(t)
    <3>1. PICK w \in {"on", "draining", "off"} :
             w = IF c.writer = "draining" /\ Len(c.queue) = 1 THEN "off" ELSE c.writer
      BY <1>3
    <3>2. Append(c.got, Head(c.queue)) \in Seq(Nat \X Nat) /\ Tail(c.queue) \in Seq(Nat \X Nat)
      BY <1>3, SMTT(20)
    <3>3. PICK g \in Seq(Nat \X Nat), q \in Seq(Nat \X Nat) : g = Append(c.got, Head(c.queue)) /\ q = Tail(c.queue)
      BY <3>2
    <3>4. PICK d : d = [c EXCEPT !.got = g, !.queue = q, !.writer = w]
      OBVIOUS
    <3>5. conns' = [conns EXCEPT ![t] = d]
      BY <1>1, <1>2, <2>1, <3>1, <3>3, <3>4 DEF WriteSome, Typed, Conn
    <3>6. /\ d \in Conn /\ d.end = c.end /\ d.role = c.role /\ d.id = c.id /\ d.mate = c.mate
          /\ d.reader = c.reader /\ d.read = c.read /\ d.got = g /\ d.queue = q /\ d.writer = w
      BY <3>1, <3>3, <3>4 DEF Conn
    <3>. QED
      BY <3>1, <3>3, <3>5, <3>6
  <2>2. CASE WriteFails(t)
    <3>. PICK q \in Seq(Nat \X Nat) : q = <<>>
      BY EmptySequence
    <3>1. PICK d : d = [c EXCEPT !.queue = q, !.writer = "failed"]
      OBVIOUS
    <3>2. conns' = [conns EXCEPT ![t] = d]
      BY <1>1, <1>2, <2>2, <3>1 DEF WriteFails, Typed, Conn
    <3>3. /\ d \in Conn /\ d.end = c.end /\ d.role = c.role /\ d.id = c.id /\ d.mate = c.mate
          /\ d.reader = c.reader /\ d.read = c.read /\ d.got = c.got /\ d.queue = q /\ d.writer = "failed"
      BY <3>1 DEF Conn
    <3>. QED
      BY <3>2, <3>3
  <2>. QED
    BY <2>1, <2>2
<1>5. /\ conns' \in Seq(Conn) /\ DOMAIN conns' = DOMAIN conns /\ conns'[t] = d
      /\ \A u \in DOMAIN conns : u # t => conns'[u] = conns[u]
  BY <1>1, <1>4, Replaced
<1>6. Typed'
  BY <1>1, <1>5 DEF Typed
<1>7. Touches(t)
  BY <1>1, <1>2, <1>3, <1>4, <1>5 DEF Touches
<1>. QED
  BY <1>1, <1>2, <1>4, <1>5, <1>6, <1>7

\* Writing keeps tables and requests.
LEMMA WriteKeeps ==
  ASSUME Typed, TableInv, AskInv, NEW t, WriteSome(t) \/ WriteFails(t)
  PROVE  TableInv' /\ AskInv'
<1>1. /\ Typed' /\ t \in DOMAIN conns /\ Touches(t) /\ state' = state /\ link' = link /\ events' = events
      /\ conns'[t].reader = conns[t].reader /\ conns[t].writer \in {"on", "draining"}
      /\ conns'[t].writer = "failed" \/ conns[t].writer = "draining" \/ conns'[t].writer = conns[t].writer
  BY WriteEffect
<1>2. TableInv'
  BY <1>1, StayKeeps
<1>3. \A d \in Ends : Shifts(events[d], events'[d], 0) /\ \A i \in DOMAIN events'[d] : i + 0 \in DOMAIN events[d]
  <2>1. \A d \in Ends : events[d] \in Seq(LocalEvent)
    BY DEF Typed
  <2>. QED
    BY <1>1, <2>1, ShiftsSame
<1>. QED
  BY <1>1, <1>2, <1>3, AskKeepsLocally

-----------------------------------------------------------------------------
(* Events of the read tasks, and frames of streams. *)

\* Requests stay as they are when an item of a stream passes the engine.
LEMMA AskKeepsRead ==
  ASSUME Typed, Typed', TableInv, AskInv, NEW t, Touches(t), \A d \in Ends : Restricts(d),
         NEW e \in Ends, events[e] # <<>>, Take(e), EventItem(Head(events[e])),
         NEW frames \in Seq(PeerFrame), Emit(e, frames), \A j \in DOMAIN frames : FrameItem(frames[j])
  PROVE  AskInv'
<1>1. PICK z \in [Ends -> {0, 1}] : z = [d \in Ends |-> 0]
  OBVIOUS
<1>2. PICK q \in [Ends -> {0, 1}] : q = [d \in Ends |-> IF d = e THEN 1 ELSE 0]
  OBVIOUS
<1>3. \A d \in Ends : link[d] \in Seq(PeerFrame) /\ events[d] \in Seq(LocalEvent)
  BY DEF Typed
<1>4. ASSUME NEW d \in Ends
      PROVE  /\ Shifts(events[d], events'[d], q[d])
             /\ \A i \in DOMAIN events[d] : i <= q[d] => EventItem(events[d][i])
             /\ \A i \in DOMAIN events'[d] : i + q[d] \in DOMAIN events[d]
  <2>1. CASE d = e
    BY <1>2, <1>3, <2>1, TakeFacts, SMTT(20)
  <2>2. CASE d # e
    BY <1>2, <1>3, <2>2, TakeFacts, ShiftsSame, SMTT(20)
  <2>. QED
    BY <2>1, <2>2
<1>5. ASSUME NEW d \in Ends
      PROVE  /\ Shifts(link[d], link'[d], z[d])
             /\ \A i \in DOMAIN link[d] : ~(i <= z[d])
             /\ \A i \in DOMAIN link'[d] : i + z[d] \notin DOMAIN link[d] => FrameItem(link'[d][i])
  <2>1. \A i \in DOMAIN link[d] : ~(i <= z[d])
    BY <1>1, <1>3, SMTT(20)
  <2>2. CASE d = e
    BY <1>1, <2>1, <2>2, EmitFacts, SMTT(20)
  <2>3. CASE d # e
    BY <1>1, <1>3, <2>1, <2>3, EmitFacts, ShiftsSame, SMTT(20)
  <2>. QED
    BY <2>2, <2>3
<1>6. \A d \in Ends : state'[d].pending = state[d].pending
  BY DEF Restricts
<1>. QED
  BY <1>4, <1>5, <1>6, AskKeeps DEF TableInv

\* Requests stay as they are when an item of a stream arrives.
LEMMA AskKeepsFrame ==
  ASSUME Typed, Typed', TableInv, AskInv, NEW t, Touches(t), \A d \in Ends : Restricts(d),
         NEW e \in Ends, Incoming(e, {"DATA", "CLOSED", "ERROR"}), Answer(e, <<>>), events' = events
  PROVE  AskInv'
<1>1. PICK z \in [Ends -> {0, 1}] : z = [d \in Ends |-> 0]
  OBVIOUS
<1>2. PICK k \in [Ends -> {0, 1}] : k = [d \in Ends |-> IF d = Peer(e) THEN 1 ELSE 0]
  OBVIOUS
<1>3. \A d \in Ends : link[d] \in Seq(PeerFrame) /\ events[d] \in Seq(LocalEvent)
  BY DEF Typed
<1>4. ASSUME NEW d \in Ends
      PROVE  /\ Shifts(events[d], events'[d], z[d])
             /\ \A i \in DOMAIN events[d] : ~(i <= z[d])
             /\ \A i \in DOMAIN events'[d] : i + z[d] \in DOMAIN events[d]
  BY <1>1, <1>3, ShiftsSame, SMTT(20)
<1>5. link[Peer(e)] # <<>> /\ FrameItem(Frame(e))
  BY DEF Incoming, Frame, FrameItem
<1>6. ASSUME NEW d \in Ends
      PROVE  /\ Shifts(link[d], link'[d], k[d])
             /\ \A i \in DOMAIN link[d] : i <= k[d] => FrameItem(link[d][i])
             /\ \A i \in DOMAIN link'[d] : i + k[d] \in DOMAIN link[d]
  <2>1. CASE d = Peer(e)
    <3>1. k[d] = 1 /\ d = Peer(e) /\ \A i \in DOMAIN link[d] : i <= 1 => i = 1
      BY <1>2, <1>3, <2>1, SMTT(20)
    <3>. QED
      BY <1>5, <3>1, TakenFrame
  <2>2. CASE d # Peer(e)
    <3>1. d = e /\ k[d] = 0
      BY <1>2, <2>2, PeerFacts
    <3>2. link'[d] = link[d]
      BY <1>5, <3>1, TakenFrame
    <3>. QED
      BY <1>3, <3>1, <3>2, ShiftsSame, SMTT(20)
  <2>. QED
    BY <2>1, <2>2
<1>7. \A d \in Ends : state'[d].pending = state[d].pending
  BY DEF Restricts
<1>. QED
  BY <1>4, <1>6, <1>7, AskKeeps DEF TableInv

\* The tables of an engine tell the role of a connection in a tunnel.
LEMMA RoleFound ==
  ASSUME Typed, TableInv, NEW m \in DOMAIN conns, conns[m].mate # 0, NEW e, e = conns[m].end
  PROVE  /\ conns[m].id \in DOMAIN state[e].source_conn_ids <=> conns[m].role = "source" /\ Sending(m)
         /\ conns[m].id \in DOMAIN state[e].source_conn_ids => state[e].source_conn_ids[conns[m].id] = Sid(m)
         /\ conns[m].id \in DOMAIN state[e].destinations <=> conns[m].role = "destination" /\ Sending(m)
<1>. e \in Ends /\ conns[m].role \in Role
  BY ConnTypes
<1>1. conns[m].id # 0
  BY DEF TableInv, MateInv, MateOK
<1>2. ASSUME conns[m].id \in DOMAIN state[e].source_conn_ids
      PROVE  conns[m].role = "source" /\ state[e].source_conn_ids[conns[m].id] = Sid(m)
  <2>1. PICK v \in DOMAIN conns :
           Is(v, e, "source", conns[m].id) /\ state[e].source_conn_ids[conns[m].id] = Sid(v)
    BY <1>2 DEF TableInv, KnownInv
  <2>2. v = m
    BY <1>1, <2>1 DEF TableInv, IdInv, Is
  <2>. QED
    BY <2>1, <2>2 DEF Is
<1>3. ASSUME conns[m].id \in DOMAIN state[e].destinations
      PROVE  conns[m].role = "destination"
  <2>1. PICK v : Is(v, e, "destination", conns[m].id)
    BY <1>3 DEF TableInv, DestinationInv
  <2>2. v = m
    BY <1>1, <2>1 DEF TableInv, IdInv, Is
  <2>. QED
    BY <2>1, <2>2 DEF Is
<1>. QED
  BY <1>2, <1>3 DEF Sending, Role

\* The engine of e handles item ev: it sends these frames and forgets t.
Passes(e, ev, t, sid, src, frames) ==
    /\ Forgets(t) /\ Emit(e, frames)
    /\ \A j \in DOMAIN frames :
          /\ FrameItem(frames[j]) /\ frames[j].chunk = ev.chunk
          /\ frames[j].sid = sid /\ frames[j].s2d = src
          /\ frames[j].h = "DATA" <=> ev.k = "read"
    /\ ev.k = "read" => t \notin DOMAIN conns /\ Len(frames) <= 1
    /\ \A m \in DOMAIN conns :
          conns[m].end = e /\ conns[m].id = ev.id /\ conns[m].mate # 0 =>
             /\ frames = <<>> => ~Sending(m)
             /\ frames # <<>> => Sending(m) /\ sid = Sid(m) /\ src = (conns[m].role = "source")
             /\ ev.k # "read" => ~(Sending(m)')
             /\ t \in DOMAIN conns => t = m

\* What handle_read does.
LEMMA HandleReadEffect ==
  ASSUME Typed, TableInv, NEW e \in Ends, HandleRead(e)
  PROVE  /\ events[e] # <<>> /\ Take(e) /\ EventItem(Head(events[e]))
         /\ Typed' /\ TableInv'
         /\ \E t, sid, src : \E frames \in Seq(PeerFrame) : Passes(e, Head(events[e]), t, sid, src, frames)
<1>1. events[e] # <<>> /\ Take(e) /\ EventItem(Head(events[e]))
  BY DEF HandleRead, EventItem
<1>2. PICK ev \in LocalEvent : ev = Head(events[e])
  BY <1>1, TakeFacts
<1>3. ev.id \in Nat /\ ev.chunk \in Chunk /\ ev.k \in {"accepted", "read", "eof", "error"}
  BY <1>2 DEF LocalEvent
<1>4. events' \in [Ends -> Seq(LocalEvent)]
  BY <1>1, TakeFacts
<1>. DEFINE s == state[e]
            src == ev.id \in DOMAIN s.source_conn_ids
            dst == ev.id \in DOMAIN s.destinations
            sid == IF src THEN s.source_conn_ids[ev.id] ELSE ev.id
<1>5. sid \in Nat /\ src \in BOOLEAN
  BY <1>3, StateTypes, TableFacts, SMTT(20)
<1>6. \A m \in DOMAIN conns : conns[m].end = e /\ conns[m].id = ev.id /\ conns[m].mate # 0 =>
         /\ ~src /\ ~dst => ~Sending(m)
         /\ src \/ dst => Sending(m) /\ sid = Sid(m) /\ src = (conns[m].role = "source")
  <2>1. ASSUME NEW m \in DOMAIN conns, conns[m].end = e, conns[m].id = ev.id, conns[m].mate # 0
        PROVE  /\ src <=> conns[m].role = "source" /\ Sending(m)
               /\ src => sid = Sid(m)
               /\ dst <=> conns[m].role = "destination" /\ Sending(m)
               /\ conns[m].role \in Role
    BY <2>1, RoleFound, ConnTypes
  <2>2. \A m \in DOMAIN conns : conns[m].role = "destination" => Sid(m) = conns[m].id
    BY DEF Sid
  <2>. QED
    BY <2>1, <2>2, SMTT(20) DEF Role
<1>7. 0 \notin DOMAIN conns
  BY ConnTypes
<1>8. ASSUME state' = state, conns' = conns, link' \in [Ends -> Seq(PeerFrame)]
      PROVE  Typed' /\ TableInv' /\ Forgets(0) /\ \A u \in DOMAIN conns : Sending(u)' = Sending(u)
  <2>1. Typed'
    BY <1>4, <1>8 DEF Typed
  <2>2. Touches(0)
    BY <1>7, <1>8 DEF Touches
  <2>3. TableInv' /\ \A d \in Ends : Restricts(d)
    BY <1>7, <1>8, <2>1, <2>2, StayKeeps
  <2>4. \A u \in DOMAIN conns : Registered(u)' = Registered(u) /\ Sending(u)' = Sending(u)
    BY <1>7, <1>8, <2>1, <2>2, StayKeeps
  <2>. QED
    BY <1>7, <2>1, <2>2, <2>3, <2>4 DEF Forgets
<1>. HIDE DEF s, src, dst, sid
<1>9. CASE ~src /\ ~dst
  <2>1. state' = state /\ conns' = conns /\ link' = link
    BY <1>2, <1>9 DEF HandleRead, s, src, dst
  <2>2. PICK none \in Seq(PeerFrame) : none = <<>>
    BY EmptySequence
  <2>3. link[e] \in Seq(PeerFrame) /\ link \in [Ends -> Seq(PeerFrame)]
    BY DEF Typed
  <2>4. link[e] \o none = link[e]
    BY <2>2, <2>3, SMTT(20)
  <2>5. Emit(e, none)
    BY <2>1, <2>3, <2>4 DEF Emit
  <2>6. Typed' /\ TableInv' /\ Forgets(0) /\ \A u \in DOMAIN conns : Sending(u)' = Sending(u)
    BY <1>8, <2>1, <2>3
  <2>7. DOMAIN none = {} /\ Len(none) = 0
    BY <2>2, SMTT(20)
  <2>8. Passes(e, ev, 0, sid, src, none)
    BY <1>6, <1>7, <1>9, <2>2, <2>5, <2>6, <2>7, SMTT(20) DEF Passes
  <2>. QED
    BY <1>1, <1>2, <2>6, <2>8
<1>10. CASE (src \/ dst) /\ ev.k = "read"
  <2>1. PICK f \in PeerFrame : f = Data(sid, src, ev.chunk)
    BY <1>3, <1>5, FrameTypes
  <2>2. f.h = "DATA" /\ f.chunk = ev.chunk /\ f.sid = sid /\ f.s2d = src
    BY <2>1 DEF Data
  <2>3. state' = state /\ conns' = conns /\ Emit(e, <<f>>)
    BY <1>2, <1>10, <2>1 DEF HandleRead, s, src, dst, sid
  <2>4. PICK frames \in Seq(PeerFrame) :
           frames = <<f>> /\ frames # <<>> /\ Len(frames) = 1 /\ frames[1] = f /\ DOMAIN frames = {1}
    BY OneFrame
  <2>5. Emit(e, frames)
    BY <2>3, <2>4
  <2>6. link' \in [Ends -> Seq(PeerFrame)]
    BY <2>5, EmitFacts
  <2>7. Typed' /\ TableInv' /\ Forgets(0)
    BY <1>8, <2>3, <2>6
  <2>8. \A j \in DOMAIN frames :
           /\ FrameItem(frames[j]) /\ frames[j].chunk = ev.chunk
           /\ frames[j].sid = sid /\ frames[j].s2d = src
           /\ frames[j].h = "DATA" <=> ev.k = "read"
    BY <1>10, <2>2, <2>4 DEF FrameItem
  <2>9. Passes(e, ev, 0, sid, src, frames)
    BY <1>6, <1>7, <1>10, <2>4, <2>5, <2>7, <2>8, SMTT(20) DEF Passes
  <2>. QED
    BY <1>1, <1>2, <2>7, <2>9
<1>11. CASE (src \/ dst) /\ ev.k # "read"
  <2>1. PICK f \in PeerFrame, g \in PeerFrame : f = Error(sid, src, ev.chunk) /\ g = Closed(sid, src, ev.chunk)
    BY <1>3, <1>5, FrameTypes
  <2>2. /\ f.h = "ERROR" /\ f.chunk = ev.chunk /\ f.sid = sid /\ f.s2d = src
        /\ g.h = "CLOSED" /\ g.chunk = ev.chunk /\ g.sid = sid /\ g.s2d = src
    BY <2>1 DEF Error, Closed
  <2>3. Emit(e, IF ev.k = "error" THEN <<f, g>> ELSE <<g>>)
    BY <1>2, <1>11, <2>1 DEF HandleRead, EndFrames, s, src, dst, sid
  <2>4. PICK frames \in Seq(PeerFrame) :
           /\ frames = IF ev.k = "error" THEN <<f, g>> ELSE <<g>>
           /\ frames # <<>> /\ \A j \in DOMAIN frames : frames[j] = f \/ frames[j] = g
    <3>1. CASE ev.k = "error"
      <4>1. PICK x \in Seq(PeerFrame) : x = <<f, g>> /\ x # <<>> /\ \A j \in DOMAIN x : x[j] = f \/ x[j] = g
        <5>1. /\ <<f, g>> \in Seq(PeerFrame) /\ <<f, g>> # <<>>
              /\ \A j \in DOMAIN <<f, g>> : <<f, g>>[j] = f \/ <<f, g>>[j] = g
          BY SMTT(20)
        <5>. QED
          BY <5>1
      <4>. QED
        BY <3>1, <4>1
    <3>2. CASE ev.k # "error"
      <4>1. PICK x \in Seq(PeerFrame) : x = <<g>> /\ x # <<>> /\ x[1] = g /\ DOMAIN x = {1}
        BY OneFrame
      <4>. QED
        BY <3>2, <4>1
    <3>. QED
      BY <3>1, <3>2
  <2>5. Emit(e, frames)
    BY <2>3, <2>4
  <2>6. link' \in [Ends -> Seq(PeerFrame)]
    BY <2>5, EmitFacts
  <2>7. \A j \in DOMAIN frames :
           /\ FrameItem(frames[j]) /\ frames[j].chunk = ev.chunk
           /\ frames[j].sid = sid /\ frames[j].s2d = src
           /\ frames[j].h = "DATA" <=> ev.k = "read"
    BY <1>11, <2>2, <2>4 DEF FrameItem
  <2>8. \E t : /\ Typed' /\ TableInv' /\ Forgets(t)
               /\ src => ev.id \notin DOMAIN state'[e].source_conn_ids
               /\ ~src => ev.id \notin DOMAIN state'[e].destinations
               /\ t \in DOMAIN conns =>
                     IF src THEN sid \in DOMAIN state[e].source_sockets /\ t = state[e].source_sockets[sid]
                     ELSE sid \in DOMAIN state[e].destinations /\ t = state[e].destinations[sid]
    <3>1. CASE src
      <4>1. /\ conns' = TeardownIn(s.source_sockets, sid)
            /\ state' = [state EXCEPT ![e].source_sockets = Remove(@, sid),
                                      ![e].source_conn_ids = Remove(@, ev.id)]
        BY <1>2, <1>11, <3>1 DEF HandleRead, s, src, dst, sid
      <4>2. /\ Remove(s.source_sockets, sid) \in Tables /\ Remove(s.source_conn_ids, ev.id) \in Tables
            /\ ev.id \notin DOMAIN Remove(s.source_conn_ids, ev.id)
        <5>1. s.source_sockets \in Tables /\ s.source_conn_ids \in Tables
          BY StateTypes DEF s
        <5>2. Remove(s.source_sockets, sid) \in Tables
          BY <5>1, Removed
        <5>3. /\ Remove(s.source_conn_ids, ev.id) \in Tables
              /\ DOMAIN Remove(s.source_conn_ids, ev.id) = DOMAIN s.source_conn_ids \ {ev.id}
          BY <5>1, Removed
        <5>. QED
          BY <5>2, <5>3
      <4>3. /\ state' \in [Ends -> EngineState] /\ \A d \in Ends : d # e => state'[d] = state[d]
            /\ state'[e].pending = state[e].pending /\ state'[e].max = state[e].max
            /\ state'[e].next_conn_id = state[e].next_conn_id
            /\ state'[e].destinations = state[e].destinations
            /\ state'[e].source_sockets = Remove(state[e].source_sockets, sid)
            /\ state'[e].source_conn_ids = Remove(state[e].source_conn_ids, ev.id)
        BY <4>1, <4>2, StateTypes DEF Typed, EngineState, s
      <4>4. ev.id \in DOMAIN state[e].source_conn_ids /\ state[e].source_conn_ids[ev.id] = sid
        BY <3>1 DEF src, sid, s
      <4>5. conns' = TeardownIn(state[e].source_sockets, sid)
        BY <4>1 DEF s
      <4>6. /\ Typed' /\ TableInv'
            /\ \E t : /\ Forgets(t)
                     /\ t = IF sid \in DOMAIN state[e].source_sockets THEN state[e].source_sockets[sid] ELSE 0
        BY <1>4, <2>6, <4>3, <4>4, <4>5, ForgetSource
      <4>. QED
        BY <1>7, <3>1, <4>2, <4>3, <4>6 DEF s
    <3>2. CASE ~src
      <4>1. /\ conns' = TeardownIn(state[e].destinations, sid)
            /\ state' = [state EXCEPT ![e].destinations = Remove(@, sid)]
        BY <1>2, <1>11, <3>2 DEF HandleRead, s, src, dst, sid
      <4>2. /\ Typed' /\ TableInv'
            /\ \E t : /\ Forgets(t)
                     /\ t = IF sid \in DOMAIN state[e].destinations THEN state[e].destinations[sid] ELSE 0
        BY <1>4, <2>6, <4>1, ForgetDestination
      <4>3. sid = ev.id
        BY <3>2 DEF sid
      <4>4. ev.id \notin DOMAIN Remove(state[e].destinations, sid)
        <5>1. state[e].destinations \in Tables
          BY StateTypes
        <5>2. DOMAIN Remove(state[e].destinations, sid) = DOMAIN state[e].destinations \ {sid}
          BY <5>1, Removed
        <5>. QED
          BY <4>3, <5>2
      <4>5. state'[e].destinations = Remove(state[e].destinations, sid)
        BY <4>1, StateTypes DEF Typed, EngineState
      <4>. QED
        BY <1>7, <3>2, <4>2, <4>4, <4>5
    <3>. QED
      BY <3>1, <3>2
  <2>9. PICK t : /\ Typed' /\ TableInv' /\ Forgets(t)
                 /\ src => ev.id \notin DOMAIN state'[e].source_conn_ids
                 /\ ~src => ev.id \notin DOMAIN state'[e].destinations
                 /\ t \in DOMAIN conns =>
                       IF src THEN sid \in DOMAIN state[e].source_sockets /\ t = state[e].source_sockets[sid]
                       ELSE sid \in DOMAIN state[e].destinations /\ t = state[e].destinations[sid]
    BY <2>8
  <2>10. ASSUME NEW m \in DOMAIN conns, conns[m].end = e, conns[m].id = ev.id, conns[m].mate # 0
         PROVE  ~(Sending(m)') /\ (t \in DOMAIN conns => t = m)
    <3>1. conns'[m].end = e /\ conns'[m].id = ev.id /\ conns'[m].role = conns[m].role
      BY <2>9, <2>10, SameIdentity DEF Forgets, TableInv
    <3>2. src = (conns[m].role = "source") /\ conns[m].role \in Role
      BY <1>6, <1>11, <2>10, ConnTypes
    <3>3. ~(Sending(m)')
      BY <2>9, <3>1, <3>2 DEF Sending, Role
    <3>4. sid = Sid(m)
      BY <1>6, <1>11, <2>10
    <3>5. t \in DOMAIN conns => Registered(m)
      BY <2>9, <2>10, <3>2, <3>4 DEF Registered, Role, Sid
    <3>6. t \in DOMAIN conns => t = m
      <4>1. ASSUME t \in DOMAIN conns
            PROVE  t = m
        <5>1. /\ conns[m].role = "destination" => state[e].destinations[conns[m].id] = m
              /\ conns[m].role # "destination" => state[e].source_sockets[sid] = m
          BY <2>10, <3>4, <3>5, <4>1, Found
        <5>2. ~src => sid = conns[m].id /\ conns[m].role = "destination"
          BY <3>2, <3>4 DEF Role, Sid
        <5>. QED
          BY <2>9, <2>10, <3>2, <4>1, <5>1, <5>2
      <4>. QED
        BY <4>1
    <3>. QED
      BY <3>3, <3>6
  <2>11. Passes(e, ev, t, sid, src, frames)
    BY <1>6, <1>11, <2>4, <2>5, <2>7, <2>9, <2>10 DEF Passes
  <2>. QED
    BY <1>1, <1>2, <2>9, <2>11
<1>. QED
  BY <1>9, <1>10, <1>11

\* handle_read keeps tables and requests.
LEMMA HandleReadKeeps ==
  ASSUME Typed, TableInv, AskInv, NEW e \in Ends, HandleRead(e)
  PROVE  Typed' /\ TableInv' /\ AskInv'
<1>1. /\ events[e] # <<>> /\ Take(e) /\ EventItem(Head(events[e])) /\ Typed' /\ TableInv'
  BY HandleReadEffect
<1>. PICK t, sid, src : \E frames \in Seq(PeerFrame) : Passes(e, Head(events[e]), t, sid, src, frames)
  BY HandleReadEffect
<1>2. PICK frames \in Seq(PeerFrame) : Passes(e, Head(events[e]), t, sid, src, frames)
  OBVIOUS
<1>3. /\ Touches(t) /\ \A d \in Ends : Restricts(d)
      /\ Emit(e, frames) /\ \A j \in DOMAIN frames : FrameItem(frames[j])
  BY <1>2 DEF Passes, Forgets
<1>. QED
  BY <1>1, <1>3, AskKeepsRead

\* The table a frame of a stream is looked up in.
TableOf(e, s2d) == IF s2d THEN state[e].destinations ELSE state[e].source_sockets

\* The connection that f is for, 0 when there is none.
Target(e, f) == IF f.sid \in DOMAIN TableOf(e, f.s2d) THEN TableOf(e, f.s2d)[f.sid] ELSE 0

\* A frame that removes its connection.
LEMMA ForgetTarget ==
  ASSUME Typed, TableInv, NEW e \in Ends, NEW f,
         events' \in [Ends -> Seq(LocalEvent)], link' \in [Ends -> Seq(PeerFrame)],
         state' = [state EXCEPT ![e] = Without(@, f.s2d, f.sid)],
         conns' = TeardownIn(Table(state[e], f.s2d), f.sid)
  PROVE  Typed' /\ TableInv' /\ \E t : t = Target(e, f) /\ Forgets(t)
<1>1. CASE f.s2d
  <2>1. /\ conns' = TeardownIn(state[e].destinations, f.sid)
        /\ state' = [state EXCEPT ![e].destinations = Remove(@, f.sid)]
    BY <1>1 DEF Without, Table
  <2>2. /\ Typed' /\ TableInv'
        /\ \E t : /\ Forgets(t)
                  /\ t = IF f.sid \in DOMAIN state[e].destinations THEN state[e].destinations[f.sid] ELSE 0
    BY <2>1, ForgetDestination
  <2>. QED
    BY <1>1, <2>2 DEF Target, TableOf
<1>2. CASE ~f.s2d
  <2>1. /\ conns' = TeardownIn(state[e].source_sockets, f.sid)
        /\ state' = [state EXCEPT ![e].source_sockets = Remove(@, f.sid)]
    BY <1>2 DEF Without, Table
  <2>2. Remove(state[e].source_sockets, f.sid) \in Tables
    BY StateTypes, Removed
  <2>3. /\ state' \in [Ends -> EngineState] /\ \A d \in Ends : d # e => state'[d] = state[d]
        /\ state'[e].pending = state[e].pending /\ state'[e].max = state[e].max
        /\ state'[e].next_conn_id = state[e].next_conn_id
        /\ state'[e].destinations = state[e].destinations
        /\ state'[e].source_sockets = Remove(state[e].source_sockets, f.sid)
        /\ state'[e].source_conn_ids = state[e].source_conn_ids
    BY <2>1, <2>2, StateTypes, SMTT(20) DEF Typed, EngineState
  <2>4. /\ Typed' /\ TableInv'
        /\ \E t : /\ Forgets(t)
                  /\ t = IF f.sid \in DOMAIN state[e].source_sockets THEN state[e].source_sockets[f.sid] ELSE 0
    BY <2>1, <2>3, ForgetSource
  <2>. QED
    BY <1>2, <2>4 DEF Target, TableOf
<1>. QED
  BY <1>1, <1>2

\* A connection that is found is registered, in a tunnel, and known by the frame.
LEMMA TargetFacts ==
  ASSUME Typed, TableInv, NEW e \in Ends, NEW f, Target(e, f) # 0
  PROVE  \E t \in DOMAIN conns :
            /\ t = Target(e, f) /\ conns[t].end = e /\ conns[t].mate # 0 /\ Registered(t)
            /\ Sid(t) = f.sid /\ conns[t].role = (IF f.s2d THEN "destination" ELSE "source")
            /\ conns[t].writer \in {"on", "failed"} /\ conns[t].reader # "none"
<1>1. PICK t : t = Target(e, f)
  OBVIOUS
<1>2. CASE f.s2d
  <2>1. f.sid \in DOMAIN state[e].destinations /\ t = state[e].destinations[f.sid]
    BY <1>1, <1>2 DEF Target, TableOf
  <2>2. Is(t, e, "destination", f.sid) /\ conns[t].writer \in {"on", "failed"}
    BY <2>1 DEF TableInv, DestinationInv
  <2>3. /\ t \in DOMAIN conns /\ conns[t].end = e /\ conns[t].role = "destination"
        /\ conns[t].id = f.sid
    BY <2>2 DEF Is
  <2>4. conns[t].mate # 0 /\ conns[t].reader # "none"
    BY <2>2, <2>3 DEF TableInv, ConnInv, ConnOK
  <2>5. Registered(t) /\ Sid(t) = f.sid
    BY <2>1, <2>3 DEF Registered, Sid
  <2>. QED
    BY <1>1, <1>2, <2>2, <2>3, <2>4, <2>5
<1>3. CASE ~f.s2d
  <2>1. f.sid \in DOMAIN state[e].source_sockets /\ t = state[e].source_sockets[f.sid]
    BY <1>1, <1>3 DEF Target, TableOf
  <2>2. /\ Is(t, e, "source", conns[t].id) /\ conns[t].mate # 0 /\ Sid(t) = f.sid
        /\ conns[t].writer \in {"on", "failed"}
    BY <2>1 DEF TableInv, SourceInv
  <2>3. t \in DOMAIN conns /\ conns[t].end = e /\ conns[t].role = "source"
    BY <2>2 DEF Is
  <2>4. conns[t].reader # "none"
    BY <2>2, <2>3 DEF TableInv, ConnInv, ConnOK
  <2>5. Registered(t)
    BY <2>1, <2>2, <2>3 DEF Registered
  <2>. QED
    BY <1>1, <1>3, <2>2, <2>3, <2>4, <2>5
<1>. QED
  BY <1>2, <1>3

\* What handling a close does.
LEMMA HandleClosedEffect ==
  ASSUME Typed, TableInv, AskInv, NEW e \in Ends, HandleClosed(e)
  PROVE  /\ Typed' /\ TableInv' /\ AskInv' /\ \E t : t = Target(e, Frame(e)) /\ Forgets(t)
         /\ link[Peer(e)] # <<>> /\ Frame(e).h \in {"CLOSED", "ERROR"} /\ Answer(e, <<>>) /\ events' = events
<1>1. /\ link[Peer(e)] # <<>> /\ Frame(e).h \in {"CLOSED", "ERROR"} /\ Answer(e, <<>>) /\ events' = events
      /\ state' = [state EXCEPT ![e] = Without(@, Frame(e).s2d, Frame(e).sid)]
      /\ conns' = TeardownIn(Table(state[e], Frame(e).s2d), Frame(e).sid)
  BY DEF HandleClosed, Incoming, Frame
<1>2. link' \in [Ends -> Seq(PeerFrame)] /\ events' \in [Ends -> Seq(LocalEvent)]
  BY <1>1, TakenFrame DEF Typed
<1>3. Typed' /\ TableInv' /\ \E t : t = Target(e, Frame(e)) /\ Forgets(t)
  BY <1>1, <1>2, ForgetTarget
<1>4. PICK t : Forgets(t)
  BY <1>3
<1>5. Incoming(e, {"DATA", "CLOSED", "ERROR"})
  BY <1>1 DEF Incoming, Frame
<1>6. AskInv'
  BY <1>1, <1>3, <1>4, <1>5, AskKeepsFrame DEF Forgets
<1>. QED
  BY <1>1, <1>3, <1>6

\* What handling data does: it is dropped, or its connection is, or it is queued.
LEMMA HandleDataEffect ==
  ASSUME Typed, TableInv, AskInv, NEW e \in Ends, HandleData(e),
         Target(e, Frame(e)) # 0 => Frame(e).chunk \in Nat \X Nat
  PROVE  /\ Typed' /\ TableInv' /\ AskInv'
         /\ link[Peer(e)] # <<>> /\ Frame(e).h = "DATA" /\ Answer(e, <<>>) /\ events' = events
         /\ \E t :
              /\ t = Target(e, Frame(e)) /\ Touches(t)
              /\ \/ Forgets(t) /\ (t \in DOMAIN conns => conns[t].writer = "failed")
                 \/ /\ t \in DOMAIN conns /\ state' = state /\ Room(t)
                    /\ conns[t].writer = "on" /\ conns'[t].writer = "on"
                    /\ conns'[t].reader = conns[t].reader /\ conns'[t].read = conns[t].read
                    /\ conns'[t].got = conns[t].got
                    /\ conns'[t].queue = Append(conns[t].queue, Frame(e).chunk)
<1>1. link[Peer(e)] # <<>> /\ Frame(e).h = "DATA" /\ Answer(e, <<>>) /\ events' = events
  BY DEF HandleData, Incoming, Frame
<1>2. link' \in [Ends -> Seq(PeerFrame)] /\ events' \in [Ends -> Seq(LocalEvent)]
  BY <1>1, TakenFrame DEF Typed
<1>3. Incoming(e, {"DATA", "CLOSED", "ERROR"})
  BY <1>1 DEF Incoming, Frame
<1>4. PICK f, t : f = Frame(e) /\ t = Target(e, f)
  OBVIOUS
<1>5. Table(state[e], f.s2d) = TableOf(e, f.s2d)
  BY DEF Table, TableOf
<1>6. 0 \notin DOMAIN conns
  BY ConnTypes
<1>7. CASE f.sid \notin DOMAIN TableOf(e, f.s2d)
  <2>1. state' = state /\ conns' = conns /\ t = 0
    BY <1>4, <1>5, <1>7 DEF HandleData, Target
  <2>2. Typed'
    BY <1>2, <2>1 DEF Typed
  <2>3. Touches(0)
    BY <1>6, <2>1 DEF Touches
  <2>4. /\ TableInv' /\ \A d \in Ends : Restricts(d)
        /\ \A u \in DOMAIN conns : Registered(u)' = Registered(u) /\ Sending(u)' = Sending(u)
    BY <1>6, <2>1, <2>2, <2>3, StayKeeps
  <2>5. Forgets(0)
    BY <1>6, <2>3, <2>4 DEF Forgets
  <2>6. AskInv'
    BY <1>1, <1>3, <2>2, <2>3, <2>4, AskKeepsFrame
  <2>. QED
    BY <1>1, <1>4, <1>6, <2>1, <2>2, <2>3, <2>4, <2>5, <2>6
<1>8. CASE f.sid \in DOMAIN TableOf(e, f.s2d) /\ conns[TableOf(e, f.s2d)[f.sid]].writer = "failed"
  <2>1. /\ state' = [state EXCEPT ![e] = Without(@, f.s2d, f.sid)]
        /\ conns' = TeardownIn(Table(state[e], f.s2d), f.sid)
    BY <1>4, <1>5, <1>8 DEF HandleData
  <2>2. Typed' /\ TableInv' /\ Forgets(t)
    BY <1>2, <1>4, <2>1, ForgetTarget
  <2>3. Touches(t) /\ \A d \in Ends : Restricts(d)
    BY <2>2 DEF Forgets
  <2>4. AskInv'
    BY <1>1, <1>3, <2>2, <2>3, AskKeepsFrame
  <2>5. conns[t].writer = "failed"
    BY <1>4, <1>8 DEF Target
  <2>. QED
    BY <1>1, <1>4, <2>2, <2>3, <2>4, <2>5
<1>9. CASE f.sid \in DOMAIN TableOf(e, f.s2d) /\ conns[TableOf(e, f.s2d)[f.sid]].writer # "failed"
  <2>1. t = TableOf(e, f.s2d)[f.sid]
    BY <1>4, <1>9 DEF Target
  <2>2. Room(t) /\ conns' = [conns EXCEPT ![t].queue = Append(@, f.chunk)] /\ state' = state
    BY <1>4, <1>5, <1>9, <2>1 DEF HandleData
  <2>3. t # 0
    <3>1. t \in DOMAIN conns
      <4>1. CASE f.s2d
        <5>1. Is(t, e, "destination", f.sid)
          BY <1>9, <2>1, <4>1 DEF TableOf, TableInv, DestinationInv
        <5>. QED
          BY <5>1 DEF Is
      <4>2. CASE ~f.s2d
        <5>1. Is(t, e, "source", conns[t].id)
          BY <1>9, <2>1, <4>2 DEF TableOf, TableInv, SourceInv
        <5>. QED
          BY <5>1 DEF Is
      <4>. QED
        BY <4>1, <4>2
    <3>. QED
      BY <1>6, <3>1
  <2>4. /\ t \in DOMAIN conns /\ conns[t].mate # 0 /\ conns[t].reader # "none" /\ conns[t].writer = "on"
    <3>1. Target(e, f) # 0
      BY <1>4, <2>3
    <3>2. PICK v \in DOMAIN conns :
             /\ v = Target(e, f) /\ conns[v].mate # 0 /\ conns[v].reader # "none"
             /\ conns[v].writer \in {"on", "failed"}
      BY <3>1, TargetFacts, SMTT(20)
    <3>. QED
      BY <1>4, <1>9, <2>1, <3>2
  <2>5. PICK c \in Conn, x \in Nat \X Nat : c = conns[t] /\ x = f.chunk
    BY <1>4, <2>3, <2>4, ConnTypes
  <2>6. c.queue \in Seq(Nat \X Nat)
    BY DEF Conn
  <2>7. PICK q \in Seq(Nat \X Nat) : q = Append(c.queue, x)
    BY <2>6, ShiftsAppend
  <2>8. PICK d : d = [c EXCEPT !.queue = q]
    OBVIOUS
  <2>9. /\ d \in Conn /\ d.end = c.end /\ d.role = c.role /\ d.id = c.id /\ d.mate = c.mate
        /\ d.reader = c.reader /\ d.writer = c.writer /\ d.read = c.read /\ d.got = c.got /\ d.queue = q
    BY <2>8 DEF Conn
  <2>10. conns' = [conns EXCEPT ![t] = d]
    BY <2>2, <2>5, <2>7, <2>8
  <2>11. /\ conns' \in Seq(Conn) /\ DOMAIN conns' = DOMAIN conns /\ conns'[t] = d
         /\ \A u \in DOMAIN conns : u # t => conns'[u] = conns[u]
    BY <2>4, <2>9, <2>10, Replaced
  <2>12. Typed'
    BY <1>2, <2>2, <2>11 DEF Typed
  <2>13. Touches(t)
    BY <2>4, <2>5, <2>9, <2>11 DEF Touches
  <2>14. TableInv' /\ \A d_1 \in Ends : Restricts(d_1)
    BY <2>2, <2>4, <2>5, <2>9, <2>11, <2>12, <2>13, StayKeeps
  <2>15. AskInv'
    BY <1>1, <1>3, <2>12, <2>13, <2>14, AskKeepsFrame
  <2>. QED
    BY <1>1, <1>4, <2>2, <2>4, <2>5, <2>7, <2>9, <2>11, <2>12, <2>13, <2>14, <2>15, SMTT(30)
<1>. QED
  BY <1>7, <1>8, <1>9

-----------------------------------------------------------------------------
(* Nothing happens. *)

\* Nothing changes the invariant when nothing changes.
LEMMA StutterKeeps ==
  ASSUME Inv, UNCHANGED vars
  PROVE  Inv'
<1>1. state' = state /\ conns' = conns /\ events' = events /\ link' = link
  BY DEF vars
<1>2. TableInv'
  <2>1. ConnInv' /\ MateInv' /\ IdInv'
    BY <1>1 DEF Inv, TableInv, ConnInv, ConnOK, MateInv, MateOK, IdInv
  <2>2. PendingInv' /\ DestinationInv' /\ SourceInv'
    <3>1. (\A t : Sid(t)' = Sid(t)) /\ (\A t, e, r, i : Is(t, e, r, i)' <=> Is(t, e, r, i))
      BY <1>1 DEF Sid, Is
    <3>. QED
      BY <1>1, <3>1 DEF Inv, TableInv, PendingInv, DestinationInv, SourceInv
  <2>3. KnownInv' /\ LiveInv' /\ NumberInv'
    BY <1>1, SMTT(20) DEF Inv, TableInv, KnownInv, LiveInv, NumberInv, Registered, Sending, Is, Sid
  <2>. QED
    BY <2>1, <2>2, <2>3 DEF TableInv
<1>3. AskInv'
  <2>0. \A d, i, h, fd : Asks(d, i, h, fd)' <=> Asks(d, i, h, fd)
    BY <1>1 DEF Asks
  <2>1. AcceptInv'
    BY <1>1, SMTT(20) DEF Inv, AskInv, AcceptInv, Arrives, Is
  <2>2. RequestInv'
    BY <1>1, <2>0 DEF Inv, AskInv, RequestInv
  <2>3. ResponseInv'
    <3>1. \A t : Sid(t)' = Sid(t)
      BY <1>1 DEF Sid
    <3>. QED
      BY <1>1, <2>0, <3>1 DEF Inv, AskInv, ResponseInv
  <2>4. WaitingInv'
    BY <1>1, <2>0 DEF Inv, AskInv, WaitingInv
  <2>. QED
    BY <2>1, <2>2, <2>3, <2>4 DEF AskInv
<1>4. StreamInv'
  <2>1. OwnerInv'
    BY <1>1, SMTT(20) DEF Inv, StreamInv, OwnerInv, OwnersOK, Owned
  <2>2. \A m \in DOMAIN conns : EventsOK(m) => EventsOK(m)'
    BY <1>1, SMTT(30) DEF EventsOK, EventOf, Ev, ItemOK
  <2>3. \A m \in DOMAIN conns : FramesOK(m) => FramesOK(m)'
    <3>1. \A m, i : /\ FrameOf(m, i)' <=> FrameOf(m, i)
                    /\ EventOf(m, i)' <=> EventOf(m, i)
                    /\ Fr(m, i)' = Fr(m, i) /\ Ev(m, i)' = Ev(m, i) /\ Sid(m)' = Sid(m)
      BY <1>1 DEF FrameOf, Fr, EventOf, Ev, Sid
    <3>2. \A m, x, b : ItemOK(m, x, b)' <=> ItemOK(m, x, b)
      BY <1>1 DEF ItemOK
    <3>. QED
      BY <1>1, <3>1, <3>2, SMTT(20) DEF FramesOK, Asks
  <2>4. \A m \in DOMAIN conns : FlowOK(m) => FlowOK(m)'
    <3>1. \A m, n : /\ EventsAfter(m, n) => EventsAfter(m, n)'
                    /\ FramesFollow(m, n) => FramesFollow(m, n)'
      BY <1>1, SMTT(30) DEF EventsAfter, FramesFollow, FrameOf, Fr, EventOf, Ev
    <3>2. \A m, n : Whole(m, n) => Whole(m, n)'
      BY <1>1, SMTT(20) DEF Whole, Total, FrameOf, Fr, EventOf, Ev
    <3>3. \A t : /\ Receiving(t)' <=> Receiving(t)
                 /\ Sending(t)' <=> Sending(t)
                 /\ Passed(t)' = Passed(t)
      BY <1>1 DEF Receiving, Registered, Sending, Sid, Passed
    <3>. QED
      BY <1>1, <3>1, <3>2, <3>3, SMTT(20) DEF FlowOK
  <2>5. \A m \in DOMAIN conns : GotOK(m) => GotOK(m)'
    <3>1. \A t : Passed(t)' = Passed(t)
      BY <1>1 DEF Passed
    <3>. QED
      BY <1>1, <3>1 DEF GotOK
  <2>. QED
    BY <1>1, <2>1, <2>2, <2>3, <2>4, <2>5 DEF Inv, StreamInv, StreamOK
<1>. QED
  BY <1>1, <1>2, <1>3, <1>4 DEF Inv, BoundInv, Typed, Count

-----------------------------------------------------------------------------
(* Initially. *)

\* The invariants hold at the start.
LEMMA InitKeeps == Init => Typed /\ TableInv /\ AskInv /\ StreamInv
<1>. SUFFICES ASSUME Init PROVE Typed /\ TableInv /\ AskInv /\ StreamInv
  OBVIOUS
<1>1. PICK cap \in Caps : state = [e \in Ends |-> EmptyState(cap)]
  BY DEF Init
<1>2. /\ \A e \in Ends : events[e] = <<>> /\ link[e] = <<>>
      /\ conns = <<>> /\ DOMAIN conns = {} /\ DOMAIN <<>> = {}
  BY SMTT(20) DEF Init
<1>3. /\ \A e \in Ends : /\ state[e].max = cap /\ state[e].next_conn_id = 1
                         /\ state[e].pending = <<>> /\ state[e].source_sockets = <<>>
                         /\ state[e].source_conn_ids = <<>> /\ state[e].destinations = <<>>
  BY <1>1, SMTT(20) DEF EmptyState
<1>4. cap \in Nat /\ cap # 0
  BY ForwardAssumption
<1>5. Typed
  <2>1. <<>> \in Tables
    <3>1. <<>> \in [{} -> Nat]
      BY SMTT(20)
    <3>2. {} \in SUBSET Nat
      OBVIOUS
    <3>. QED
      BY <3>1, <3>2 DEF Tables
  <2>2. EmptyState(cap) \in EngineState
    BY <1>4, <2>1, SMTT(20) DEF EmptyState, EngineState
  <2>3. state \in [Ends -> EngineState]
    BY <1>1, <2>2
  <2>4. conns \in Seq(Conn)
    BY <1>2, SMTT(20)
  <2>5. events \in [Ends -> Seq(LocalEvent)] /\ link \in [Ends -> Seq(PeerFrame)]
    <3>1. <<>> \in Seq(LocalEvent) /\ <<>> \in Seq(PeerFrame)
      BY SMTT(20)
    <3>. QED
      BY <3>1 DEF Init
  <2>. QED
    BY <2>3, <2>4, <2>5 DEF Typed
<1>6. TableInv
  <2>1. ConnInv /\ MateInv /\ IdInv /\ LiveInv
    BY <1>2 DEF ConnInv, MateInv, IdInv, LiveInv
  <2>2. PendingInv /\ DestinationInv /\ SourceInv /\ KnownInv
    BY <1>2, <1>3 DEF PendingInv, DestinationInv, SourceInv, KnownInv
  <2>3. NumberInv
    <3>1. 1 # 0 /\ 1 .. 1 - 1 = {}
      BY SMTT(20)
    <3>. QED
      BY <1>3, <3>1 DEF NumberInv
  <2>. QED
    BY <2>1, <2>2, <2>3 DEF TableInv
<1>7. AskInv
  <2>1. \A e \in Ends : Peer(e) \in Ends
    BY PeerFacts
  <2>2. \A e \in Ends : \A i, h, fd : ~Asks(e, i, h, fd)
    BY <1>2 DEF Asks
  <2>3. \A e \in Ends : \A i, t : ~Arrives(e, i, t)
    BY <1>2 DEF Arrives
  <2>. QED
    BY <1>2, <2>1, <2>2, <2>3 DEF AskInv, AcceptInv, RequestInv, ResponseInv, WaitingInv
<1>8. StreamInv
  BY <1>2 DEF StreamInv, OwnerInv, OwnersOK
<1>. QED
  BY <1>5, <1>6, <1>7, <1>8

-----------------------------------------------------------------------------
(* What the invariant says. *)

\* The invariant implies that a live half is registered.
LEMMA InvLive == Inv => LiveIsRegistered
<1>. SUFFICES ASSUME Inv PROVE LiveIsRegistered
  OBVIOUS
<1>1. Typed /\ TableInv
  BY DEF Inv
<1>2. ASSUME NEW t \in DOMAIN conns, NEW u \in DOMAIN conns,
             conns[t].end = conns[u].end, conns[t].id = conns[u].id, conns[t].reader = "on"
      PROVE  t = u
  <2>1. conns[t].id # 0
    BY <1>1, <1>2 DEF TableInv, ConnInv, ConnOK
  <2>. QED
    BY <1>1, <1>2, <2>1 DEF TableInv, IdInv
<1>3. ASSUME NEW t \in DOMAIN conns, NEW e \in Ends, e = conns[t].end, conns[t].reader = "on",
             conns[t].role = "destination"
      PROVE  conns[t].id \in DOMAIN state[e].destinations /\ state[e].destinations[conns[t].id] = t
  <2>1. conns[t].id \in DOMAIN state[e].destinations
    BY <1>1, <1>3 DEF TableInv, LiveInv, Registered
  <2>2. PICK u : u = state[e].destinations[conns[t].id] /\ Is(u, e, "destination", conns[t].id)
    BY <1>1, <2>1 DEF TableInv, DestinationInv
  <2>. QED
    BY <1>2, <1>3, <2>1, <2>2 DEF Is
<1>4. ASSUME NEW t \in DOMAIN conns, NEW e \in Ends, e = conns[t].end, conns[t].reader = "on",
             conns[t].role = "source"
      PROVE  /\ conns[t].id \in DOMAIN state[e].source_conn_ids
             /\ state[e].source_conn_ids[conns[t].id] \in DOMAIN state[e].source_sockets
             /\ state[e].source_sockets[state[e].source_conn_ids[conns[t].id]] = t
  <2>1. /\ conns[t].id \in DOMAIN state[e].source_conn_ids
        /\ conns[t].mate # 0 /\ Sid(t) \in DOMAIN state[e].source_sockets
    BY <1>1, <1>4 DEF TableInv, LiveInv, Registered, Sending
  <2>2. PICK u \in DOMAIN conns : /\ Is(u, e, "source", conns[t].id)
                                  /\ state[e].source_conn_ids[conns[t].id] = Sid(u)
    BY <1>1, <2>1 DEF TableInv, KnownInv
  <2>3. u = t
    BY <1>2, <1>4, <2>2 DEF Is
  <2>4. PICK w : /\ w = state[e].source_sockets[Sid(t)] /\ Is(w, e, "source", conns[w].id)
                 /\ conns[w].mate # 0 /\ Sid(w) = Sid(t)
    BY <1>1, <2>1 DEF TableInv, SourceInv
  <2>5. w \in DOMAIN conns /\ conns[w].end = e /\ conns[w].role = "source"
    BY <2>4 DEF Is
  <2>6. w = t
    BY <1>1, <1>4, <2>1, <2>4, <2>5, SidUnique DEF TableInv
  <2>. QED
    BY <2>1, <2>2, <2>3, <2>4, <2>6
<1>. QED
  BY <1>1, <1>3, <1>4, ConnTypes DEF LiveIsRegistered, Role

\* The invariant implies that tunnels are isolated.
LEMMA InvIsolated == Inv => TunnelsIsolated
<1>. SUFFICES ASSUME Inv, NEW t \in DOMAIN conns
              PROVE  \A i \in DOMAIN (conns[t].got \o conns[t].queue) :
                        (conns[t].got \o conns[t].queue)[i] = <<conns[t].mate, i>>
  BY DEF TunnelsIsolated
<1>1. PICK g, q \in Seq(Nat \X Nat) : g = conns[t].got /\ q = conns[t].queue
  BY ConnTypes DEF Inv
<1>2. PICK m : m = conns[t].mate
  OBVIOUS
<1>3. /\ \A i \in 1 .. Len(g) : g[i] = <<m, i>>
      /\ \A i \in 1 .. Len(q) : q[i] = <<m, Len(g) + i>>
  BY <1>1, <1>2 DEF Inv, StreamInv, GotOK
<1>4. ASSUME NEW i \in DOMAIN (g \o q)
      PROVE  (g \o q)[i] = <<m, i>>
  <2>1. /\ i \in 1 .. Len(g) + Len(q)
        /\ (g \o q)[i] = IF i <= Len(g) THEN g[i] ELSE q[i - Len(g)]
    BY SMTT(20)
  <2>2. CASE i <= Len(g)
    <3>1. i \in 1 .. Len(g)
      BY <2>1, <2>2, SMTT(20)
    <3>. QED
      BY <1>3, <2>1, <2>2, <3>1
  <2>3. CASE ~(i <= Len(g))
    <3>1. i - Len(g) \in 1 .. Len(q) /\ Len(g) + (i - Len(g)) = i
      BY <2>1, <2>3, SMTT(20)
    <3>2. q[i - Len(g)] = <<m, Len(g) + (i - Len(g))>>
      BY <1>3, <3>1
    <3>. QED
      BY <2>1, <2>3, <3>1, <3>2
  <2>. QED
    BY <2>2, <2>3
<1>. QED
  BY <1>1, <1>2, <1>4

\* The invariant implies that a close comes after all data.
LEMMA InvClose == Inv => CloseAfterData
<1>. SUFFICES ASSUME Inv, NEW t \in DOMAIN conns, NEW m, m = conns[t].mate, m # 0,
                     conns[t].writer = "off", conns[t].reader = "off"
              PROVE  Len(conns[t].got) = conns[m].read
  BY DEF CloseAfterData
<1>1. PICK g, q \in Seq(Nat \X Nat) : g = conns[t].got /\ q = conns[t].queue
  BY ConnTypes DEF Inv
<1>2. q = <<>> /\ Passed(t) = conns[m].read
  BY <1>1 DEF Inv, StreamInv, GotOK
<1>3. Passed(t) = Len(g) + Len(q)
  BY <1>1 DEF Passed
<1>4. Len(g) + Len(q) = Len(g)
  BY <1>2, SMTT(20)
<1>. QED
  BY <1>1, <1>2, <1>3, <1>4

-----------------------------------------------------------------------------
(* Connections that are accepted. *)

\* Connections may be added; of the others only t changes, a source that waits
\* for its tunnel.
Evolves(t) ==
    /\ DOMAIN conns \subseteq DOMAIN conns'
    /\ \A u \in DOMAIN conns : u # t => conns'[u] = conns[u]
    /\ t \in DOMAIN conns =>
          /\ conns[t].role = "source" /\ conns[t].reader = "none"
          /\ conns'[t].end = conns[t].end /\ conns'[t].role = conns[t].role
          /\ conns[t].id # 0 => conns'[t].id = conns[t].id
          /\ conns[t].mate # 0 => conns'[t].mate = conns[t].mate

\* Whoever has an id or a mate keeps it.
LEMMA EvolvesFacts ==
  ASSUME Typed, MateInv, NEW t, Evolves(t), NEW u \in DOMAIN conns
  PROVE  /\ u \in DOMAIN conns' /\ conns'[u].end = conns[u].end /\ conns'[u].role = conns[u].role
         /\ conns[u].id # 0 => conns'[u].id = conns[u].id
         /\ conns[u].mate # 0 => /\ conns'[u].mate = conns[u].mate /\ conns'[u].id = conns[u].id
                                 /\ Sid(u)' = Sid(u)
<1>1. \A v \in DOMAIN conns :
         /\ v \in DOMAIN conns' /\ conns'[v].end = conns[v].end /\ conns'[v].role = conns[v].role
         /\ conns[v].id # 0 => conns'[v].id = conns[v].id
         /\ conns[v].mate # 0 => conns'[v].mate = conns[v].mate
  BY DEF Evolves
<1>2. ASSUME conns[u].mate # 0
      PROVE  conns'[u].id = conns[u].id /\ Sid(u)' = Sid(u)
  <2>1. PICK m \in DOMAIN conns : m = conns[u].mate /\ conns[m].mate = u /\ conns[u].id # 0
    BY <1>2 DEF MateInv, MateOK
  <2>2. conns[m].id # 0
    BY <2>1, ConnTypes DEF MateInv, MateOK
  <2>. QED
    BY <1>1, <1>2, <2>1, <2>2 DEF Sid
<1>. QED
  BY <1>1, <1>2

\* The new connections, and t, are right.
NewConnsOK(t) ==
    \A u \in DOMAIN conns' : u \notin DOMAIN conns \/ u = t =>
        /\ ConnOK(u)' /\ MateOK(u)'
        /\ conns'[u].reader = "on" => Registered(u)' /\ Sending(u)'

\* No entry is lost.
TablesGrow ==
    \A d \in Ends :
        /\ state'[d].next_conn_id >= state[d].next_conn_id
        /\ \A k \in DOMAIN state[d].destinations :
              k \in DOMAIN state'[d].destinations /\ state'[d].destinations[k] = state[d].destinations[k]
        /\ \A k \in DOMAIN state[d].source_sockets :
              k \in DOMAIN state'[d].source_sockets /\ state'[d].source_sockets[k] = state[d].source_sockets[k]
        /\ \A k \in DOMAIN state[d].source_conn_ids :
              /\ k \in DOMAIN state'[d].source_conn_ids
              /\ state'[d].source_conn_ids[k] = state[d].source_conn_ids[k]

\* The new entries are right.
NewDestinationsOK ==
    \A d \in Ends : \A k \in DOMAIN state'[d].destinations : k \in DOMAIN state[d].destinations \/
        \E u : u = state'[d].destinations[k] /\ Is(u, d, "destination", k)' /\ conns'[u].writer \in {"on", "failed"}
NewSource(d, k, u) ==
    /\ u = state'[d].source_sockets[k] /\ Is(u, d, "source", conns[u].id)'
    /\ conns'[u].mate # 0 /\ Sid(u)' = k
    /\ conns'[u].id \in DOMAIN state'[d].source_conn_ids /\ conns'[u].writer \in {"on", "failed"}
NewSourcesOK ==
    \A d \in Ends : \A k \in DOMAIN state'[d].source_sockets :
        k \in DOMAIN state[d].source_sockets \/ \E u : NewSource(d, k, u)
NewKnownOK ==
    \A d \in Ends : \A k \in DOMAIN state'[d].source_conn_ids : k \in DOMAIN state[d].source_conn_ids \/
        \E u \in DOMAIN conns' : /\ Is(u, d, "source", k)' /\ conns'[u].mate # 0 /\ conns'[u].reader # "none"
                                 /\ state'[d].source_conn_ids[k] = Sid(u)'

\* Such a step keeps what it does not add.
LEMMA EvolveKeeps ==
  ASSUME Typed, Typed', TableInv, NEW t, Evolves(t), NewConnsOK(t), TablesGrow,
         NewDestinationsOK, NewSourcesOK, NewKnownOK,
         IdInv', PendingInv', NumberInv'
  PROVE  TableInv'
<1>. USE DEF TableInv
<1>1. \A u \in DOMAIN conns :
         /\ u \in DOMAIN conns' /\ conns'[u].end = conns[u].end /\ conns'[u].role = conns[u].role
         /\ conns[u].id # 0 => conns'[u].id = conns[u].id
         /\ conns[u].mate # 0 => /\ conns'[u].mate = conns[u].mate /\ conns'[u].id = conns[u].id
                                 /\ Sid(u)' = Sid(u)
  BY EvolvesFacts
<1>2. \A u \in DOMAIN conns : u # t => conns'[u] = conns[u]
  BY DEF Evolves
<1>3. \A u \in DOMAIN conns : conns[u].end \in Ends /\ u # 0 /\ conns[u].id \in Nat
  BY ConnTypes
<1>4. ConnInv'
  <2>1. ASSUME NEW u \in DOMAIN conns, u # t
        PROVE  ConnOK(u)'
    <3>1. PICK n \in Nat, m \in Nat :
             n = state[conns[u].end].next_conn_id /\ m = state'[conns[u].end].next_conn_id /\ m >= n
      <4>1. PICK d \in Ends : d = conns[u].end
        BY <1>3
      <4>2. state'[d] \in EngineState
        BY DEF Typed
      <4>3. state[d].next_conn_id \in Nat /\ state'[d].next_conn_id \in Nat
        BY <4>2, StateTypes DEF EngineState
      <4>. QED
        BY <4>1, <4>3 DEF TablesGrow
    <3>2. ConnOK(u) /\ conns'[u] = conns[u] /\ conns[u].id \in Nat
      BY <1>2, <1>3, <2>1 DEF ConnInv
    <3>. QED
      BY <3>1, <3>2, SMTT(20) DEF ConnOK
  <2>. QED
    BY <2>1 DEF ConnInv, NewConnsOK
<1>5. MateInv'
  <2>1. ASSUME NEW u \in DOMAIN conns, u # t, conns'[u].mate # 0
        PROVE  MateOK(u)'
    <3>1. conns'[u] = conns[u] /\ MateOK(u)
      BY <1>2, <2>1 DEF MateInv
    <3>2. PICK m \in DOMAIN conns : m = conns[u].mate /\ conns[m].mate = u
      BY <2>1, <3>1 DEF MateOK
    <3>. QED
      BY <1>1, <1>3, <3>1, <3>2 DEF MateOK
  <2>. QED
    BY <2>1 DEF MateInv, MateOK, NewConnsOK
<1>6. \A u, d, role, id : Is(u, d, role, id) /\ id # 0 => Is(u, d, role, id)'
  BY <1>1 DEF Is
<1>7. DestinationInv'
  <2>1. ASSUME NEW d \in Ends, NEW k \in DOMAIN state'[d].destinations, k \in DOMAIN state[d].destinations
        PROVE  \E u : /\ u = state'[d].destinations[k] /\ Is(u, d, "destination", k)'
                      /\ conns'[u].writer \in {"on", "failed"}
    <3>1. PICK u : u = state[d].destinations[k] /\ u = state'[d].destinations[k]
      BY <2>1 DEF TablesGrow
    <3>2. Is(u, d, "destination", k) /\ conns[u].writer \in {"on", "failed"}
      BY <2>1, <3>1 DEF DestinationInv
    <3>3. u \in DOMAIN conns /\ conns[u].role = "destination"
      BY <3>2 DEF Is
    <3>4. conns'[u] = conns[u] /\ u \in DOMAIN conns'
      BY <1>1, <3>3 DEF Evolves
    <3>. QED
      BY <3>1, <3>2, <3>4 DEF Is
  <2>. QED
    BY <2>1 DEF DestinationInv, NewDestinationsOK
<1>8. SourceInv'
  <2>1. ASSUME NEW d \in Ends, NEW k \in DOMAIN state'[d].source_sockets, k \in DOMAIN state[d].source_sockets
        PROVE  \E u : NewSource(d, k, u)
    <3>1. PICK u : u = state[d].source_sockets[k] /\ u = state'[d].source_sockets[k]
      BY <2>1 DEF TablesGrow
    <3>2. /\ Is(u, d, "source", conns[u].id) /\ conns[u].mate # 0 /\ Sid(u) = k
          /\ conns[u].id \in DOMAIN state[d].source_conn_ids /\ conns[u].writer \in {"on", "failed"}
      BY <2>1, <3>1 DEF SourceInv
    <3>3. u \in DOMAIN conns
      BY <3>2 DEF Is
    <3>4. conns[u].reader # "none"
      BY <3>2, <3>3 DEF ConnInv, ConnOK
    <3>5. conns'[u] = conns[u] /\ u \in DOMAIN conns' /\ Sid(u)' = Sid(u)
      BY <1>1, <3>2, <3>3, <3>4 DEF Evolves
    <3>6. conns'[u].id \in DOMAIN state'[d].source_conn_ids
      BY <3>2, <3>5 DEF TablesGrow
    <3>7. Is(u, d, "source", conns[u].id)'
      BY <3>2, <3>5 DEF Is
    <3>. QED
      BY <3>1, <3>2, <3>5, <3>6, <3>7 DEF NewSource
  <2>2. ASSUME NEW d \in Ends, NEW k \in DOMAIN state'[d].source_sockets
        PROVE  \E u : NewSource(d, k, u)
    BY <2>1 DEF NewSourcesOK
  <2>3. ASSUME NEW d \in Ends, NEW k \in DOMAIN state'[d].source_sockets,
               NEW u, u = state'[d].source_sockets[k]
        PROVE  /\ Is(u, d, "source", conns[u].id)'
               /\ conns'[u].mate # 0 /\ Sid(u)' = k
               /\ conns'[u].id \in DOMAIN state'[d].source_conn_ids
               /\ conns'[u].writer \in {"on", "failed"}
    <3>1. PICK v : NewSource(d, k, v)
      BY <2>2
    <3>2. v = u
      BY <2>3, <3>1 DEF NewSource
    <3>. QED
      BY <3>1, <3>2 DEF NewSource
  <2>4. ASSUME NEW d \in Ends, NEW k \in DOMAIN state'[d].source_sockets
        PROVE  /\ Is(state[d].source_sockets[k], d, "source", conns[state[d].source_sockets[k]].id)'
               /\ conns'[state'[d].source_sockets[k]].mate # 0 /\ Sid(state[d].source_sockets[k])' = k
               /\ conns'[state'[d].source_sockets[k]].id \in DOMAIN state'[d].source_conn_ids
               /\ conns'[state'[d].source_sockets[k]].writer \in {"on", "failed"}
    <3>1. PICK u : u = state'[d].source_sockets[k]
      OBVIOUS
    <3>. QED
      BY <2>3, <3>1, SMTT(20) DEF Is, Sid
  <2>. QED
    BY <2>4 DEF SourceInv
<1>9. KnownInv'
  <2>1. ASSUME NEW d \in Ends, NEW k \in DOMAIN state'[d].source_conn_ids, k \in DOMAIN state[d].source_conn_ids
        PROVE  \E u \in DOMAIN conns' : /\ Is(u, d, "source", k)' /\ conns'[u].mate # 0 /\ conns'[u].reader # "none"
                                        /\ state'[d].source_conn_ids[k] = Sid(u)'
    <3>1. PICK u \in DOMAIN conns : /\ Is(u, d, "source", k) /\ conns[u].mate # 0 /\ conns[u].reader # "none"
                                    /\ state[d].source_conn_ids[k] = Sid(u)
      BY <2>1 DEF KnownInv
    <3>2. conns'[u] = conns[u] /\ u \in DOMAIN conns' /\ Sid(u)' = Sid(u)
      BY <1>1, <3>1 DEF Evolves
    <3>3. state'[d].source_conn_ids[k] = state[d].source_conn_ids[k]
      BY <2>1 DEF TablesGrow
    <3>. QED
      BY <3>1, <3>2, <3>3 DEF Is
  <2>. QED
    BY <2>1 DEF KnownInv, NewKnownOK
<1>10. LiveInv'
  <2>1. ASSUME NEW u \in DOMAIN conns, u # t, conns'[u].reader = "on"
        PROVE  Registered(u)' /\ Sending(u)'
    <3>1. conns'[u] = conns[u] /\ conns[u].end \in Ends
      BY <1>2, <1>3, <2>1
    <3>2. Registered(u) /\ Sending(u)
      BY <2>1, <3>1 DEF LiveInv
    <3>3. Registered(u)'
      BY <1>1, <3>1, <3>2, SMTT(20) DEF Registered, TablesGrow
    <3>4. Sending(u)'
      BY <3>1, <3>2 DEF Sending, TablesGrow
    <3>. QED
      BY <3>3, <3>4
  <2>. QED
    BY <2>1 DEF LiveInv, NewConnsOK
<1>. QED
  BY <1>4, <1>5, <1>7, <1>8, <1>9, <1>10

\* A listener accepts.
LEMMA AcceptEffect ==
  ASSUME Typed, NEW e \in Ends, Accept(e)
  PROVE  \E n \in Nat \ {0} :
            /\ n = Len(conns) + 1 /\ n \notin DOMAIN conns /\ DOMAIN conns' = DOMAIN conns \cup {n}
            /\ Typed' /\ state' = state /\ link' = link
            /\ conns'[n] = Local(e, "source", 0, 0) /\ \A u \in DOMAIN conns : conns'[u] = conns[u]
            /\ events' = [events EXCEPT ![e] = Append(@, Accepted(n))] /\ Accepted(n) \in LocalEvent
<1>1. PICK n \in Nat \ {0} : n = Len(conns) + 1
  BY SMTT(20) DEF Typed
<1>2. PICK none \in Seq(Nat \X Nat) : none = <<>>
  BY EmptySequence
<1>3. PICK c \in Conn : c = Local(e, "source", 0, 0)
  <2>1. [end |-> e, role |-> "source", id |-> 0, mate |-> 0, reader |-> "none", writer |-> "none",
         read |-> 0, queue |-> none, got |-> none] \in Conn
    BY DEF Conn, Role
  <2>. QED
    BY <1>2, <2>1 DEF Local
<1>4. /\ conns' = Append(conns, c) /\ state' = state /\ link' = link
      /\ events' = [events EXCEPT ![e] = Append(@, Accepted(n))]
  BY <1>1, <1>3 DEF Accept
<1>5. conns \in Seq(Conn)
  BY DEF Typed
<1>6. /\ conns' \in Seq(Conn) /\ DOMAIN conns' = DOMAIN conns \cup {n} /\ conns'[n] = c
      /\ \A u \in DOMAIN conns : conns'[u] = conns[u]
      /\ n \notin DOMAIN conns
  BY <1>1, <1>4, <1>5, SMTT(20)
<1>7. Accepted(n) \in LocalEvent
  BY DEF Accepted, LocalEvent, Chunk
<1>8. events' \in [Ends -> Seq(LocalEvent)]
  BY <1>4, <1>7, PostFacts
<1>9. Typed'
  BY <1>4, <1>6, <1>8 DEF Typed
<1>. QED
  BY <1>1, <1>3, <1>4, <1>6, <1>7, <1>9

\* An accept keeps the invariants.
LEMMA AcceptKeeps ==
  ASSUME Typed, TableInv, AskInv, NEW e \in Ends, Accept(e)
  PROVE  Typed' /\ TableInv' /\ AskInv'
<1>1. PICK n \in Nat \ {0} :
         /\ n = Len(conns) + 1 /\ n \notin DOMAIN conns /\ DOMAIN conns' = DOMAIN conns \cup {n}
         /\ Typed' /\ state' = state /\ link' = link
         /\ conns'[n] = Local(e, "source", 0, 0) /\ \A u \in DOMAIN conns : conns'[u] = conns[u]
         /\ events' = [events EXCEPT ![e] = Append(@, Accepted(n))] /\ Accepted(n) \in LocalEvent
  BY AcceptEffect
<1>2. /\ conns'[n].end = e /\ conns'[n].role = "source" /\ conns'[n].id = 0 /\ conns'[n].mate = 0
      /\ conns'[n].reader = "none" /\ conns'[n].writer = "none"
      /\ conns'[n].read = 0 /\ conns'[n].queue = <<>> /\ conns'[n].got = <<>>
  BY <1>1, SMTT(20) DEF Local
<1>3. 0 \notin DOMAIN conns
  BY ConnTypes
<1>4. Evolves(0)
  BY <1>1, <1>3 DEF Evolves
<1>5. \A u, d, role, id : u \in DOMAIN conns => (Is(u, d, role, id)' <=> Is(u, d, role, id))
  BY <1>1 DEF Is
<1>6. NewConnsOK(0)
  <2>1. ConnOK(n)'
    <3>1. state[e].next_conn_id \in Nat /\ state[e].next_conn_id # 0
      BY StateTypes DEF TableInv, NumberInv
    <3>. QED
      BY <1>1, <1>2, <3>1, SMTT(20) DEF ConnOK
  <2>2. MateOK(n)' /\ conns'[n].reader # "on"
    BY <1>2 DEF MateOK
  <2>3. \A u \in DOMAIN conns' : u \notin DOMAIN conns \/ u = 0 => u = n
    BY <1>1, <1>3
  <2>. QED
    BY <2>1, <2>2, <2>3 DEF NewConnsOK
<1>7. TablesGrow
  <2>1. \A d \in Ends : state[d].next_conn_id \in Nat
    BY StateTypes
  <2>. QED
    BY <1>1, <2>1, SMTT(20) DEF TablesGrow
<1>8. NewDestinationsOK /\ NewSourcesOK /\ NewKnownOK
  BY <1>1 DEF NewDestinationsOK, NewSourcesOK, NewKnownOK
<1>9. IdInv'
  <2>1. ASSUME NEW t \in DOMAIN conns', NEW u \in DOMAIN conns',
               conns'[t].end = conns'[u].end, conns'[t].id = conns'[u].id, conns'[t].id # 0
        PROVE  t = u
    <3>1. t \in DOMAIN conns /\ u \in DOMAIN conns
      BY <1>1, <1>2, <2>1
    <3>. QED
      BY <1>1, <2>1, <3>1 DEF TableInv, IdInv
  <2>. QED
    BY <2>1 DEF IdInv
<1>10. PendingInv'
  <2>1. ASSUME NEW d \in Ends, NEW id \in DOMAIN state[d].pending
        PROVE  \E u : u = state[d].pending[id] /\ Is(u, d, "source", id)' /\ id # 0 /\ conns'[u].reader = "none"
    <3>1. PICK u : u = state[d].pending[id] /\ Is(u, d, "source", id) /\ id # 0 /\ conns[u].reader = "none"
      BY <2>1 DEF TableInv, PendingInv
    <3>2. u \in DOMAIN conns
      BY <3>1 DEF Is
    <3>. QED
      BY <1>1, <1>5, <3>1, <3>2
  <2>. QED
    BY <1>1, <2>1, SMTT(20) DEF PendingInv
<1>11. NumberInv'
  <2>1. ASSUME NEW d \in Ends, NEW id \in 1 .. state'[d].next_conn_id - 1
        PROVE  \E t \in DOMAIN conns' : Is(t, d, "source", id)'
    <3>1. PICK t \in DOMAIN conns : Is(t, d, "source", id)
      BY <1>1, <2>1 DEF TableInv, NumberInv
    <3>. QED
      BY <1>1, <1>5, <3>1
  <2>. QED
    BY <1>1, <2>1 DEF TableInv, NumberInv
<1>12. TableInv'
  BY <1>1, <1>4, <1>6, <1>7, <1>8, <1>9, <1>10, <1>11, EvolveKeeps
<1>14. AcceptInv'
  <2>1. ASSUME NEW d \in Ends, NEW t \in Nat, NEW i \in Nat
        PROVE  Arrives(d, i, t)' <=> Arrives(d, i, t) \/ (d = e /\ i = Len(events[e]) + 1 /\ t = n)
    <3>. PICK x \in LocalEvent : x = Accepted(n) /\ x.k = "accepted" /\ x.id = n
      BY <1>1 DEF Accepted
    <3>1. events[d] \in Seq(LocalEvent)
      BY DEF Typed
    <3>2. CASE d = e
      <4>1. events'[d] = Append(events[d], x)
        BY <1>1, <3>2 DEF Typed
      <4>. QED
        BY <3>1, <3>2, <4>1, SMTT(20) DEF Arrives
    <3>3. CASE d # e
      BY <1>1, <3>3 DEF Arrives, Typed
    <3>. QED
      BY <3>2, <3>3
  <2>2. ASSUME NEW d \in Ends, NEW t \in Nat, NEW i \in Nat, Arrives(d, i, t)
        PROVE  t \in DOMAIN conns /\ t # n /\ Is(t, d, "source", 0)'
    <3>1. Is(t, d, "source", 0)
      BY <2>2 DEF AskInv, AcceptInv
    <3>. QED
      BY <1>1, <1>5, <3>1 DEF Is
  <2>3. Is(n, e, "source", 0)'
    BY <1>1, <1>2 DEF Is
  <2>4. \A d \in Ends : \A t, i, j \in Nat : Arrives(d, i, t) /\ Arrives(d, j, t) => i = j
    BY DEF AskInv, AcceptInv
  <2>. QED
    BY <2>1, <2>2, <2>3, <2>4, SMTT(20) DEF AcceptInv
<1>15. \A d \in Ends : \A id \in DOMAIN state[d].pending : state[d].pending[id] \in DOMAIN conns
  BY DEF TableInv, PendingInv, Is
<1>16. \A u \in DOMAIN conns : conns[u].mate # 0 => Sid(u)' = Sid(u)
  BY <1>4, EvolvesFacts DEF TableInv
<1>17. \A d, i, h, fd : Asks(d, i, h, fd)' <=> Asks(d, i, h, fd)
  BY <1>1 DEF Asks
<1>18. RequestInv'
  <2>1. ASSUME NEW d \in Ends, NEW fd \in DOMAIN state[d].pending
        PROVE  conns'[state'[d].pending[fd]] = conns[state[d].pending[fd]]
    BY <1>1, <1>15
  <2>2. RequestInv
    BY DEF AskInv
  <2>. QED
    BY <1>1, <1>17, <2>1, <2>2, SMTT(20) DEF RequestInv
<1>19. ResponseInv'
  BY <1>1, <1>15, <1>16, <1>17, SMTT(20) DEF AskInv, ResponseInv
<1>20. WaitingInv'
  BY <1>1, <1>2, <1>17 DEF AskInv, WaitingInv
<1>. QED
  BY <1>1, <1>12, <1>14, <1>18, <1>19, <1>20 DEF AskInv

\* A sequence with one more item.
LEMMA Extended ==
  ASSUME NEW S, NEW x \in Seq(S), NEW f \in S
  PROVE  \E y \in Seq(S) : /\ y = x \o << f >> /\ Len(x) \in Nat /\ DOMAIN x = 1 .. Len(x)
                           /\ DOMAIN y = 1 .. Len(x) + 1 /\ y[Len(x) + 1] = f
                           /\ \A i \in 1 .. Len(x) : y[i] = x[i]
<1>1. x \o << f >> \in Seq(S)
  BY SMTT(20)
<1>2. Len(x) \in Nat /\ DOMAIN x = 1 .. Len(x) /\ DOMAIN (x \o << f >>) = 1 .. Len(x) + 1
  BY SMTT(20)
<1>3. (x \o << f >>)[Len(x) + 1] = f /\ \A i \in 1 .. Len(x) : (x \o << f >>)[i] = x[i]
  BY SMTT(20)
<1>. QED
  BY <1>1, <1>2, <1>3

\* The frames after one more was sent.
LEMMA EmitAsks ==
  ASSUME Typed, NEW e \in Ends, NEW f \in PeerFrame, Emit(e, << f >>)
  PROVE  /\ link' \in [Ends -> Seq(PeerFrame)] /\ Len(link[e]) + 1 \in DOMAIN link'[e] /\ Len(link[e]) \in Nat
         /\ link'[e][Len(link[e]) + 1] = f
         /\ \A d \in Ends : \A i \in DOMAIN link[d] : i \in DOMAIN link'[d] /\ link'[d][i] = link[d][i]
         /\ \A d \in Ends : \A i \in DOMAIN link'[d] : i \in DOMAIN link[d] \/ (d = e /\ i = Len(link[e]) + 1)
<1>1. PICK x \in Seq(PeerFrame) : x = link[e]
  BY DEF Typed
<1>2. PICK y \in Seq(PeerFrame) : /\ y = x \o << f >> /\ Len(x) \in Nat /\ DOMAIN x = 1 .. Len(x)
                                  /\ DOMAIN y = 1 .. Len(x) + 1 /\ y[Len(x) + 1] = f
                                  /\ \A i \in 1 .. Len(x) : y[i] = x[i]
  BY Extended
<1>3. link' = [link EXCEPT ![e] = y]
  BY <1>1, <1>2 DEF Emit
<1>4. /\ link' \in [Ends -> Seq(PeerFrame)] /\ link'[e] = y
      /\ \A d \in Ends : d # e => link'[d] = link[d]
  BY <1>3 DEF Typed
<1>5. \A i \in DOMAIN x : i \in DOMAIN y /\ y[i] = x[i]
  BY <1>2, SMTT(20)
<1>6. \A i \in DOMAIN y : i \in DOMAIN x \/ i = Len(x) + 1
  BY <1>2, SMTT(20)
<1>7. Len(x) + 1 \in DOMAIN y
  BY <1>2, SMTT(20)
<1>8. \A d \in Ends : \A i \in DOMAIN link[d] : i \in DOMAIN link'[d] /\ link'[d][i] = link[d][i]
  BY <1>1, <1>4, <1>5
<1>9. \A d \in Ends : \A i \in DOMAIN link'[d] : i \in DOMAIN link[d] \/ (d = e /\ i = Len(link[e]) + 1)
  <2>1. \A i \in DOMAIN link'[e] : i \in DOMAIN link[e] \/ i = Len(link[e]) + 1
    BY <1>1, <1>4, <1>6
  <2>2. \A d \in Ends : d # e => DOMAIN link'[d] = DOMAIN link[d]
    BY <1>4
  <2>. QED
    BY <2>1, <2>2
<1>. QED
  BY <1>1, <1>2, <1>4, <1>7, <1>8, <1>9

\* The engine of e gives t the next id and asks for its tunnel.
Numbers(e, t, id) ==
    /\ events[e] # <<>> /\ Take(e)
    /\ Arrives(e, 1, t) /\ Is(t, e, "source", 0) /\ conns[t].reader = "none" /\ conns[t].mate = 0
    /\ DOMAIN conns' = DOMAIN conns /\ conns'[t] = [conns[t] EXCEPT !.id = id]
    /\ \A u \in DOMAIN conns : u # t => conns'[u] = conns[u]
    /\ id = state[e].next_conn_id /\ state'[e].next_conn_id = id + 1
    /\ DOMAIN state'[e].pending = DOMAIN state[e].pending \cup {id} /\ state'[e].pending[id] = t
    /\ \A x \in DOMAIN state[e].pending : x # id => state'[e].pending[x] = state[e].pending[x]
    /\ state'[e].source_sockets = state[e].source_sockets
    /\ state'[e].source_conn_ids = state[e].source_conn_ids
    /\ state'[e].destinations = state[e].destinations /\ state'[e].max = state[e].max
    /\ \A d \in Ends : d # e => state'[d] = state[d]
    /\ Emit(e, << Request(id) >>) /\ Request(id) \in PeerFrame

\* What handling an accepted connection does.
LEMMA HandleAcceptedEffect ==
  ASSUME Typed, TableInv, AskInv, NEW e \in Ends, HandleAccepted(e)
  PROVE  /\ Typed'
         /\ \E t \in DOMAIN conns, id \in Nat \ {0} : Numbers(e, t, id)
<1>1. PICK t, id : t = Head(events[e]).id /\ id = state[e].next_conn_id
  OBVIOUS
<1>2. /\ events[e] # <<>> /\ Head(events[e]).k = "accepted" /\ Take(e)
      /\ state' = [state EXCEPT ![e].next_conn_id = id + 1, ![e].pending = Insert(@, id, t)]
      /\ conns' = [conns EXCEPT ![t].id = id]
      /\ Emit(e, << Request(id) >>)
  BY <1>1 DEF HandleAccepted
<1>3. /\ events' \in [Ends -> Seq(LocalEvent)] /\ 1 \in DOMAIN events[e] /\ Head(events[e]) = events[e][1]
      /\ Head(events[e]) \in LocalEvent
  BY <1>2, TakeFacts
<1>4. Arrives(e, 1, t) /\ t \in Nat
  BY <1>1, <1>2, <1>3 DEF Arrives, LocalEvent
<1>5. Is(t, e, "source", 0)
  BY <1>4 DEF AskInv, AcceptInv
<1>6. t \in DOMAIN conns /\ conns[t].id = 0
  BY <1>5 DEF Is
<1>7. conns[t].reader = "none" /\ conns[t].mate = 0
  BY <1>6, ConnTypes DEF TableInv, ConnInv, ConnOK, MateInv, MateOK
<1>8. id \in Nat \ {0}
  BY <1>1, StateTypes DEF TableInv, NumberInv
<1>9. PICK c \in Conn : c = conns[t]
  BY <1>6, ConnTypes
<1>10. PICK d \in Conn : d = [c EXCEPT !.id = id]
  BY <1>8 DEF Conn
<1>11. conns' = [conns EXCEPT ![t] = d]
  BY <1>2, <1>9, <1>10
<1>12. /\ conns' \in Seq(Conn) /\ DOMAIN conns' = DOMAIN conns /\ conns'[t] = d
       /\ \A u \in DOMAIN conns : u # t => conns'[u] = conns[u]
  BY <1>6, <1>11, Replaced
<1>13. PICK p \in Tables :
          /\ p = Insert(state[e].pending, id, t)
          /\ DOMAIN p = DOMAIN state[e].pending \cup {id} /\ p[id] = t
          /\ \A x \in DOMAIN state[e].pending : x # id => p[x] = state[e].pending[x]
  <2>1. PICK g \in Tables : g = state[e].pending
    BY StateTypes
  <2>2. /\ Insert(g, id, t) \in Tables /\ DOMAIN Insert(g, id, t) = DOMAIN g \cup {id} /\ Insert(g, id, t)[id] = t
        /\ \A x \in DOMAIN g : x # id => Insert(g, id, t)[x] = g[x]
    <3>1. t \in Nat /\ id \in Nat
      BY <1>6, <1>8, ConnTypes
    <3>. QED
      BY <3>1, Inserted
  <2>. QED
    BY <2>1, <2>2
<1>14. PICK s \in EngineState : s = state[e]
  BY StateTypes
<1>15. PICK r : r = [s EXCEPT !.next_conn_id = id + 1, !.pending = p]
  OBVIOUS
<1>16. /\ r \in EngineState /\ r.next_conn_id = id + 1 /\ r.pending = p
       /\ r.source_sockets = s.source_sockets /\ r.source_conn_ids = s.source_conn_ids
       /\ r.destinations = s.destinations /\ r.max = s.max
  <2>1. id + 1 \in Nat
    BY <1>8, SMTT(20)
  <2>. QED
    BY <1>15, <2>1 DEF EngineState
<1>17. state' = [state EXCEPT ![e] = r]
  BY <1>2, <1>13, <1>14, <1>15
<1>18. /\ state' \in [Ends -> EngineState]
       /\ state'[e].next_conn_id = id + 1
       /\ state'[e].pending = p
       /\ state'[e].source_sockets = state[e].source_sockets
       /\ state'[e].source_conn_ids = state[e].source_conn_ids
       /\ state'[e].destinations = state[e].destinations /\ state'[e].max = state[e].max
       /\ \A x \in Ends : x # e => state'[x] = state[x]
  BY <1>13, <1>14, <1>16, <1>17 DEF Typed
<1>19. Request(id) \in PeerFrame
  BY <1>8 DEF Request, PeerFrame, Chunk
<1>20. link' \in [Ends -> Seq(PeerFrame)]
  BY <1>2, <1>19, EmitAsks
<1>22. Typed'
  BY <1>3, <1>12, <1>18, <1>20 DEF Typed
<1>21. conns'[t] = [conns[t] EXCEPT !.id = id]
  BY <1>9, <1>10, <1>12
<1>23. Numbers(e, t, id)
  <2>1. /\ DOMAIN state'[e].pending = DOMAIN state[e].pending \cup {id} /\ state'[e].pending[id] = t
        /\ \A x \in DOMAIN state[e].pending : x # id => state'[e].pending[x] = state[e].pending[x]
    BY <1>13, <1>18
  <2>. QED
    BY <1>1, <1>2, <1>4, <1>5, <1>7, <1>12, <1>18, <1>19, <1>21, <2>1 DEF Numbers
<1>. QED
  BY <1>2, <1>6, <1>8, <1>22, <1>23

\* There are ids left for the connections that have none.
IdsLeft ==
    \A e \in Ends : /\ state[e].next_conn_id <= MaxConns[e] + 1
                    /\ \A t \in DOMAIN conns : Is(t, e, "source", 0) => state[e].next_conn_id <= MaxConns[e]

\* An id handed out is nobody's.
LEMMA FreshId ==
  ASSUME Typed, TableInv, IdsLeft, NEW e \in Ends, NEW t \in DOMAIN conns, Is(t, e, "source", 0),
         NEW u \in DOMAIN conns, conns[u].end = e
  PROVE  conns[u].id # state[e].next_conn_id
<1>1. CASE conns[u].role = "source"
  BY <1>1, ConnTypes, StateTypes, SMTT(20) DEF TableInv, ConnInv, ConnOK
<1>2. CASE conns[u].role = "destination"
  <2>1. conns[u].id \in SocketIds[e]
    BY <1>2 DEF TableInv, ConnInv, ConnOK
  <2>2. state[e].next_conn_id <= MaxConns[e]
    BY DEF IdsLeft
  <2>3. state[e].next_conn_id \in Nat \ {0}
    BY StateTypes DEF TableInv, NumberInv
  <2>. QED
    BY <2>1, <2>2, <2>3, IdsAssumption, ForwardAssumption, SMTT(20)
<1>. QED
  BY <1>1, <1>2, ConnTypes DEF Role

\* Accepted connections keep the tables right.
LEMMA HandleAcceptedTables ==
  ASSUME Typed, Typed', TableInv, IdsLeft, NEW e \in Ends, NEW t \in DOMAIN conns, NEW id \in Nat \ {0},
         Numbers(e, t, id)
  PROVE  TableInv'
<1>1. /\ Is(t, e, "source", 0) /\ conns[t].reader = "none" /\ conns[t].mate = 0
      /\ DOMAIN conns' = DOMAIN conns /\ id = state[e].next_conn_id
      /\ \A u \in DOMAIN conns : u # t => conns'[u] = conns[u]
  BY DEF Numbers
<1>2. /\ conns'[t].id = id /\ conns'[t].end = e /\ conns'[t].role = "source" /\ conns'[t].mate = 0
      /\ conns'[t].reader = "none" /\ conns'[t].writer = conns[t].writer
      /\ conns'[t].read = conns[t].read /\ conns'[t].queue = conns[t].queue /\ conns'[t].got = conns[t].got
      /\ conns[t].id = 0
  BY ConnTypes DEF Numbers, Is, Conn
<1>3. \A d \in Ends : /\ state[d].next_conn_id \in Nat /\ state[d].pending \in Tables
  BY StateTypes
<1>4. /\ state'[e].next_conn_id = id + 1
      /\ \A d \in Ends : /\ d # e => state'[d] = state[d]
                         /\ state'[d].source_sockets = state[d].source_sockets
                         /\ state'[d].source_conn_ids = state[d].source_conn_ids
                         /\ state'[d].destinations = state[d].destinations
  BY DEF Numbers
<1>5. Evolves(t)
  BY <1>1, <1>2 DEF Evolves, Is
<1>6. NewConnsOK(t)
  <2>1. ConnOK(t)
    BY DEF TableInv, ConnInv
  <2>2. ConnOK(t)'
    BY <1>1, <1>2, <1>4, <2>1, SMTT(20) DEF ConnOK
  <2>. QED
    BY <1>1, <1>2, <2>2 DEF NewConnsOK, MateOK
<1>7. TablesGrow
  BY <1>1, <1>3, <1>4, SMTT(20) DEF TablesGrow
<1>8. NewDestinationsOK /\ NewSourcesOK /\ NewKnownOK
  BY <1>4 DEF NewDestinationsOK, NewSourcesOK, NewKnownOK
<1>9. IdInv'
  <2>1. ASSUME NEW u \in DOMAIN conns, conns[u].end = e
        PROVE  conns[u].id # id
    BY <1>1, <2>1, FreshId
  <2>2. ASSUME NEW u \in DOMAIN conns, NEW v \in DOMAIN conns,
               conns'[u].end = conns'[v].end, conns'[u].id = conns'[v].id, conns'[u].id # 0
        PROVE  u = v
    <3>1. CASE u # t /\ v # t
      BY <1>1, <2>2, <3>1 DEF TableInv, IdInv
    <3>2. CASE u = t /\ v # t
      BY <1>1, <1>2, <2>1, <2>2, <3>2
    <3>3. CASE u # t /\ v = t
      BY <1>1, <1>2, <2>1, <2>2, <3>3
    <3>. QED
      BY <3>1, <3>2, <3>3
  <2>. QED
    BY <1>1, <2>2 DEF IdInv
<1>10. PendingInv'
  <2>1. ASSUME NEW d \in Ends, NEW k \in DOMAIN state[d].pending
        PROVE  \E u : /\ u = state[d].pending[k] /\ u # t /\ Is(u, d, "source", k)' /\ k # 0
                      /\ conns'[u].reader = "none"
    <3>1. PICK u : u = state[d].pending[k] /\ Is(u, d, "source", k) /\ k # 0 /\ conns[u].reader = "none"
      BY <2>1 DEF TableInv, PendingInv
    <3>2. u \in DOMAIN conns /\ u # t
      BY <1>2, <3>1 DEF Is
    <3>. QED
      BY <1>1, <3>1, <3>2 DEF Is
  <2>2. ASSUME NEW d \in Ends, NEW k \in DOMAIN state'[d].pending
        PROVE  \E u : /\ u = state'[d].pending[k] /\ Is(u, d, "source", k)' /\ k # 0
                      /\ conns'[u].reader = "none"
    <3>1. CASE d = e
      <4>1. PICK g \in Tables : g = state[e].pending
        BY <1>3
      <4>2. t \in Nat
        BY ConnTypes
      <4>3. /\ DOMAIN state'[e].pending = DOMAIN g \cup {id} /\ state'[e].pending[id] = t
            /\ \A x \in DOMAIN g : x # id => state'[e].pending[x] = g[x]
        BY <4>1 DEF Numbers
      <4>4. CASE k = id
        <5>1. Is(t, e, "source", id)'
          BY <1>1, <1>2 DEF Is
        <5>. QED
          BY <1>2, <3>1, <4>3, <4>4, <5>1
      <4>5. CASE k # id
        BY <2>1, <3>1, <4>1, <4>3, <4>5, SMTT(20)
      <4>. QED
        BY <4>4, <4>5
    <3>2. CASE d # e
      <4>1. state'[d] = state[d]
        BY <1>4, <3>2
      <4>2. k \in DOMAIN state[d].pending
        BY <2>2, <4>1
      <4>. QED
        BY <2>1, <4>1, <4>2, SMTT(20)
    <3>. QED
      BY <3>1, <3>2
  <2>. QED
    BY <2>2, SMTT(20) DEF PendingInv
<1>11. NumberInv'
  <2>1. ASSUME NEW d \in Ends, NEW k \in 1 .. state'[d].next_conn_id - 1
        PROVE  \E u \in DOMAIN conns' : Is(u, d, "source", k)'
    <3>1. CASE d = e /\ k = id
      <4>1. Is(t, e, "source", id)'
        BY <1>1, <1>2 DEF Is
      <4>. QED
        BY <1>1, <3>1, <4>1
    <3>2. CASE ~(d = e /\ k = id)
      <4>1. k \in 1 .. state[d].next_conn_id - 1
        BY <1>1, <1>3, <1>4, <2>1, <3>2, SMTT(20)
      <4>2. PICK u \in DOMAIN conns : Is(u, d, "source", k)
        BY <4>1 DEF TableInv, NumberInv
      <4>3. u # t
        BY <1>2, <4>1, <4>2, SMTT(20) DEF Is
      <4>. QED
        BY <1>1, <4>2, <4>3 DEF Is
    <3>. QED
      BY <3>1, <3>2
  <2>2. \A d \in Ends : state'[d].next_conn_id # 0
    BY <1>4, SMTT(20) DEF TableInv, NumberInv
  <2>. QED
    BY <2>1, <2>2 DEF NumberInv
<1>. QED
  BY <1>5, <1>6, <1>7, <1>8, <1>9, <1>10, <1>11, EvolveKeeps

\* Accepted connections keep requests right.
LEMMA HandleAcceptedAsks ==
  ASSUME Typed, Typed', TableInv, AskInv, NEW e \in Ends, NEW t \in DOMAIN conns, NEW id \in Nat \ {0},
         Numbers(e, t, id)
  PROVE  AskInv'
<1>1. /\ Is(t, e, "source", 0) /\ conns[t].reader = "none" /\ conns[t].mate = 0 /\ Arrives(e, 1, t)
      /\ DOMAIN conns' = DOMAIN conns /\ id = state[e].next_conn_id
      /\ \A u \in DOMAIN conns : u # t => conns'[u] = conns[u]
  BY DEF Numbers
<1>2. conns'[t].mate = 0 /\ conns[t].id = 0
  BY ConnTypes DEF Numbers, Is, Conn
<1>3. PICK n \in Nat : n = Len(link[e]) + 1
  BY SMTT(20) DEF Typed
<1>4. /\ n \in DOMAIN link'[e] /\ n \notin DOMAIN link[e]
      /\ link'[e][n].h = "REQUEST" /\ link'[e][n].id = id
      /\ \A d \in Ends : \A i \in DOMAIN link[d] : i \in DOMAIN link'[d] /\ link'[d][i] = link[d][i]
      /\ \A d \in Ends : \A i \in DOMAIN link'[d] : i \in DOMAIN link[d] \/ (d = e /\ i = n)
  <2>1. PICK f \in PeerFrame : f = Request(id) /\ Emit(e, << f >>)
    BY DEF Numbers
  <2>2. f.h = "REQUEST" /\ f.id = id
    BY <2>1 DEF Request
  <2>3. n \notin DOMAIN link[e]
    BY <1>3, SMTT(20) DEF Typed
  <2>. QED
    BY <1>3, <2>1, <2>2, <2>3, EmitAsks
<1>5. \A d \in Ends : \A i, fd \in Nat :
         /\ Asks(d, i, "RESPONSE", fd)' <=> Asks(d, i, "RESPONSE", fd)
         /\ Asks(d, i, "REQUEST", fd)' <=> Asks(d, i, "REQUEST", fd) \/ (d = e /\ i = n /\ fd = id)
  BY <1>4, SMTT(20) DEF Asks
<1>6. \A d \in Ends : \A fd \in DOMAIN state[d].pending :
         \E u \in DOMAIN conns : u = state[d].pending[fd] /\ u # t /\ (d = e => fd # id)
  <2>1. ASSUME NEW d \in Ends, NEW fd \in DOMAIN state[d].pending
        PROVE  \E u \in DOMAIN conns : u = state[d].pending[fd] /\ u # t /\ (d = e => fd # id)
    <3>1. PICK u : u = state[d].pending[fd] /\ Is(u, d, "source", fd) /\ fd # 0
      BY <2>1 DEF TableInv, PendingInv
    <3>2. u \in DOMAIN conns /\ u # t /\ conns[u].end = d /\ conns[u].role = "source" /\ conns[u].id = fd
      BY <1>2, <3>1 DEF Is
    <3>3. fd < state[d].next_conn_id
      BY <3>2 DEF TableInv, ConnInv, ConnOK
    <3>4. d = e => fd # id
      BY <1>1, <3>3, SMTT(20)
    <3>. QED
      BY <3>1, <3>2, <3>4
  <2>. QED
    BY <2>1
<1>7. /\ \A d \in Ends : \A fd \in DOMAIN state[d].pending :
            /\ fd \in DOMAIN state'[d].pending /\ state'[d].pending[fd] = state[d].pending[fd]
            /\ conns'[state[d].pending[fd]] = conns[state[d].pending[fd]]
      /\ id \in DOMAIN state'[e].pending /\ state'[e].pending[id] = t
  <2>1. PICK g \in Tables : g = state[e].pending
    BY StateTypes
  <2>2. t \in Nat
    BY ConnTypes
  <2>3. /\ DOMAIN state'[e].pending = DOMAIN g \cup {id} /\ state'[e].pending[id] = t
        /\ \A x \in DOMAIN g : x # id => state'[e].pending[x] = g[x]
    BY <2>1 DEF Numbers
  <2>4. \A d \in Ends : d # e => state'[d] = state[d]
    BY DEF Numbers
  <2>. QED
    BY <1>1, <1>6, <2>1, <2>3, <2>4, SMTT(20)
<1>9. \A d \in Ends : Peer(d) \in Ends
  BY PeerFacts
<1>10. AcceptInv'
  <2>1. ASSUME NEW d \in Ends, NEW i \in Nat, NEW u \in Nat, Arrives(d, i, u)'
        PROVE  /\ u # t /\ Is(u, d, "source", 0)
               /\ \A j \in Nat : Arrives(d, j, u)' => i = j
    <3>1. CASE d = e
      <4>1. \A j, v \in Nat : Arrives(e, j, v)' => Arrives(e, j + 1, v) /\ j # 0
        <5>1. /\ Shifts(events[e], events'[e], 1) /\ events' \in [Ends -> Seq(LocalEvent)]
              /\ \A x \in DOMAIN events'[e] : x + 1 \in DOMAIN events[e]
          BY TakeFacts DEF Numbers
        <5>2. 0 \notin DOMAIN events'[e]
          BY <5>1, SMTT(20)
        <5>. QED
          BY <5>1, <5>2 DEF Arrives, Shifts
      <4>2. Arrives(e, i + 1, u) /\ i # 0
        BY <2>1, <3>1, <4>1
      <4>3. u # t
        BY <1>1, <4>2, SMTT(20) DEF AskInv, AcceptInv
      <4>4. Is(u, e, "source", 0) /\ \A j \in Nat : Arrives(e, j, u) => i + 1 = j
        BY <4>2, SMTT(20) DEF AskInv, AcceptInv
      <4>5. ASSUME NEW j \in Nat, Arrives(e, j, u)'
            PROVE  i = j
        <5>1. Arrives(e, j + 1, u)
          BY <4>1, <4>5
        <5>. QED
          BY <4>4, <5>1, SMTT(20)
      <4>. QED
        BY <3>1, <4>3, <4>4, <4>5
    <3>2. CASE d # e
      <4>1. events'[d] = events[d]
        BY <3>2, TakeFacts, SMTT(20) DEF Numbers
      <4>2. \A j \in Nat : Arrives(d, j, u)' <=> Arrives(d, j, u)
        BY <4>1 DEF Arrives
      <4>3. Is(u, d, "source", 0) /\ \A j \in Nat : Arrives(d, j, u) => i = j
        BY <2>1, <4>2 DEF AskInv, AcceptInv
      <4>4. u # t
        BY <1>1, <3>2, <4>3 DEF Is
      <4>. QED
        BY <4>2, <4>3, <4>4
    <3>. QED
      BY <3>1, <3>2
  <2>2. \A u, d : Is(u, d, "source", 0) /\ u # t => Is(u, d, "source", 0)'
    BY <1>1 DEF Is
  <2>. QED
    BY <2>1, <2>2 DEF AcceptInv
<1>11. RequestInv'
  <2>1. RequestInv /\ \A i \in Nat : ~Asks(e, i, "REQUEST", id)
    BY <1>6 DEF AskInv, RequestInv
  <2>2. \A i \in Nat : ~Asks(Peer(e), i, "RESPONSE", id)
    BY <1>6 DEF AskInv, ResponseInv
  <2>3. ASSUME NEW d \in Ends, NEW fd \in Nat, NEW i \in Nat, Asks(d, i, "REQUEST", fd)
        PROVE  /\ fd \in DOMAIN state'[d].pending /\ conns'[state'[d].pending[fd]].mate = 0
               /\ \A j \in Nat : Asks(d, j, "REQUEST", fd)' => i = j
               /\ \A j \in Nat : ~(Asks(Peer(d), j, "RESPONSE", fd)')
    <3>1. /\ fd \in DOMAIN state[d].pending /\ conns[state[d].pending[fd]].mate = 0
          /\ \A j \in Nat : Asks(d, j, "REQUEST", fd) => i = j
          /\ \A j \in Nat : ~Asks(Peer(d), j, "RESPONSE", fd)
      BY <2>1, <2>3 DEF RequestInv
    <3>2. d = e => fd # id
      BY <2>1, <2>3
    <3>. QED
      BY <1>5, <1>7, <1>9, <3>1, <3>2, SMTT(20)
  <2>4. /\ \A j \in Nat : Asks(e, j, "REQUEST", id)' => n = j
        /\ \A j \in Nat : ~(Asks(Peer(e), j, "RESPONSE", id)')
    BY <1>5, <1>9, <2>1, <2>2
  <2>. QED
    BY <1>2, <1>5, <1>7, <2>3, <2>4, SMTT(20) DEF RequestInv
<1>12. ResponseInv'
  <2>1. ASSUME NEW d \in Ends, NEW fd \in Nat, NEW i \in Nat, Asks(Peer(d), i, "RESPONSE", fd)'
        PROVE  \E u, sid :
                  /\ u = state'[d].pending[fd] /\ sid = link'[Peer(d)][i].sid
                  /\ fd \in DOMAIN state'[d].pending
                  /\ sid = 0 <=> conns'[u].mate = 0
                  /\ sid # 0 => sid = Sid(u)'
                  /\ \A j \in Nat : Asks(Peer(d), j, "RESPONSE", fd)' => i = j
    <3>1. Asks(Peer(d), i, "RESPONSE", fd)
      BY <1>5, <1>9, <2>1
    <3>2. PICK u, sid :
             /\ u = state[d].pending[fd] /\ sid = link[Peer(d)][i].sid
             /\ fd \in DOMAIN state[d].pending
             /\ sid = 0 <=> conns[u].mate = 0
             /\ sid # 0 => sid = Sid(u)
             /\ \A j \in Nat : Asks(Peer(d), j, "RESPONSE", fd) => i = j
      BY <3>1, SMTT(20) DEF AskInv, ResponseInv
    <3>3. link'[Peer(d)][i] = link[Peer(d)][i]
      BY <1>4, <1>9, <3>1 DEF Asks
    <3>4. Evolves(t)
      BY <1>1, <1>2, SMTT(20) DEF Evolves, Is, Numbers, Conn
    <3>5. u \in DOMAIN conns /\ (conns[u].mate # 0 => Sid(u)' = Sid(u))
      BY <1>6, <3>2, <3>4, EvolvesFacts, SMTT(20) DEF TableInv
    <3>. QED
      BY <1>5, <1>7, <1>9, <3>2, <3>3, <3>5, SMTT(20)
  <2>. QED
    BY <2>1, SMTT(20) DEF ResponseInv
<1>13. WaitingInv'
  <2>1. ASSUME NEW u \in DOMAIN conns, conns'[u].mate # 0, conns'[u].reader = "none"
        PROVE  \E i \in Nat : Asks(Peer(conns[u].end), i, "RESPONSE", conns[u].id)'
    <3>1. conns'[u] = conns[u] /\ conns[u].end \in Ends /\ conns[u].id \in Nat
      BY <1>1, <1>2, <2>1, ConnTypes
    <3>2. PICK i \in Nat : Asks(Peer(conns[u].end), i, "RESPONSE", conns[u].id)
      BY <2>1, <3>1 DEF AskInv, WaitingInv
    <3>3. PICK d \in Ends, fd \in Nat : d = Peer(conns[u].end) /\ fd = conns[u].id
      BY <1>9, <3>1
    <3>4. Asks(d, i, "RESPONSE", fd)'
      BY <1>5, <3>2, <3>3
    <3>. QED
      BY <3>1, <3>3, <3>4
  <2>. QED
    BY <1>1, <2>1 DEF WaitingInv
<1>. QED
  BY <1>10, <1>11, <1>12, <1>13 DEF AskInv

\* The invariant implies the type invariant, as there are ids left.
LEMMA InvTypeOK == Inv /\ IdsLeft => TypeOK
<1>. SUFFICES ASSUME Inv, IdsLeft PROVE TypeOK
  OBVIOUS
<1>1. Typed /\ TableInv /\ StreamInv /\ BoundInv
  BY DEF Inv
<1>2. IdsLeft
  OBVIOUS
<1>3. \A a, b \in Nat : a # 0 /\ a <= b => a \in 1 .. b
  BY SMTT(20)
<1>4. \A a, b, c \in Nat : a < b /\ b <= c + 1 => a <= c
  BY SMTT(20)
<1>5. \A e \in Ends : /\ MaxConns[e] \in Nat /\ MaxConns[e] + 1 \in Nat
                      /\ state[e].next_conn_id \in Nat /\ state[e].next_conn_id # 0
                      /\ state[e].next_conn_id <= MaxConns[e] + 1
  <2>1. \A a \in Nat : a + 1 \in Nat
    BY SMTT(20)
  <2>. QED
    BY <1>1, <1>2, <2>1, StateTypes, ForwardAssumption DEF IdsLeft, TableInv, NumberInv
<1>6. ASSUME NEW e \in Ends, NEW t \in DOMAIN conns, NEW id, Is(t, e, "source", id), id # 0
      PROVE  id \in 1 .. MaxConns[e]
  <2>1. id \in Nat /\ id < state[e].next_conn_id
    BY <1>1, <1>6, ConnTypes DEF Is, TableInv, ConnInv, ConnOK
  <2>. QED
    BY <1>3, <1>4, <1>5, <1>6, <2>1
<1>7. ASSUME NEW e \in Ends
      PROVE  /\ state[e].next_conn_id \in 1 .. MaxConns[e] + 1
             /\ DOMAIN state[e].pending \cup DOMAIN state[e].source_conn_ids \subseteq 1 .. MaxConns[e]
             /\ DOMAIN state[e].destinations \subseteq SocketIds[e]
             /\ DOMAIN state[e].source_sockets \subseteq SocketIds[Peer(e)]
  <2>1. \A id \in DOMAIN state[e].pending : id \in 1 .. MaxConns[e]
    <3>1. ASSUME NEW id \in DOMAIN state[e].pending
          PROVE  \E t \in DOMAIN conns : Is(t, e, "source", id) /\ id # 0
      <4>1. PICK t : t = state[e].pending[id] /\ Is(t, e, "source", id) /\ id # 0
        BY <1>1 DEF TableInv, PendingInv
      <4>. QED
        BY <4>1 DEF Is
    <3>. QED
      BY <1>6, <3>1
  <2>2. \A id \in DOMAIN state[e].source_conn_ids : id \in 1 .. MaxConns[e]
    <3>1. ASSUME NEW id \in DOMAIN state[e].source_conn_ids
          PROVE  \E t \in DOMAIN conns : Is(t, e, "source", id) /\ id # 0
      <4>1. PICK t \in DOMAIN conns : Is(t, e, "source", id) /\ conns[t].mate # 0
        BY <1>1 DEF TableInv, KnownInv
      <4>2. conns[t].id # 0
        BY <1>1, <4>1 DEF TableInv, MateInv, MateOK
      <4>. QED
        BY <4>1, <4>2 DEF Is
    <3>. QED
      BY <1>6, <3>1
  <2>3. ASSUME NEW sid \in DOMAIN state[e].destinations
        PROVE  sid \in SocketIds[e]
    <3>1. PICK t : t = state[e].destinations[sid] /\ Is(t, e, "destination", sid)
      BY <1>1 DEF TableInv, DestinationInv
    <3>2. t \in DOMAIN conns /\ conns[t].end = e /\ conns[t].role = "destination" /\ conns[t].id = sid
      BY <3>1 DEF Is
    <3>. QED
      BY <1>1, <3>2 DEF TableInv, ConnInv, ConnOK
  <2>4. ASSUME NEW sid \in DOMAIN state[e].source_sockets
        PROVE  sid \in SocketIds[Peer(e)]
    <3>1. PICK t \in DOMAIN conns : /\ conns[t].end = e /\ conns[t].role = "source"
                                    /\ conns[t].mate # 0 /\ Sid(t) = sid
      BY <1>1 DEF TableInv, SourceInv, Is
    <3>2. PICK m \in DOMAIN conns : m = conns[t].mate /\ conns[m].end = Peer(e) /\ conns[m].role # "source"
      BY <1>1, <3>1 DEF TableInv, MateInv, MateOK
    <3>3. conns[m].role = "destination"
      BY <1>1, <3>2, ConnTypes DEF Role
    <3>4. conns[m].id \in SocketIds[Peer(e)]
      BY <1>1, <3>2, <3>3 DEF TableInv, ConnInv, ConnOK
    <3>5. Sid(t) = conns[m].id
      BY <3>1, <3>2 DEF Sid
    <3>. QED
      BY <3>1, <3>4, <3>5
  <2>. QED
    BY <1>3, <1>5, <2>1, <2>2, <2>3, <2>4
<1>8. \A t \in DOMAIN conns : conns[t] \in Conn /\ Len(conns[t].queue) <= CONN_WRITE_QUEUE_DEPTH
  BY <1>1, ConnTypes DEF StreamInv, GotOK
<1>. QED
  BY <1>7, <1>8 DEF TypeOK

=============================================================================
