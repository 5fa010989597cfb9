---------------------------- MODULE ForwardProofs ----------------------------
(***************************************************************************)
(* Proofs about module Forward, last part: requests and answers leave the  *)
(* streams alone, what is limited, and the theorems.                       *)
(***************************************************************************)
EXTENDS ForwardSteps, ForwardFrames, FiniteSetTheorems

\* Most leaves are first-order; those that need more cite SMT.
USE ZenonT(20)

-----------------------------------------------------------------------------
(* Requests and answers leave the streams alone. *)

\* A refused request leaves the streams alone.
LEMMA HandleRequestRefusedStreams ==
  ASSUME Typed, TableInv, AskInv, StreamInv, NEW e \in Ends, HandleRequestRefused(e)
  PROVE  StreamInv'
<1>1. /\ Incoming(e, {"REQUEST"}) /\ Answer(e, << Response(Frame(e).id, 0) >>)
      /\ state' = state /\ conns' = conns /\ events' = events
  BY DEF HandleRequestRefused
<1>2. 0 \in Nat
  BY SMTT(20)
<1>3. PICK f \in PeerFrame : f = Response(Frame(e).id, 0) /\ f.h = "RESPONSE"
  BY <1>1, <1>2, ResponseFrame
<1>4. Answer(e, << f >>)
  BY <1>1, <1>3
<1>5. \A z \in Ends : Control(z)
  BY <1>1, <1>3, <1>4, AnswerControl
<1>6. Typed' /\ TableInv'
  BY HandleRequestRefusedKeeps
<1>7. \A u \in DOMAIN conns : conns[u].mate # 0 => Remains(u)
  BY <1>1, IdleRemains
<1>8. \A u \in DOMAIN conns' : (u \in DOMAIN conns => conns[u].mate = 0) => Fresh(u)
  BY <1>1, LoneFresh
<1>9. DOMAIN conns \subseteq DOMAIN conns'
  BY <1>1
<1>. QED
  BY <1>5, <1>6, <1>7, <1>8, <1>9, ControlStreams

\* An accepted one adds a stream nothing was sent on.
LEMMA HandleRequestStreams ==
  ASSUME Typed, TableInv, AskInv, StreamInv, IdsLeft, NEW e \in Ends, HandleRequest(e)
  PROVE  StreamInv'
<1>1. Typed' /\ events' = events /\ Serves(e)
  BY HandleRequestEffect
<1>2. PICK p \in Ends, fd \in Nat, t \in DOMAIN conns, n \in Nat \ {0}, sid \in Nat \ {0},
           i \in Nat \ {0}, f \in PeerFrame :
         /\ Answers(e, p, fd, i, f) /\ f.sid = sid /\ Opens(e, p, t, n, sid)
         /\ t = state[p].pending[fd]
  BY <1>1 DEF Serves
<1>3. TableInv'
  BY HandleRequestKeeps
<1>4. /\ n \notin DOMAIN conns /\ DOMAIN conns' = DOMAIN conns \cup {n}
      /\ \A u \in DOMAIN conns : u # t => conns'[u] = conns[u]
      /\ conns[t].mate = 0
  BY <1>2 DEF Opens
<1>5. ASSUME NEW z \in Ends
      PROVE  Control(z)
  <2>1. Incoming(e, {"REQUEST"}) /\ Answer(e, << Response(Frame(e).id, NewId(e)) >>) /\ Unused(e) # {}
    BY DEF HandleRequest
  <2>2. PICK s \in Nat : s = NewId(e)
    BY <2>1, NewIdFacts
  <2>3. PICK g \in PeerFrame : g = Response(Frame(e).id, s) /\ g.h = "RESPONSE"
    BY <2>1, ResponseFrame
  <2>4. Answer(e, << g >>)
    BY <2>1, <2>2, <2>3
  <2>5. \A u \in DOMAIN conns : conns[u].mate # 0 => conns'[u].reader = conns[u].reader
    BY <1>4
  <2>. QED
    BY <1>1, <2>1, <2>3, <2>4, <2>5, AnswerControl
<1>6. ASSUME NEW u \in DOMAIN conns, conns[u].mate # 0
      PROVE  Remains(u)
  <2>1. PICK d : d = conns[u].mate /\ d \in DOMAIN conns /\ conns[d].mate = u /\ u # 0
    BY <1>6, ConnTypes DEF TableInv, MateInv, MateOK
  <2>2. conns'[d] = conns[d] /\ conns'[u] = conns[u] /\ conns[u].end \in Ends /\ u \in DOMAIN conns'
    BY <1>4, <1>6, <2>1, ConnTypes
  <2>3. Sid(u)' = Sid(u)
    BY <2>1, <2>2 DEF Sid
  <2>4. /\ state'[conns[u].end].source_sockets = state[conns[u].end].source_sockets
        /\ state'[conns[u].end].source_conn_ids = state[conns[u].end].source_conn_ids
        /\ conns[u].id \in DOMAIN state'[conns[u].end].destinations =>
              conns[u].id \in DOMAIN state[conns[u].end].destinations
    <3>1. /\ \A x \in DOMAIN conns : conns[x].end = e => conns[x].id # sid
          /\ DOMAIN state'[e].destinations = DOMAIN state[e].destinations \cup {sid}
          /\ \A x \in Ends : /\ x # e => state'[x] = state[x]
                             /\ state'[x].source_sockets = state[x].source_sockets
                             /\ state'[x].source_conn_ids = state[x].source_conn_ids
      BY <1>2 DEF Opens
    <3>2. conns[u].end = e => conns[u].id # sid
      BY <3>1
    <3>3. CASE conns[u].end = e
      BY <3>1, <3>2, <3>3
    <3>4. CASE conns[u].end # e
      BY <2>2, <3>1, <3>4
    <3>. QED
      BY <3>3, <3>4
  <2>5. (Registered(u)' => Registered(u)) /\ (Sending(u)' => Sending(u))
    BY <2>2, <2>3, <2>4 DEF Registered, Sending
  <2>. QED
    BY <1>6, <2>1, <2>2, <2>5, RemainsSame
<1>7. Fresh(n)
  BY <1>2 DEF Opens, Fresh
<1>8. Fresh(t)
  <2>1. conns[t].read = 0 /\ conns[t].queue = <<>> /\ conns[t].got = <<>>
    BY <1>4 DEF TableInv, ConnInv, ConnOK
  <2>2. /\ conns'[t].read = conns[t].read /\ conns'[t].queue = conns[t].queue
        /\ conns'[t].got = conns[t].got /\ conns'[t].reader = "none"
    BY <1>2 DEF Opens
  <2>. QED
    BY <2>1, <2>2 DEF Fresh
<1>9. \A u \in DOMAIN conns' : (u \in DOMAIN conns => conns[u].mate = 0) => Fresh(u)
  BY <1>4, <1>7, <1>8, LoneFresh
<1>10. DOMAIN conns \subseteq DOMAIN conns'
  BY <1>4
<1>. QED
  BY <1>1, <1>3, <1>5, <1>6, <1>9, <1>10, ControlStreams

\* An answer is taken: its connection gets its tasks.
LEMMA HandleResponseStreams ==
  ASSUME Typed, TableInv, AskInv, StreamInv, NEW e \in Ends, HandleResponse(e)
  PROVE  StreamInv'
<1>1. /\ Typed' /\ events' = events
      /\ \E p \in Ends, fd \in Nat, t \in DOMAIN conns, sid \in Nat :
               Told(e, p, fd, t) /\ Settles(e, fd, t) /\ (Denied(e, t) \/ Granted(e, fd, t, sid))
  BY HandleResponseEffect
<1>2. PICK p \in Ends, fd \in Nat, t \in DOMAIN conns, sid \in Nat :
         Told(e, p, fd, t) /\ Settles(e, fd, t) /\ (Denied(e, t) \/ Granted(e, fd, t, sid))
  BY <1>1
<1>3. TableInv'
  BY HandleResponseKeeps
<1>4. /\ p # e /\ Peer(p) = e /\ Peer(e) = p /\ \A d \in Ends : d = e \/ d = p
      /\ Asks(p, 1, "RESPONSE", fd) /\ link'[e] = link[e] /\ fd # 0
      /\ conns[t].end = e /\ conns[t].role = "source" /\ conns[t].id = fd /\ conns[t].reader = "none"
  BY <1>2 DEF Told, Is
<1>5. /\ DOMAIN conns' = DOMAIN conns /\ \A u \in DOMAIN conns : u # t => conns'[u] = conns[u]
      /\ conns'[t].end = conns[t].end /\ conns'[t].role = conns[t].role
      /\ conns'[t].id = conns[t].id /\ conns'[t].mate = conns[t].mate /\ conns'[t].read = conns[t].read
      /\ conns'[t].queue = conns[t].queue /\ conns'[t].got = conns[t].got /\ conns'[t].reader # "none"
      /\ \A d \in Ends : state'[d].destinations = state[d].destinations
      /\ \A d \in Ends : d # e => state'[d] = state[d]
  BY <1>2 DEF Settles
<1>6. ASSUME NEW z \in Ends
      PROVE  Control(z)
  <2>1. PassiveEvents(z, 0)
    BY <1>1, StillPassive
  <2>2. 0 \in Nat /\ 1 \in Nat
    BY SMTT(20)
  <2>3. CASE z = e
    <3>1. PassiveLink(z, 0)
      BY <1>4, <2>3, StillPassive
    <3>2. Heard(z, 0)
      <4>1. \A u \in DOMAIN conns : conns'[u].reader = "none" => conns[u].reader = "none"
        BY <1>5
      <4>. QED
        BY <4>1, StillQueues, HeardAll
    <3>. QED
      BY <2>1, <2>2, <3>1, <3>2 DEF Control
  <2>4. CASE z = p
    <3>1. /\ Shifts(link[p], link'[p], 1) /\ \A i \in DOMAIN link'[p] : i + 1 \in DOMAIN link[p]
          /\ 1 \in DOMAIN link[p] /\ link[p][1].h = "RESPONSE" /\ link[p][1].id = fd
      <4>1. link[Peer(e)] # <<>> /\ Answer(e, <<>>)
        BY DEF HandleResponse, Incoming
      <4>. QED
        BY <1>4, <4>1, TakenFrame DEF Asks
    <3>2. PICK x \in Seq(PeerFrame) : x = link[p]
      BY DEF Typed
    <3>3. (\A i \in DOMAIN x : i # 1 => i > 1) /\ (\A i \in DOMAIN x : i <= 1 => i = 1)
      BY SMTT(20)
    <3>4. PassiveLink(z, 1)
      BY <2>4, <3>1, <3>2, <3>3 DEF PassiveLink, FrameItem
    <3>5. ASSUME NEW u \in DOMAIN conns, conns[u].end = p, conns[u].mate # 0
          PROVE  KeepsAnswer(p, conns[u].mate, 1)
      <4>1. PICK d : d = conns[u].mate /\ d \in DOMAIN conns /\ conns[d].end = Peer(p)
        BY <3>5 DEF TableInv, MateInv, MateOK
      <4>2. ASSUME conns'[d].reader = "none"
            PROVE  conns[d].reader = "none" /\ conns[d].id # fd
        <5>1. d # t
          BY <1>5, <4>2
        <5>2. conns[d].end = e /\ conns'[d] = conns[d]
          BY <1>4, <1>5, <4>1, <5>1
        <5>3. \A v, w \in DOMAIN conns :
                 conns[v].end = conns[w].end /\ conns[v].id = conns[w].id /\ conns[v].id # 0 => v = w
          BY DEF TableInv, IdInv
        <5>. QED
          BY <1>4, <4>1, <4>2, <5>1, <5>2, <5>3
      <4>. QED
        BY <3>1, <3>2, <3>3, <4>1, <4>2 DEF KeepsAnswer
    <3>6. Heard(z, 1)
      BY <2>4, <3>5 DEF Heard
    <3>. QED
      BY <2>1, <2>2, <3>4, <3>6 DEF Control
  <2>. QED
    BY <1>4, <2>3, <2>4
<1>7. ASSUME NEW u \in DOMAIN conns, conns[u].mate # 0, u # t
      PROVE  Remains(u)
  <2>1. PICK d : d = conns[u].mate /\ d \in DOMAIN conns /\ conns[d].mate = u /\ u # 0
    BY <1>7, ConnTypes DEF TableInv, MateInv, MateOK
  <2>2. conns'[d].id = conns[d].id /\ conns'[u] = conns[u] /\ conns[u].end \in Ends /\ conns[u].role \in Role
    BY <1>5, <1>7, <2>1, ConnTypes
  <2>3. Sid(u)' = Sid(u)
    BY <2>1, <2>2 DEF Sid
  <2>4. /\ conns[u].role = "source" /\ Sid(u) \in DOMAIN state'[conns[u].end].source_sockets =>
              Sid(u) \in DOMAIN state[conns[u].end].source_sockets
        /\ conns[u].id \in DOMAIN state'[conns[u].end].source_conn_ids =>
              conns[u].id \in DOMAIN state[conns[u].end].source_conn_ids
    <3>1. CASE conns[u].end # e
      BY <1>5, <2>2, <3>1
    <3>2. CASE conns[u].end = e /\ Denied(e, t)
      BY <3>2 DEF Denied
    <3>3. CASE conns[u].end = e /\ Granted(e, fd, t, sid)
      <4>1. /\ conns[t].mate # 0 /\ Sid(t) = sid
            /\ DOMAIN state'[e].source_sockets = DOMAIN state[e].source_sockets \cup {sid}
            /\ DOMAIN state'[e].source_conn_ids = DOMAIN state[e].source_conn_ids \cup {fd}
        BY <3>3 DEF Granted
      <4>2. conns[u].id # fd
        BY <1>4, <1>7, <3>3 DEF TableInv, IdInv
      <4>3. conns[u].role = "source" => Sid(u) # sid
        BY <1>4, <1>7, <3>3, <4>1, SidUnique DEF TableInv
      <4>. QED
        BY <3>3, <4>1, <4>2, <4>3
    <3>. QED
      BY <1>2, <3>1, <3>2, <3>3
  <2>5. (Registered(u)' => Registered(u)) /\ (Sending(u)' => Sending(u))
    BY <1>5, <2>2, <2>3, <2>4 DEF Registered, Sending, Role
  <2>. QED
    BY <1>5, <1>7, <2>1, <2>2, <2>5, RemainsSame
<1>8. conns[t].mate # 0 => Remains(t)
  <2>1. SUFFICES ASSUME conns[t].mate # 0
                 PROVE  Remains(t)
    OBVIOUS
  <2>2. Granted(e, fd, t, sid)
    BY <1>2, <2>1 DEF Denied
  <2>3. \/ conns'[t].reader = "on" /\ conns'[t].writer = "on"
        \/ conns'[t].reader = "off" /\ conns'[t].writer = "failed"
    BY <2>2 DEF Granted
  <2>4. conns[t].read = 0
    BY <1>4 DEF TableInv, ConnInv, ConnOK
  <2>5. Total(t) = 0 /\ Total(t)' = 0
    BY <1>4, <1>5, <2>3, <2>4 DEF Total
  <2>6. Sid(t)' = Sid(t)
    <3>1. PICK d : d = conns[t].mate /\ d \in DOMAIN conns /\ conns[d].role # conns[t].role
      BY <2>1 DEF TableInv, MateInv, MateOK
    <3>2. conns'[d] = conns[d]
      BY <1>5, <3>1
    <3>. QED
      BY <1>5, <3>1, <3>2 DEF Sid
  <2>7. 0 \in Nat /\ 0 >= 0
    BY SMTT(20)
  <2>8. SenderStays(t)
    BY <1>4, <1>5, <2>4, <2>6, <2>7 DEF SenderStays
  <2>9. conns[t].writer = "none"
    BY <1>4 DEF TableInv, ConnInv, ConnOK
  <2>10. Receiving(t)
    BY <1>4, <2>1, <2>9 DEF Receiving
  <2>. QED
    BY <1>5, <2>3, <2>5, <2>8, <2>10 DEF Remains
<1>9. \A u \in DOMAIN conns' : (u \in DOMAIN conns => conns[u].mate = 0) => Fresh(u)
  BY <1>5, LoneFresh
<1>10. \A u \in DOMAIN conns : conns[u].mate # 0 => Remains(u)
  BY <1>7, <1>8
<1>11. DOMAIN conns \subseteq DOMAIN conns'
  BY <1>5
<1>. QED
  BY <1>1, <1>3, <1>6, <1>9, <1>10, <1>11, ControlStreams

-----------------------------------------------------------------------------
(* What is limited. *)

\* The connections accepted at an end.
Sources(e) == {t \in DOMAIN conns : conns[t].end = e /\ conns[t].role = "source"}

\* The connections counted by the bound are finitely many.
LEMMA SourcesFinite ==
  ASSUME Typed, NEW e
  PROVE  IsFiniteSet(Sources(e)) /\ Count(e) = Cardinality(Sources(e)) /\ Count(e) \in Nat
<1>1. PICK n \in Nat : n = Len(conns) /\ DOMAIN conns = 1 .. n
  BY SMTT(20) DEF Typed
<1>2. n \in Int /\ 1 \in Int
  BY SMTT(20)
<1>3. IsFiniteSet(1 .. n)
  BY <1>2, FS_Interval
<1>4. Sources(e) \in SUBSET (1 .. n)
  BY <1>1 DEF Sources
<1>5. IsFiniteSet(Sources(e))
  BY <1>3, <1>4, FS_Subset
<1>. QED
  BY <1>5, FS_CardinalityType DEF Count, Sources

\* An id is handed out to a connection of its own, so there are no more of
\* them than connections were accepted.
LEMMA IdsAreLeft ==
  ASSUME Typed, TableInv, BoundInv
  PROVE  IdsLeft
<1>1. SUFFICES ASSUME NEW e \in Ends
               PROVE  /\ state[e].next_conn_id <= MaxConns[e] + 1
                      /\ \A t \in DOMAIN conns : Is(t, e, "source", 0) => state[e].next_conn_id <= MaxConns[e]
  BY DEF IdsLeft
<1>2. PICK k \in Nat : state[e].next_conn_id = k + 1 /\ state[e].next_conn_id - 1 = k
  <2>1. state[e].next_conn_id \in Nat /\ state[e].next_conn_id # 0
    BY StateTypes DEF TableInv, NumberInv
  <2>2. \A x \in Nat : x # 0 => x - 1 \in Nat /\ x = (x - 1) + 1
    BY SMTT(20)
  <2>. QED
    BY <2>1, <2>2
<1>3. PICK c \in Nat, b \in Nat : c = Cardinality(Sources(e)) /\ b = MaxConns[e] /\ c <= b
  <2>1. MaxConns[e] \in Nat /\ Count(e) <= MaxConns[e]
    BY ForwardAssumption DEF BoundInv
  <2>. QED
    BY <2>1, SourcesFinite
<1>4. \A id \in 1 .. k : \E t \in DOMAIN conns : Is(t, e, "source", id)
  BY <1>2 DEF TableInv, NumberInv
<1>5. ASSUME NEW S, IsFiniteSet(S), S \subseteq Sources(e), \A t \in Sources(e) : t \notin S => conns[t].id = 0
      PROVE  k <= Cardinality(S)
  <2>. DEFINE f == [id \in 1 .. k |-> CHOOSE t \in DOMAIN conns : Is(t, e, "source", id)]
  <2>1. ASSUME NEW id \in 1 .. k
        PROVE  f[id] \in S /\ conns[f[id]].id = id
    <3>1. Is(f[id], e, "source", id)
      BY <1>4
    <3>2. id # 0
      BY SMTT(20)
    <3>. QED
      BY <1>5, <3>1, <3>2 DEF Is, Sources
  <2>2. f \in [1 .. k -> S]
    BY <2>1
  <2>3. \A x, y \in 1 .. k : f[x] = f[y] => x = y
    BY <2>1
  <2>. HIDE DEF f
  <2>4. f \in Injection(1 .. k, S)
    BY <2>2, <2>3 DEF Injection, IsInjective
  <2>5. Cardinality(1 .. k) <= Cardinality(S)
    BY <1>5, <2>4, FS_Injection
  <2>6. Cardinality(1 .. k) = k
    <3>1. k \in Int /\ 1 \in Int /\ (IF 1 > k THEN 0 ELSE k - 1 + 1) = k
      BY SMTT(20)
    <3>. QED
      BY <3>1, FS_Interval
  <2>. QED
    BY <2>5, <2>6
<1>6. IsFiniteSet(Sources(e))
  BY SourcesFinite
<1>7. k <= c
  BY <1>3, <1>5, <1>6
<1>8. ASSUME NEW t \in DOMAIN conns, Is(t, e, "source", 0)
      PROVE  k + 1 <= b
  <2>1. t \in Sources(e) /\ conns[t].id = 0
    BY <1>8 DEF Is, Sources
  <2>2. IsFiniteSet(Sources(e) \ {t}) /\ Cardinality(Sources(e) \ {t}) = c - 1
    BY <1>3, <1>6, <2>1, FS_RemoveElement
  <2>3. k <= Cardinality(Sources(e) \ {t})
    BY <1>5, <2>1, <2>2
  <2>4. k <= c - 1
    BY <2>2, <2>3
  <2>. QED
    BY <1>3, <2>4, SMTT(20)
<1>9. k + 1 <= b + 1
  BY <1>3, <1>7, SMTT(20)
<1>. QED
  BY <1>2, <1>3, <1>8, <1>9

\* A step that neither accepts nor opens a connection.
LEMMA BoundKeeps ==
  ASSUME Typed, BoundInv, \A d \in Ends : /\ Sources(d)' = Sources(d) /\ state'[d].max = state[d].max
                                          /\ DOMAIN state'[d].destinations \subseteq DOMAIN state[d].destinations
  PROVE  BoundInv'
<1>1. ASSUME NEW d \in Ends
      PROVE  /\ Count(d)' <= MaxConns[d]
             /\ IsFiniteSet(DOMAIN state'[d].destinations)
             /\ Cardinality(DOMAIN state'[d].destinations) <= state'[d].max
  <2>1. Count(d)' = Count(d)
    BY DEF Count, Sources
  <2>2. PICK S, T : S = DOMAIN state[d].destinations /\ T = DOMAIN state'[d].destinations /\ T \in SUBSET S
    OBVIOUS
  <2>3. IsFiniteSet(S) /\ Cardinality(S) <= state[d].max /\ Count(d) <= MaxConns[d]
    BY <2>2 DEF BoundInv
  <2>4. IsFiniteSet(T) /\ Cardinality(T) <= Cardinality(S)
    BY <2>2, <2>3, FS_Subset
  <2>5. PICK x, y, z \in Nat : x = Cardinality(T) /\ y = Cardinality(S) /\ z = state[d].max
    BY <2>3, <2>4, FS_CardinalityType, StateTypes
  <2>6. x <= z
    BY <2>3, <2>4, <2>5, SMTT(20)
  <2>. QED
    BY <2>1, <2>2, <2>3, <2>4, <2>5, <2>6
<1>. QED
  BY <1>1 DEF BoundInv

\* A step that opens nothing stays within the bound.
LEMMA TouchBound ==
  ASSUME Typed, BoundInv, NEW t, Touches(t), \A d \in Ends : Restricts(d)
  PROVE  BoundInv'
<1>1. \A d \in Ends : Sources(d)' = Sources(d)
  BY DEF Sources, Touches
<1>2. \A d \in Ends : /\ state'[d].max = state[d].max
                      /\ DOMAIN state'[d].destinations \subseteq DOMAIN state[d].destinations
  BY DEF Restricts
<1>. QED
  BY <1>1, <1>2, BoundKeeps

\* An accept is no destination.
LEMMA AcceptBound ==
  ASSUME Typed, BoundInv, NEW e \in Ends, Accept(e)
  PROVE  BoundInv'
<1>1. PICK n \in Nat \ {0} :
         /\ n \notin DOMAIN conns /\ DOMAIN conns' = DOMAIN conns \cup {n} /\ state' = state
         /\ conns'[n] = Local(e, "source", 0, 0) /\ \A u \in DOMAIN conns : conns'[u] = conns[u]
  BY AcceptEffect
<1>2. conns'[n].end = e /\ conns'[n].role = "source"
  <2>1. conns'[n] = Local(e, "source", 0, 0)
    BY <1>1
  <2>. QED
    BY <2>1, SMTT(20) DEF Local
<1>3. n \notin Sources(e) /\ Sources(e)' = Sources(e) \cup {n}
  BY <1>1, <1>2 DEF Sources
<1>4. \A d \in Ends : d # e => Sources(d)' = Sources(d)
  BY <1>1, <1>2 DEF Sources
<1>5. IsFiniteSet(Sources(e)) /\ Count(e) = Cardinality(Sources(e)) /\ Count(e) \in Nat
  BY SourcesFinite
<1>6. Count(e)' = Count(e) + 1
  <2>1. Count(e)' = Cardinality(Sources(e)')
    BY DEF Count, Sources
  <2>2. Cardinality(Sources(e) \cup {n}) = Cardinality(Sources(e)) + 1
    BY <1>3, <1>5, FS_AddElement
  <2>. QED
    BY <1>3, <1>5, <2>1, <2>2
<1>7. Count(e)' <= MaxConns[e]
  <2>1. PICK c \in Nat, b \in Nat : c = Count(e) /\ b = MaxConns[e] /\ c < b
    BY <1>5, ForwardAssumption DEF Accept
  <2>2. c + 1 <= b
    BY <2>1, SMTT(20)
  <2>. QED
    BY <1>6, <2>1, <2>2
<1>8. \A d \in Ends : d # e => Count(d)' = Count(d)
  BY <1>4 DEF Count, Sources
<1>9. \A d \in Ends : Count(d)' <= MaxConns[d]
  BY <1>7, <1>8 DEF BoundInv
<1>. QED
  BY <1>1, <1>9 DEF BoundInv

\* A request is accepted only below the cap.
LEMMA HandleRequestBound ==
  ASSUME Typed, TableInv, AskInv, IdsLeft, BoundInv, NEW e \in Ends, HandleRequest(e)
  PROVE  BoundInv'
<1>1. PICK p \in Ends, fd \in Nat, t \in DOMAIN conns, n \in Nat \ {0}, sid \in Nat \ {0},
           i \in Nat \ {0}, f \in PeerFrame :
         /\ Answers(e, p, fd, i, f) /\ f.sid = sid /\ Opens(e, p, t, n, sid)
         /\ t = state[p].pending[fd]
  BY HandleRequestEffect DEF Serves
<1>2. /\ DOMAIN state'[e].destinations = DOMAIN state[e].destinations \cup {sid}
      /\ \A d \in Ends : (d # e => state'[d] = state[d]) /\ state'[d].max = state[d].max
  BY <1>1 DEF Opens
<1>3. \A d \in Ends : Sources(d)' = Sources(d)
  <2>1. n \notin DOMAIN conns /\ DOMAIN conns' = DOMAIN conns \cup {n}
    BY <1>1 DEF Opens
  <2>2. \A u \in DOMAIN conns : u # t => conns'[u] = conns[u]
    BY <1>1 DEF Opens
  <2>3. conns'[t].end = conns[t].end /\ conns'[t].role = conns[t].role
    <3>1. conns'[t].end = p /\ conns'[t].role = "source" /\ conns[t].end = p /\ conns[t].role = "source"
      BY <1>1 DEF Opens
    <3>. QED
      BY <3>1
  <2>4. conns'[n].role # "source"
    <3>1. conns'[n].role = "destination"
      BY <1>1 DEF Opens
    <3>. QED
      BY <3>1
  <2>5. \A u \in DOMAIN conns : conns'[u].end = conns[u].end /\ conns'[u].role = conns[u].role
    BY <2>2, <2>3
  <2>. QED
    BY <2>1, <2>4, <2>5 DEF Sources
<1>4. \A d \in Ends : Count(d)' = Count(d)
  BY <1>3 DEF Count, Sources
<1>5. PICK S : S = DOMAIN state[e].destinations /\ IsFiniteSet(S)
  BY DEF BoundInv
<1>6. ~(Cardinality(S) >= state[e].max)
  BY <1>5 DEF HandleRequest, Refuses
<1>7. IsFiniteSet(S \cup {sid}) /\ Cardinality(S \cup {sid}) \in {Cardinality(S), Cardinality(S) + 1}
  BY <1>5, FS_AddElement
<1>8. PICK c \in Nat, b \in Nat : c = Cardinality(S) /\ b = state[e].max
  BY <1>5, FS_CardinalityType, StateTypes
<1>9. Cardinality(S \cup {sid}) <= state'[e].max
  <2>1. c <= b /\ c + 1 <= b
    BY <1>6, <1>8, SMTT(20)
  <2>. QED
    BY <1>2, <1>7, <1>8, <2>1
<1>10. ASSUME NEW d \in Ends
       PROVE  /\ Count(d)' <= MaxConns[d]
              /\ IsFiniteSet(DOMAIN state'[d].destinations)
              /\ Cardinality(DOMAIN state'[d].destinations) <= state'[d].max
  <2>1. Count(d)' <= MaxConns[d]
    BY <1>4 DEF BoundInv
  <2>2. CASE d = e
    BY <1>2, <1>5, <1>7, <1>9, <2>1, <2>2
  <2>3. CASE d # e
    BY <1>2, <2>1, <2>3 DEF BoundInv
  <2>. QED
    BY <2>2, <2>3
<1>. QED
  BY <1>10 DEF BoundInv

\* Sending a request opens no destination.
LEMMA HandleAcceptedBound ==
  ASSUME Typed, TableInv, AskInv, BoundInv, NEW e \in Ends, HandleAccepted(e)
  PROVE  BoundInv'
<1>1. PICK t \in DOMAIN conns, id \in Nat \ {0} : Numbers(e, t, id)
  BY HandleAcceptedEffect
<1>2. /\ DOMAIN conns' = DOMAIN conns /\ conns'[t] = [conns[t] EXCEPT !.id = id]
      /\ \A u \in DOMAIN conns : u # t => conns'[u] = conns[u]
  BY <1>1 DEF Numbers
<1>3. conns'[t].end = conns[t].end /\ conns'[t].role = conns[t].role
  <2>1. PICK c \in Conn : c = conns[t]
    BY ConnTypes
  <2>. QED
    BY <1>2, <2>1, SMTT(20) DEF Conn
<1>4. \A u \in DOMAIN conns : conns'[u].end = conns[u].end /\ conns'[u].role = conns[u].role
  BY <1>2, <1>3
<1>5. \A d \in Ends : Sources(d)' = Sources(d)
  BY <1>2, <1>4 DEF Sources
<1>6. /\ \A d \in Ends : d # e => state'[d] = state[d]
      /\ state'[e].destinations = state[e].destinations /\ state'[e].max = state[e].max
  BY <1>1 DEF Numbers
<1>7. \A d \in Ends : /\ state'[d].max = state[d].max
                      /\ DOMAIN state'[d].destinations \subseteq DOMAIN state[d].destinations
  BY <1>6
<1>. QED
  BY <1>5, <1>7, BoundKeeps

\* Nor does its answer.
LEMMA HandleResponseBound ==
  ASSUME Typed, TableInv, AskInv, BoundInv, NEW e \in Ends, HandleResponse(e)
  PROVE  BoundInv'
<1>1. PICK p \in Ends, fd \in Nat, t \in DOMAIN conns, sid \in Nat :
         Told(e, p, fd, t) /\ Settles(e, fd, t) /\ (Denied(e, t) \/ Granted(e, fd, t, sid))
  BY HandleResponseEffect
<1>2. /\ DOMAIN conns' = DOMAIN conns
      /\ \A u \in DOMAIN conns : conns'[u].end = conns[u].end /\ conns'[u].role = conns[u].role
  BY <1>1 DEF Settles
<1>3. \A d \in Ends : Sources(d)' = Sources(d)
  BY <1>2 DEF Sources
<1>4. \A d \in Ends : state'[d].max = state[d].max /\ state'[d].destinations = state[d].destinations
  BY <1>1 DEF Settles
<1>5. \A d \in Ends : /\ state'[d].max = state[d].max
                      /\ DOMAIN state'[d].destinations \subseteq DOMAIN state[d].destinations
  BY <1>4
<1>. QED
  BY <1>3, <1>5, BoundKeeps

-----------------------------------------------------------------------------
(* The invariant. *)

\* The invariant holds at the start.
LEMMA InitInv == Init => Inv
<1>. SUFFICES ASSUME Init PROVE Inv
  OBVIOUS
<1>1. PICK cap \in Caps : state = [e \in Ends |-> EmptyState(cap)]
  BY DEF Init
<1>2. DOMAIN conns = {} /\ DOMAIN <<>> = {}
  BY SMTT(20) DEF Init
<1>3. \A e \in Ends : state[e].max = cap /\ state[e].destinations = <<>>
  BY <1>1, SMTT(20) DEF EmptyState
<1>4. cap \in Nat
  BY ForwardAssumption
<1>5. BoundInv
  <2>1. \A e \in Ends : Count(e) = Cardinality({})
    <3>1. \A e \in Ends : {t \in DOMAIN conns : conns[t].end = e /\ conns[t].role = "source"} = {}
      BY <1>2
    <3>. QED
      BY <3>1 DEF Count
  <2>2. Cardinality({}) = 0 /\ IsFiniteSet({})
    BY FS_EmptySet
  <2>3. \A n \in Nat : 0 <= n
    BY SMTT(20)
  <2>4. \A e \in Ends : MaxConns[e] \in Nat
    BY ForwardAssumption
  <2>. QED
    BY <1>2, <1>3, <1>4, <2>1, <2>2, <2>3, <2>4 DEF BoundInv
<1>. QED
  BY <1>5, InitKeeps DEF Inv

\* Every step keeps the invariant.
LEMMA NextInv == Inv /\ [Next]_vars => Inv'
<1>. SUFFICES ASSUME Inv, [Next]_vars PROVE Inv'
  OBVIOUS
<1>1. Typed /\ TableInv /\ AskInv /\ StreamInv /\ BoundInv
  BY DEF Inv
<1>2. IdsLeft
  BY <1>1, IdsAreLeft
<1>3. ASSUME NEW e \in Ends, Accept(e)
      PROVE  Inv'
  BY <1>1, <1>3, AcceptKeeps, AcceptStreams, AcceptBound DEF Inv
<1>4. ASSUME NEW e \in Ends, HandleAccepted(e)
      PROVE  Inv'
  BY <1>1, <1>2, <1>4, HandleAcceptedStreams, HandleAcceptedBound DEF Inv
<1>5. ASSUME NEW e \in Ends, HandleRead(e)
      PROVE  Inv'
  <2>1. PICK t, sid, src : \E frames \in Seq(PeerFrame) : Passes(e, Head(events[e]), t, sid, src, frames)
    BY <1>1, <1>5, HandleReadEffect
  <2>2. \E u : Touches(u) /\ \A d \in Ends : Restricts(d)
    BY <2>1 DEF Passes, Forgets
  <2>. QED
    BY <1>1, <1>5, <2>2, HandleReadKeeps, HandleReadStreams, TouchBound DEF Inv
<1>6. ASSUME NEW e \in Ends, HandleRequestRefused(e)
      PROVE  Inv'
  <2>1. BoundInv'
    BY <1>1, <1>6 DEF HandleRequestRefused, BoundInv, Count
  <2>. QED
    BY <1>1, <1>6, <2>1, HandleRequestRefusedKeeps, HandleRequestRefusedStreams DEF Inv
<1>7. ASSUME NEW e \in Ends, HandleRequest(e)
      PROVE  Inv'
  BY <1>1, <1>2, <1>7, HandleRequestKeeps, HandleRequestStreams, HandleRequestBound DEF Inv
<1>8. ASSUME NEW e \in Ends, HandleResponse(e)
      PROVE  Inv'
  BY <1>1, <1>8, HandleResponseKeeps, HandleResponseStreams, HandleResponseBound DEF Inv
<1>9. ASSUME NEW e \in Ends, HandleData(e)
      PROVE  Inv'
  BY <1>1, <1>9, HandleDataStreams, TouchBound DEF Inv
<1>10. ASSUME NEW e \in Ends, HandleClosed(e)
       PROVE  Inv'
  <2>1. \E t : Touches(t) /\ \A d \in Ends : Restricts(d)
    BY <1>1, <1>10, HandleClosedEffect DEF Forgets
  <2>. QED
    BY <1>1, <1>10, <2>1, HandleClosedEffect, HandleClosedStreams, TouchBound DEF Inv
<1>11. state' = state => \A d \in Ends : Restricts(d)
  BY DEF Restricts
<1>12. ASSUME NEW t, ReadSome(t) \/ ReadEnds(t)
       PROVE  Inv'
  <2>1. Typed' /\ Touches(t) /\ state' = state
    BY <1>1, <1>12, ReadEffect
  <2>2. BoundInv'
    BY <1>1, <1>11, <2>1, TouchBound
  <2>. QED
    BY <1>1, <1>12, <2>1, <2>2, ReadKeeps, ReadStreams DEF Inv
<1>13. ASSUME NEW t, WriteSome(t) \/ WriteFails(t)
       PROVE  Inv'
  <2>1. Typed' /\ Touches(t) /\ state' = state
    BY <1>1, <1>13, WriteEffect
  <2>2. BoundInv'
    BY <1>1, <1>11, <2>1, TouchBound
  <2>. QED
    BY <1>1, <1>13, <2>1, <2>2, WriteKeeps, WriteStreams DEF Inv
<1>14. CASE UNCHANGED vars
  BY <1>14, StutterKeeps
<1>15. CASE \E e \in Ends : Accept(e) \/ EventStep(e) \/ FrameStep(e)
  BY <1>3, <1>4, <1>5, <1>6, <1>7, <1>8, <1>9, <1>10, <1>15 DEF EventStep, FrameStep
<1>16. CASE \E t \in Streams : ReadSome(t) \/ ReadEnds(t) \/ WriteSome(t) \/ WriteFails(t)
  BY <1>12, <1>13, <1>16
<1>. QED
  BY <1>14, <1>15, <1>16 DEF Next

\* The inductive invariant of Forward holds throughout.
LEMMA Invariance == Spec => []Inv
<1>. QED
  BY InitInv, NextInv, PTL DEF Spec

-----------------------------------------------------------------------------
(* The theorems. *)

\* The invariant implies the cap on destinations.
LEMMA InvBounded == Inv => DestinationsBounded
<1>. SUFFICES ASSUME Inv, NEW e \in Ends
              PROVE  Cardinality({t \in DOMAIN conns : /\ conns[t].end = e /\ conns[t].role = "destination"
                                                       /\ conns[t].reader = "on"}) <= state[e].max
  BY DEF DestinationsBounded
<1>. DEFINE S == {t \in DOMAIN conns : /\ conns[t].end = e /\ conns[t].role = "destination"
                                       /\ conns[t].reader = "on"}
            T == DOMAIN state[e].destinations
            f == [t \in S |-> conns[t].id]
<1>1. Typed /\ BoundInv /\ LiveIsRegistered
  BY InvLive DEF Inv
<1>2. \A t \in S : f[t] \in T /\ state[e].destinations[f[t]] = t
  BY <1>1 DEF LiveIsRegistered
<1>3. f \in [S -> T]
  BY <1>2
<1>. HIDE DEF f
<1>4. \A t, u \in S : f[t] = f[u] => t = u
  BY <1>2
<1>5. f \in Injection(S, T)
  BY <1>3, <1>4 DEF Injection, IsInjective
<1>6. IsFiniteSet(T) /\ Cardinality(T) <= state[e].max
  BY <1>1 DEF BoundInv
<1>7. IsFiniteSet(S) /\ Cardinality(S) <= Cardinality(T)
  BY <1>5, <1>6, FS_Injection
<1>8. PICK x, y, z \in Nat : x = Cardinality(S) /\ y = Cardinality(T) /\ z = state[e].max
  BY <1>1, <1>6, <1>7, FS_CardinalityType, StateTypes
<1>9. x <= z
  BY <1>6, <1>7, <1>8, SMTT(20)
<1>. QED
  BY <1>8, <1>9

\* Both engines' tables stay typed: ids handed out, destinations and sources
\* are known by ids of the right kind, and no write queue grows beyond its depth,
\* for any number of connections, chunks, socket ids and failures.
THEOREM ForwardTypeCorrect == Spec => []TypeOK
<1>1. Inv => TypeOK
  BY InvTypeOK, IdsAreLeft DEF Inv
<1>. QED
  BY <1>1, Invariance, PTL

\* Whatever the engines of forward.rs do in whatever order, what a local
\* connection was passed is a prefix of what was read at the other end of its
\* tunnel: tunnels neither mix nor reorder, although ids are looked up in three
\* tables of two engines and requests, answers, data and ends cross each other.
THEOREM TunnelsStayIsolated == Spec => []TunnelsIsolated
<1>. QED
  BY Invariance, InvIsolated, PTL

\* A connection closed by its peer's end of file got everything that was read
\* there: teardown drops the queue's sender, and the writer drains it first.
THEOREM ClosedAfterAllData == Spec => []CloseAfterData
<1>. QED
  BY Invariance, InvClose, PTL

\* create_destination's cap holds: no engine has more live destination
\* connections than MAX_DESTINATION_CONNECTIONS.
THEOREM DestinationsStayBounded == Spec => []DestinationsBounded
<1>. QED
  BY Invariance, InvBounded, PTL

\* No step leaves a live connection without its table entries.
THEOREM LiveStaysRegistered == Spec => []LiveIsRegistered
<1>. QED
  BY Invariance, InvLive, PTL

=============================================================================
