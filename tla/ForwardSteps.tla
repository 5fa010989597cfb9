---------------------------- MODULE ForwardSteps ----------------------------
(***************************************************************************)
(* Proofs about module Forward, second part: what requests and answers do  *)
(* to connections and tables.                                              *)
(***************************************************************************)
EXTENDS ForwardTables

\* Most leaves are first-order; those that need more cite SMT.
USE ZenonT(20)

-----------------------------------------------------------------------------
(* Requests. *)

\* The frames after one was taken.
LEMMA TakenAsks ==
  ASSUME Typed, NEW e \in Ends, NEW S, Incoming(e, S), Shifts(link[Peer(e)], link'[Peer(e)], 1),
         \A i \in DOMAIN link'[Peer(e)] : i + 1 \in DOMAIN link[Peer(e)],
         link' \in [Ends -> Seq(PeerFrame)]
  PROVE  /\ \A i, fd \in Nat : \A h : Asks(Peer(e), i, h, fd)' <=> i # 0 /\ Asks(Peer(e), i + 1, h, fd)
         /\ \A i \in DOMAIN link'[Peer(e)] : link'[Peer(e)][i] = link[Peer(e)][i + 1]
         /\ Asks(Peer(e), 1, Frame(e).h, Frame(e).id) /\ Frame(e) \in PeerFrame /\ Frame(e).h \in S
         /\ Frame(e) = link[Peer(e)][1] /\ Frame(e).id \in Nat
<1>1. PICK x \in Seq(PeerFrame), y \in Seq(PeerFrame) : x = link[Peer(e)] /\ y = link'[Peer(e)]
  BY PeerFacts DEF Typed
<1>2. x # <<>> /\ Frame(e) = Head(x) /\ Frame(e).h \in S /\ Shifts(x, y, 1)
  BY <1>1 DEF Incoming, Frame
<1>3. 1 \in DOMAIN x /\ Head(x) = x[1] /\ x[1] \in PeerFrame
  BY <1>2, ShiftsTail
<1>4. \A i \in DOMAIN y : i \in Nat /\ i # 0 /\ i + 1 \in DOMAIN x /\ y[i] = x[i + 1]
  BY <1>1, <1>2, SMTT(20) DEF Shifts
<1>5. ASSUME NEW i \in Nat, i # 0, i + 1 \in DOMAIN x
      PROVE  i \in DOMAIN y
  <2>1. PICK k \in DOMAIN x : k = i + 1 /\ k > 1 /\ k - 1 = i
    BY <1>5, SMTT(20)
  <2>. QED
    BY <1>2, <2>1 DEF Shifts
<1>6. \A i, fd \in Nat : \A h : Asks(Peer(e), i, h, fd)' <=> i # 0 /\ Asks(Peer(e), i + 1, h, fd)
  BY <1>1, <1>4, <1>5 DEF Asks
<1>. QED
  BY <1>1, <1>2, <1>3, <1>4, <1>6 DEF Asks, PeerFrame

\* The engine of e takes the request for fd of p and sends f as its n-th frame.
Answers(e, p, fd, n, f) ==
    /\ p # e /\ Peer(p) = e /\ Peer(e) = p /\ \A d \in Ends : d = e \/ d = p
    /\ Asks(p, 1, "REQUEST", fd)
    /\ \A i, x \in Nat : \A h : Asks(p, i, h, x)' <=> i # 0 /\ Asks(p, i + 1, h, x)
    /\ \A i \in DOMAIN link'[p] : link'[p][i] = link[p][i + 1]
    /\ link'[e][n] = f /\ \A i \in DOMAIN link[e] : link'[e][i] = link[e][i]
    /\ \A i, x \in Nat : /\ Asks(e, i, "REQUEST", x)' <=> Asks(e, i, "REQUEST", x)
                         /\ Asks(e, i, "RESPONSE", x)' <=> Asks(e, i, "RESPONSE", x) \/ (i = n /\ x = fd)

\* What the links hold after a request was answered.
LEMMA AnswersFacts ==
  ASSUME Typed, NEW e \in Ends, Incoming(e, {"REQUEST"}),
         NEW f \in PeerFrame, Answer(e, << f >>), f.h = "RESPONSE", f.id = Frame(e).id
  PROVE  /\ link' \in [Ends -> Seq(PeerFrame)]
         /\ \E p \in Ends, fd \in Nat, n \in Nat \ {0} : fd = Frame(e).id /\ Answers(e, p, fd, n, f)
<1>1. PICK p \in Ends : p = Peer(e) /\ p # e /\ Peer(p) = e /\ \A d \in Ends : d = e \/ d = p
  BY PeerFacts
<1>2. /\ Shifts(link[Peer(e)], link'[Peer(e)], 1) /\ link' \in [Ends -> Seq(PeerFrame)]
      /\ \A i \in DOMAIN link'[Peer(e)] : i + 1 \in DOMAIN link[Peer(e)]
  <2>1. PICK frames \in Seq(PeerFrame) : frames = << f >>
    BY OneFrame
  <2>2. Answer(e, frames) /\ link[Peer(e)] # <<>>
    BY <2>1 DEF Incoming
  <2>. QED
    BY <2>2, AnswerFacts
<1>3. PICK fd \in Nat : /\ fd = Frame(e).id /\ Asks(p, 1, "REQUEST", fd)
                        /\ \A i, x \in Nat : \A h : Asks(p, i, h, x)' <=> i # 0 /\ Asks(p, i + 1, h, x)
                        /\ \A i \in DOMAIN link'[p] : link'[p][i] = link[p][i + 1]
  BY <1>1, <1>2, TakenAsks, SMTT(20)
<1>4. PICK n \in Nat \ {0} :
         /\ n \notin DOMAIN link[e] /\ n \in DOMAIN link'[e] /\ link'[e][n] = f
         /\ \A i \in DOMAIN link[e] : i \in DOMAIN link'[e] /\ link'[e][i] = link[e][i]
         /\ \A i \in DOMAIN link'[e] : i \in DOMAIN link[e] \/ i = n
  <2>1. PICK x \in Seq(PeerFrame) : x = link[e]
    BY DEF Typed
  <2>2. PICK y \in Seq(PeerFrame) : /\ y = x \o << f >> /\ Len(x) \in Nat /\ DOMAIN x = 1 .. Len(x)
                                    /\ DOMAIN y = 1 .. Len(x) + 1 /\ y[Len(x) + 1] = f
                                    /\ \A i \in 1 .. Len(x) : y[i] = x[i]
    BY Extended
  <2>3. link'[e] = y
    BY <1>1, <2>1, <2>2 DEF Answer, Typed
  <2>4. PICK n \in Nat \ {0} : n = Len(x) + 1
    BY <2>2, SMTT(20)
  <2>5. /\ n \notin DOMAIN x /\ n \in DOMAIN y /\ y[n] = f
        /\ \A i \in DOMAIN x : i \in DOMAIN y /\ y[i] = x[i]
        /\ \A i \in DOMAIN y : i \in DOMAIN x \/ i = n
    BY <2>2, <2>4, SMTT(20)
  <2>. QED
    BY <2>1, <2>3, <2>5
<1>5. \A i, x \in Nat : /\ Asks(e, i, "REQUEST", x)' <=> Asks(e, i, "REQUEST", x)
                        /\ Asks(e, i, "RESPONSE", x)' <=> Asks(e, i, "RESPONSE", x) \/ (i = n /\ x = fd)
  BY <1>3, <1>4 DEF Asks
<1>6. Answers(e, p, fd, n, f)
  BY <1>1, <1>3, <1>4, <1>5 DEF Answers
<1>. QED
  BY <1>2, <1>3, <1>6

\* t is told: refused, or the socket id of its tunnel.
Tells(f, t) == (f.sid = 0 <=> conns'[t].mate = 0) /\ (f.sid # 0 => f.sid = Sid(t)')

\* Connections other than t stay; t remains as it is but for its mate; the new
\* ones have their tasks.
Mates(t) ==
    /\ \A u \in DOMAIN conns :
         /\ u \in DOMAIN conns' /\ conns'[u].end = conns[u].end /\ conns'[u].role = conns[u].role
         /\ conns'[u].id = conns[u].id /\ conns'[u].reader = conns[u].reader
         /\ u # t => conns'[u] = conns[u]
         /\ conns[u].mate # 0 => Sid(u)' = Sid(u)
    /\ \A u \in DOMAIN conns' : u \notin DOMAIN conns => conns'[u].reader # "none"

\* The answer to a request keeps requests right.
LEMMA AnswerKeepsAsks ==
  ASSUME Typed, TableInv, AskInv, events' = events, \A d \in Ends : state'[d].pending = state[d].pending,
         NEW e \in Ends, NEW p \in Ends, NEW fd \in Nat, NEW n \in Nat, NEW f, Answers(e, p, fd, n, f),
         NEW t, t = state[p].pending[fd], Mates(t), Tells(f, t)
  PROVE  AskInv'
<1>1. p # e /\ Peer(p) = e /\ Peer(e) = p /\ \A d \in Ends : d = e \/ d = p
  BY DEF Answers
<1>2. /\ Asks(p, 1, "REQUEST", fd)
      /\ \A i, x \in Nat : \A h : Asks(p, i, h, x)' <=> i # 0 /\ Asks(p, i + 1, h, x)
  BY DEF Answers
<1>3. /\ \A i \in DOMAIN link'[p] : link'[p][i] = link[p][i + 1]
      /\ link'[e][n] = f /\ \A i \in DOMAIN link[e] : link'[e][i] = link[e][i]
  BY DEF Answers
<1>4. \A i, x \in Nat : /\ Asks(e, i, "REQUEST", x)' <=> Asks(e, i, "REQUEST", x)
                        /\ Asks(e, i, "RESPONSE", x)' <=> Asks(e, i, "RESPONSE", x) \/ (i = n /\ x = fd)
  BY DEF Answers
<1>5. /\ fd \in DOMAIN state[p].pending /\ \A j \in Nat : Asks(p, j, "REQUEST", fd) => j = 1
      /\ \A j \in Nat : ~Asks(e, j, "RESPONSE", fd)
  BY <1>1, <1>2 DEF AskInv, RequestInv
<1>6. \A d \in Ends : \A x \in DOMAIN state[d].pending :
         \E u \in DOMAIN conns : /\ u = state[d].pending[x] /\ conns[u].end = d /\ conns[u].id = x
                                 /\ x \in Nat
  BY ConnTypes, SMTT(20) DEF TableInv, PendingInv, Is
<1>7. /\ t \in DOMAIN conns /\ conns[t].end = p /\ conns[t].id = fd
      /\ \A d \in Ends : \A x \in DOMAIN state[d].pending :
            state[d].pending[x] = t => d = p /\ x = fd
  BY <1>1, <1>2, <1>5, <1>6, SMTT(20)
<1>8. \A u \in DOMAIN conns :
         /\ u \in DOMAIN conns' /\ conns'[u].end = conns[u].end /\ conns'[u].role = conns[u].role
         /\ conns'[u].id = conns[u].id /\ conns'[u].reader = conns[u].reader
         /\ u # t => conns'[u] = conns[u]
  BY DEF Mates
<1>9. \A u \in DOMAIN conns : conns[u].mate # 0 => Sid(u)' = Sid(u)
  BY DEF Mates
<1>10. AcceptInv'
  <2>1. \A d, i, u : Arrives(d, i, u)' <=> Arrives(d, i, u)
    BY DEF Arrives
  <2>2. \A u, d : Is(u, d, "source", 0) => Is(u, d, "source", 0)'
    BY <1>8 DEF Is
  <2>. QED
    BY <2>1, <2>2 DEF AskInv, AcceptInv
<1>11. RequestInv'
  <2>1. ASSUME NEW d \in Ends, NEW x \in Nat, NEW i \in Nat, Asks(d, i, "REQUEST", x)'
        PROVE  /\ x \in DOMAIN state'[d].pending /\ conns'[state'[d].pending[x]].mate = 0
               /\ \A j \in Nat : Asks(d, j, "REQUEST", x)' => i = j
               /\ \A j \in Nat : ~(Asks(Peer(d), j, "RESPONSE", x)')
    <3>1. CASE d = p
      <4>1. Asks(p, i + 1, "REQUEST", x) /\ i # 0
        BY <1>2, <2>1, <3>1
      <4>2. /\ x \in DOMAIN state[p].pending /\ conns[state[p].pending[x]].mate = 0
            /\ \A j \in Nat : Asks(p, j, "REQUEST", x) => i + 1 = j
            /\ \A j \in Nat : ~Asks(e, j, "RESPONSE", x)
        BY <1>1, <4>1, SMTT(20) DEF AskInv, RequestInv
      <4>3. x # fd
        BY <1>5, <4>1, SMTT(20)
      <4>4. PICK u \in DOMAIN conns : u # t /\ u = state[p].pending[x]
        BY <1>6, <1>7, <4>2, <4>3, SMTT(20)
      <4>5. conns'[state'[p].pending[x]].mate = 0
        <5>1. conns'[u] = conns[u]
          BY <1>8, <4>4
        <5>. QED
          BY <4>2, <4>4, <5>1
      <4>6. ASSUME NEW j \in Nat, Asks(p, j, "REQUEST", x)'
            PROVE  i = j
        <5>1. j + 1 \in Nat /\ Asks(p, j + 1, "REQUEST", x)
          BY <1>2, <4>6, SMTT(20)
        <5>. QED
          BY <4>2, <5>1, SMTT(20)
      <4>7. \A j \in Nat : ~(Asks(e, j, "RESPONSE", x)')
        BY <1>4, <4>2, <4>3
      <4>. QED
        BY <1>1, <3>1, <4>2, <4>5, <4>6, <4>7
    <3>2. CASE d = e
      <4>1. Asks(e, i, "REQUEST", x)
        BY <1>4, <2>1, <3>2
      <4>2. /\ x \in DOMAIN state[e].pending /\ conns[state[e].pending[x]].mate = 0
            /\ \A j \in Nat : Asks(e, j, "REQUEST", x) => i = j
            /\ \A j \in Nat : ~Asks(p, j, "RESPONSE", x)
        BY <1>1, <4>1, SMTT(20) DEF AskInv, RequestInv
      <4>3. state[e].pending[x] # t /\ state[e].pending[x] \in DOMAIN conns
        BY <1>1, <1>6, <1>7, <4>2, SMTT(20)
      <4>4. conns'[state[e].pending[x]].mate = 0
        BY <1>8, <4>2, <4>3
      <4>5. \A j \in Nat : ~(Asks(p, j, "RESPONSE", x)')
        BY <1>2, <4>2, SMTT(20)
      <4>. QED
        BY <1>1, <1>4, <3>2, <4>2, <4>4, <4>5, SMTT(20)
    <3>. QED
      BY <1>1, <3>1, <3>2
  <2>. QED
    BY <2>1 DEF RequestInv
<1>12. ResponseInv'
  <2>1. ASSUME NEW d \in Ends, NEW x \in Nat, NEW i \in Nat, Asks(Peer(d), i, "RESPONSE", x)'
        PROVE  \E u, sid :
                  /\ u = state'[d].pending[x] /\ sid = link'[Peer(d)][i].sid
                  /\ x \in DOMAIN state'[d].pending
                  /\ sid = 0 <=> conns'[u].mate = 0
                  /\ sid # 0 => sid = Sid(u)'
                  /\ \A j \in Nat : Asks(Peer(d), j, "RESPONSE", x)' => i = j
    <3>1. CASE d = e
      <4>1. Asks(p, i + 1, "RESPONSE", x) /\ i \in DOMAIN link'[p]
        <5>1. Asks(p, i, "RESPONSE", x)'
          BY <1>1, <2>1, <3>1
        <5>2. i \in DOMAIN link'[p]
          BY <5>1 DEF Asks
        <5>. QED
          BY <1>2, <5>1, <5>2
      <4>2. PICK u, sid :
               /\ u = state[e].pending[x] /\ sid = link[p][i + 1].sid
               /\ x \in DOMAIN state[e].pending
               /\ sid = 0 <=> conns[u].mate = 0
               /\ sid # 0 => sid = Sid(u)
               /\ \A j \in Nat : Asks(p, j, "RESPONSE", x) => i + 1 = j
        BY <1>1, <4>1, SMTT(20) DEF AskInv, ResponseInv
      <4>3. u # t /\ u \in DOMAIN conns
        BY <1>1, <1>6, <1>7, <4>2, SMTT(20)
      <4>4. \A j \in Nat : Asks(p, j, "RESPONSE", x)' => i = j
        BY <1>2, <4>2, SMTT(20)
      <4>. QED
        BY <1>1, <1>3, <1>8, <1>9, <3>1, <4>1, <4>2, <4>3, <4>4, SMTT(20)
    <3>2. CASE d = p /\ x # fd
      <4>1. Asks(e, i, "RESPONSE", x) /\ link'[e][i] = link[e][i]
        BY <1>1, <1>3, <1>4, <2>1, <3>2 DEF Asks
      <4>2. PICK u, sid :
               /\ u = state[p].pending[x] /\ sid = link[e][i].sid
               /\ x \in DOMAIN state[p].pending
               /\ sid = 0 <=> conns[u].mate = 0
               /\ sid # 0 => sid = Sid(u)
               /\ \A j \in Nat : Asks(e, j, "RESPONSE", x) => i = j
        BY <1>1, <4>1, SMTT(20) DEF AskInv, ResponseInv
      <4>3. u # t /\ u \in DOMAIN conns
        BY <1>6, <1>7, <3>2, <4>2, SMTT(20)
      <4>4. \A j \in Nat : Asks(e, j, "RESPONSE", x)' => i = j
        BY <1>4, <3>2, <4>2
      <4>. QED
        BY <1>1, <1>8, <1>9, <3>2, <4>1, <4>2, <4>3, <4>4, SMTT(20)
    <3>3. CASE d = p /\ x = fd
      <4>1. i = n /\ \A j \in Nat : Asks(e, j, "RESPONSE", x)' => j = n
        BY <1>1, <1>4, <1>5, <2>1, <3>3
      <4>. QED
        BY <1>1, <1>3, <1>5, <3>3, <4>1 DEF Tells
    <3>. QED
      BY <1>1, <3>1, <3>2, <3>3
  <2>. QED
    BY <2>1, SMTT(20) DEF ResponseInv
<1>13. WaitingInv'
  <2>1. ASSUME NEW u \in DOMAIN conns, conns'[u].mate # 0, conns'[u].reader = "none"
        PROVE  \E i \in Nat : Asks(Peer(conns[u].end), i, "RESPONSE", conns[u].id)'
    <3>1. conns[u].end \in Ends /\ conns[u].id \in Nat
      BY ConnTypes
    <3>2. CASE u = t
      BY <1>1, <1>4, <1>7, <1>8, <3>2, SMTT(20)
    <3>3. CASE u # t
      <4>1. PICK i \in Nat : Asks(Peer(conns[u].end), i, "RESPONSE", conns[u].id)
        BY <1>8, <2>1, <3>3 DEF AskInv, WaitingInv
      <4>2. CASE conns[u].end = p
        BY <1>1, <1>4, <1>8, <3>1, <4>1, <4>2
      <4>3. CASE conns[u].end = e
        <5>1. Asks(p, i, "RESPONSE", conns[u].id)
          BY <1>1, <4>1, <4>3
        <5>2. PICK j \in Nat : j # 0 /\ i = j + 1
          <6>1. Asks(p, 1, "REQUEST", fd)
            BY <1>2
          <6>2. i \in DOMAIN link[p] /\ i # 1
            BY <5>1, <6>1 DEF Asks
          <6>. QED
            BY <6>2, SMTT(20) DEF Typed
        <5>3. Asks(p, j, "RESPONSE", conns[u].id)'
          BY <1>2, <1>8, <3>1, <5>1, <5>2
        <5>. QED
          BY <1>1, <1>8, <4>3, <5>3, SMTT(20)
      <4>. QED
        BY <1>1, <3>1, <4>2, <4>3
    <3>. QED
      BY <3>2, <3>3
  <2>. QED
    BY <1>8, <2>1 DEF WaitingInv, Mates
<1>. QED
  BY <1>10, <1>11, <1>12, <1>13 DEF AskInv

\* A request that is refused.
LEMMA HandleRequestRefusedKeeps ==
  ASSUME Typed, TableInv, AskInv, NEW e \in Ends, HandleRequestRefused(e)
  PROVE  Typed' /\ TableInv' /\ AskInv'
<1>1. /\ Incoming(e, {"REQUEST"}) /\ Answer(e, << Response(Frame(e).id, 0) >>)
      /\ state' = state /\ conns' = conns /\ events' = events
  BY DEF HandleRequestRefused
<1>2. Frame(e) \in PeerFrame
  <2>1. PICK x \in Seq(PeerFrame) : x = link[Peer(e)] /\ x # <<>> /\ Frame(e) = Head(x)
    BY <1>1, PeerFacts DEF Typed, Incoming, Frame
  <2>. QED
    BY <2>1, SMTT(20)
<1>3. PICK f \in PeerFrame : f = Response(Frame(e).id, 0) /\ f.h = "RESPONSE" /\ f.id = Frame(e).id /\ f.sid = 0
  <2>1. PICK i \in Nat : i = Frame(e).id
    BY <1>2 DEF PeerFrame
  <2>2. Response(i, 0) \in PeerFrame
    BY DEF Response, PeerFrame, Chunk
  <2>3. Response(i, 0).h = "RESPONSE" /\ Response(i, 0).id = i /\ Response(i, 0).sid = 0
    BY DEF Response
  <2>. QED
    BY <2>1, <2>2, <2>3
<1>4. /\ link' \in [Ends -> Seq(PeerFrame)]
      /\ \E p \in Ends, fd \in Nat, n \in Nat \ {0} : fd = Frame(e).id /\ Answers(e, p, fd, n, f)
  BY <1>1, <1>3, AnswersFacts
<1>5. PICK p \in Ends, fd \in Nat, n \in Nat \ {0} : fd = Frame(e).id /\ Answers(e, p, fd, n, f)
  BY <1>4
<1>6. PICK t : t = state[p].pending[fd] /\ conns[t].mate = 0
  <2>1. Asks(p, 1, "REQUEST", fd)
    BY <1>5 DEF Answers
  <2>. QED
    BY <2>1 DEF AskInv, RequestInv
<1>7. Mates(t) /\ Tells(f, t)
  BY <1>1, <1>3, <1>6 DEF Mates, Tells, Sid
<1>8. AskInv'
  BY <1>1, <1>5, <1>6, <1>7, AnswerKeepsAsks
<1>9. Typed'
  BY <1>1, <1>4 DEF Typed
<1>10. 0 \notin DOMAIN conns
  BY ConnTypes
<1>11. Touches(0)
  BY <1>1, <1>10 DEF Touches
<1>12. TableInv'
  BY <1>1, <1>9, <1>10, <1>11, StayKeeps
<1>. QED
  BY <1>8, <1>9, <1>12

\* Whoever asked is the pending connection of that id.
LEMMA RequesterFacts ==
  ASSUME Typed, TableInv, AskInv, NEW e \in Ends, NEW p \in Ends, p = Peer(e), NEW fd \in Nat,
         Asks(p, 1, "REQUEST", fd)
  PROVE  \E t \in DOMAIN conns :
            /\ t = Requester(e, fd) /\ t = state[p].pending[fd] /\ fd \in DOMAIN state[p].pending
            /\ Is(t, p, "source", fd) /\ fd # 0 /\ conns[t].reader = "none" /\ conns[t].mate = 0
<1>1. PICK t : /\ t = state[p].pending[fd] /\ conns[t].mate = 0 /\ fd \in DOMAIN state[p].pending
  BY DEF AskInv, RequestInv
<1>2. Is(t, p, "source", fd) /\ fd # 0 /\ conns[t].reader = "none"
  BY <1>1 DEF TableInv, PendingInv
<1>3. t \in DOMAIN conns /\ conns[t].end = p /\ conns[t].role = "source" /\ conns[t].id = fd
  BY <1>2 DEF Is
<1>4. PICK u \in DOMAIN conns :
         u = Requester(e, fd) /\ conns[u].end = p /\ conns[u].role = "source" /\ conns[u].id = fd
  BY <1>3 DEF Requester
<1>5. u = t
  BY <1>2, <1>3, <1>4 DEF TableInv, IdInv
<1>. QED
  BY <1>1, <1>2, <1>3, <1>4, <1>5

\* A socket id is given out once.
LEMMA NewIdFacts ==
  ASSUME Typed, TableInv, IdsLeft, NEW e \in Ends, Unused(e) # {}
  PROVE  \E sid \in Nat \ {0} :
            /\ sid = NewId(e) /\ sid \in SocketIds[e]
            /\ \A u \in DOMAIN conns : conns[u].end = e => conns[u].id # sid
<1>1. PICK sid \in Unused(e) : sid = NewId(e)
  BY DEF NewId
<1>2. /\ sid \in SocketIds[e]
      /\ \A u \in DOMAIN conns : conns[u].end = e /\ conns[u].role = "destination" => conns[u].id # sid
  BY DEF Unused
<1>3. sid \in Nat \ {0} /\ MaxConns[e] \in Nat /\ sid \notin 1 .. MaxConns[e]
  BY <1>2, ForwardAssumption, IdsAssumption
<1>4. ASSUME NEW u \in DOMAIN conns, conns[u].end = e, conns[u].role = "source"
      PROVE  conns[u].id # sid
  <2>1. conns[u].id < state[e].next_conn_id
    BY <1>4 DEF TableInv, ConnInv, ConnOK
  <2>2. state[e].next_conn_id <= MaxConns[e] + 1
    BY DEF IdsLeft
  <2>3. state[e].next_conn_id \in Nat /\ conns[u].id \in Nat
    BY StateTypes, ConnTypes
  <2>. QED
    BY <1>3, <2>1, <2>2, <2>3, SMTT(20)
<1>. QED
  BY <1>1, <1>2, <1>3, <1>4, ConnTypes DEF Role

\* The engine of e opens a tunnel for t of p: n is its end here, known as sid.
Opens(e, p, t, n, sid) ==
    /\ n \notin DOMAIN conns /\ DOMAIN conns' = DOMAIN conns \cup {n}
    /\ \A u \in DOMAIN conns : u # t => conns'[u] = conns[u]
    /\ conns[t].end = p /\ conns[t].role = "source" /\ conns[t].id # 0
    /\ conns[t].reader = "none" /\ conns[t].mate = 0
    /\ conns'[t].end = p /\ conns'[t].role = "source" /\ conns'[t].id = conns[t].id /\ conns'[t].mate = n
    /\ conns'[t].reader = "none" /\ conns'[t].writer = conns[t].writer
    /\ conns'[t].read = conns[t].read /\ conns'[t].queue = conns[t].queue /\ conns'[t].got = conns[t].got
    /\ conns'[n].end = e /\ conns'[n].role = "destination" /\ conns'[n].id = sid /\ conns'[n].mate = t
    /\ \/ conns'[n].reader = "on" /\ conns'[n].writer = "on"
       \/ conns'[n].reader = "off" /\ conns'[n].writer = "failed"
    /\ conns'[n].read = 0 /\ conns'[n].queue = <<>> /\ conns'[n].got = <<>>
    /\ sid \in SocketIds[e] /\ \A u \in DOMAIN conns : conns[u].end = e => conns[u].id # sid
    /\ DOMAIN state'[e].destinations = DOMAIN state[e].destinations \cup {sid}
    /\ state'[e].destinations[sid] = n
    /\ \A k \in DOMAIN state[e].destinations : k # sid => state'[e].destinations[k] = state[e].destinations[k]
    /\ \A d \in Ends : /\ d # e => state'[d] = state[d]
                       /\ state'[d].pending = state[d].pending /\ state'[d].max = state[d].max
                       /\ state'[d].next_conn_id = state[d].next_conn_id
                       /\ state'[d].source_sockets = state[d].source_sockets
                       /\ state'[d].source_conn_ids = state[d].source_conn_ids

\* A tunnel opens: the connections.
Joins(c, t, n) == conns' = [Append(conns, c) EXCEPT ![t].mate = n]

Joined(c, t, n) ==
    /\ conns' \in Seq(Conn) /\ n \notin DOMAIN conns /\ DOMAIN conns' = DOMAIN conns \cup {n}
    /\ \A u \in DOMAIN conns : u # t => conns'[u] = conns[u]
    /\ conns'[n] = c /\ conns'[t] = [conns[t] EXCEPT !.mate = n]

\* The new destination is the mate of the source that asked.
LEMMA OpenedConns ==
  ASSUME Typed, NEW t \in DOMAIN conns, NEW c \in Conn, NEW n \in Nat, n = Len(conns) + 1, Joins(c, t, n)
  PROVE  Joined(c, t, n)
<1>1. PICK x \in Seq(Conn) : x = conns
  BY DEF Typed
<1>2. PICK y \in Seq(Conn) : y = Append(x, c)
  <2>1. Append(x, c) \in Seq(Conn)
    BY SMTT(20)
  <2>. QED
    BY <2>1
<1>3. /\ DOMAIN y = DOMAIN x \cup {n} /\ y[n] = c /\ n \notin DOMAIN x /\ \A u \in DOMAIN x : y[u] = x[u]
  <2>1. Len(y) = Len(x) + 1 /\ n = Len(x) + 1 /\ Len(x) \in Nat
    BY <1>1, <1>2, SMTT(20)
  <2>2. DOMAIN y = 1 .. Len(x) + 1 /\ DOMAIN x = 1 .. Len(x)
    BY <2>1, SMTT(20)
  <2>3. y[n] = c /\ \A u \in 1 .. Len(x) : y[u] = x[u]
    BY <1>2, <2>1, SMTT(20)
  <2>. QED
    BY <2>1, <2>2, <2>3, SMTT(20)
<1>4. PICK d \in Conn : d = [x[t] EXCEPT !.mate = n]
  <2>1. x[t] \in Conn
    BY <1>1, SMTT(20)
  <2>. QED
    BY <2>1 DEF Conn
<1>5. t \in DOMAIN y /\ y[t] = x[t]
  BY <1>1, <1>3
<1>6. conns' = [y EXCEPT ![t] = d]
  BY <1>1, <1>2, <1>4, <1>5 DEF Joins
<1>7. conns' \in Seq(Conn) /\ DOMAIN conns' = DOMAIN y
  BY <1>5, <1>6, SMTT(20)
<1>8. conns'[t] = d /\ \A u \in DOMAIN y : u # t => conns'[u] = y[u]
  BY <1>5, <1>6
<1>9. conns'[n] = c /\ \A u \in DOMAIN x : u # t => conns'[u] = x[u]
  BY <1>3, <1>5, <1>8, SMTT(20)
<1>. QED
  BY <1>1, <1>3, <1>4, <1>7, <1>8, <1>9 DEF Joined

\* h is g with k to v.
Enters(h, g, k, v) ==
    /\ h = Insert(g, k, v) /\ DOMAIN h = DOMAIN g \cup {k} /\ h[k] = v
    /\ \A x \in DOMAIN g : x # k => h[x] = g[x]

\* A table with one more entry.
LEMMA Entered ==
  ASSUME NEW g \in Tables, NEW k \in Nat, NEW v \in Nat
  PROVE  \E h \in Tables : Enters(h, g, k, v)
<1>1. /\ Insert(g, k, v) \in Tables /\ DOMAIN Insert(g, k, v) = DOMAIN g \cup {k}
      /\ Insert(g, k, v)[k] = v /\ \A x \in DOMAIN g : x # k => Insert(g, k, v)[x] = g[x]
  BY Inserted, SMTT(20)
<1>2. PICK h : h = Insert(g, k, v)
  OBVIOUS
<1>3. h \in Tables /\ DOMAIN h = DOMAIN g \cup {k} /\ h[k] = v /\ \A x \in DOMAIN g : x # k => h[x] = g[x]
  BY <1>1, <1>2
<1>. QED
  BY <1>2, <1>3 DEF Enters

\* The engine of e answers a request with a tunnel.
Serves(e) ==
    \E p \in Ends, fd \in Nat, t \in DOMAIN conns, n \in Nat \ {0}, sid \in Nat \ {0},
       i \in Nat \ {0}, f \in PeerFrame :
         /\ Answers(e, p, fd, i, f) /\ f.sid = sid /\ Opens(e, p, t, n, sid)
         /\ t = state[p].pending[fd]

\* What serving a request does.
LEMMA HandleRequestEffect ==
  ASSUME Typed, TableInv, AskInv, IdsLeft, NEW e \in Ends, HandleRequest(e)
  PROVE  Typed' /\ events' = events /\ Serves(e)
<1>1. /\ Incoming(e, {"REQUEST"}) /\ Unused(e) # {} /\ events' = events
      /\ \E c \in Spawned(Len(conns) + 1, Local(e, "destination", NewId(e), Requester(e, Frame(e).id))) :
            conns' = [Append(conns, c) EXCEPT ![c.mate].mate = Len(conns) + 1]
      /\ state' = [state EXCEPT ![e].destinations = Insert(@, NewId(e), Len(conns) + 1)]
      /\ Answer(e, << Response(Frame(e).id, NewId(e)) >>)
  BY DEF HandleRequest
<1>2. PICK sid \in Nat \ {0} : /\ sid = NewId(e) /\ sid \in SocketIds[e]
                               /\ \A u \in DOMAIN conns : conns[u].end = e => conns[u].id # sid
  BY <1>1, NewIdFacts
<1>3. PICK j \in Nat : j = Frame(e).id
  <2>1. PICK x \in Seq(PeerFrame) : x = link[Peer(e)] /\ x # <<>> /\ Frame(e) = Head(x)
    BY <1>1, PeerFacts DEF Typed, Incoming, Frame
  <2>2. Frame(e) \in PeerFrame
    BY <2>1, SMTT(20)
  <2>. QED
    BY <2>2 DEF PeerFrame
<1>4. PICK f \in PeerFrame : f = Response(j, sid) /\ f.h = "RESPONSE" /\ f.id = j /\ f.sid = sid
  <2>1. Response(j, sid) \in PeerFrame
    BY DEF Response, PeerFrame, Chunk
  <2>2. Response(j, sid).h = "RESPONSE" /\ Response(j, sid).id = j /\ Response(j, sid).sid = sid
    BY DEF Response
  <2>. QED
    BY <2>1, <2>2
<1>5. Answer(e, << f >>)
  BY <1>1, <1>2, <1>3, <1>4
<1>6. /\ link' \in [Ends -> Seq(PeerFrame)]
      /\ \E p \in Ends, fd \in Nat, i \in Nat \ {0} : fd = Frame(e).id /\ Answers(e, p, fd, i, f)
  BY <1>1, <1>3, <1>4, <1>5, AnswersFacts
<1>7. PICK p \in Ends, fd \in Nat, i \in Nat \ {0} : fd = Frame(e).id /\ Answers(e, p, fd, i, f)
  BY <1>6
<1>8. p = Peer(e) /\ Asks(p, 1, "REQUEST", fd)
  BY <1>7 DEF Answers
<1>9. PICK t \in DOMAIN conns :
         /\ t = Requester(e, fd) /\ t = state[p].pending[fd]
         /\ Is(t, p, "source", fd) /\ fd # 0 /\ conns[t].reader = "none" /\ conns[t].mate = 0
  BY <1>8, RequesterFacts, SMTT(20)
<1>10. PICK n \in Nat \ {0} : n = Len(conns) + 1
  BY SMTT(20) DEF Typed
<1>11. PICK q \in Conn : q = Local(e, "destination", sid, t) /\ t \in Nat
  <2>1. PICK none \in Seq(Nat \X Nat) : none = <<>>
    BY EmptySequence
  <2>2. t \in Nat
    BY ConnTypes
  <2>3. [end |-> e, role |-> "destination", id |-> sid, mate |-> t, reader |-> "none", writer |-> "none",
         read |-> 0, queue |-> none, got |-> none] \in Conn
    BY <2>2 DEF Conn, Role
  <2>. QED
    BY <2>1, <2>2, <2>3 DEF Local
<1>12. PICK c \in Spawned(n, q) : conns' = [Append(conns, c) EXCEPT ![c.mate].mate = n]
  BY <1>1, <1>2, <1>7, <1>9, <1>10, <1>11
<1>13. /\ c \in Conn /\ c.end = q.end /\ c.role = q.role /\ c.id = q.id /\ c.mate = q.mate
       /\ c.read = q.read /\ c.queue = q.queue /\ c.got = q.got
       /\ (c.reader = "on" /\ c.writer = "on") \/ (c.reader = "off" /\ c.writer = "failed")
  BY SpawnedFacts, SMTT(20)
<1>14. /\ q.end = e /\ q.role = "destination" /\ q.id = sid /\ q.mate = t
       /\ q.read = 0 /\ q.queue = <<>> /\ q.got = <<>>
  BY <1>11 DEF Local
<1>15. Joins(c, t, n)
  BY <1>12, <1>13, <1>14 DEF Joins
<1>16. /\ conns' \in Seq(Conn) /\ n \notin DOMAIN conns /\ DOMAIN conns' = DOMAIN conns \cup {n}
       /\ \A u \in DOMAIN conns : u # t => conns'[u] = conns[u]
       /\ conns'[n] = c /\ conns'[t] = [conns[t] EXCEPT !.mate = n]
  <2>1. c \in Conn /\ n \in Nat
    BY <1>13
  <2>2. Joined(c, t, n)
    BY <1>10, <1>15, <2>1, OpenedConns
  <2>. QED
    BY <2>2 DEF Joined
<1>17. PICK s \in EngineState, g \in Tables : s = state[e] /\ g = s.destinations
  BY StateTypes
<1>18. PICK h \in Tables : Enters(h, g, sid, n)
  <2>1. sid \in Nat /\ n \in Nat
    OBVIOUS
  <2>. QED
    BY <2>1, Entered
<1>19. PICK r : r = [s EXCEPT !.destinations = h]
  OBVIOUS
<1>20. /\ r \in EngineState /\ r.destinations = h /\ r.pending = s.pending /\ r.max = s.max
       /\ r.next_conn_id = s.next_conn_id /\ r.source_sockets = s.source_sockets
       /\ r.source_conn_ids = s.source_conn_ids
  BY <1>19 DEF EngineState
<1>21. state' = [state EXCEPT ![e] = r]
  BY <1>1, <1>2, <1>10, <1>17, <1>18, <1>19 DEF Enters
<1>22. /\ state' \in [Ends -> EngineState] /\ state'[e] = r
       /\ \A d \in Ends : d # e => state'[d] = state[d]
  BY <1>20, <1>21 DEF Typed
<1>23. Typed'
  BY <1>1, <1>6, <1>16, <1>22 DEF Typed
<1>24. /\ conns[t].end = p /\ conns[t].role = "source" /\ conns[t].id # 0
       /\ conns'[t].end = p /\ conns'[t].role = "source" /\ conns'[t].id = conns[t].id /\ conns'[t].mate = n
       /\ conns'[t].reader = "none" /\ conns'[t].writer = conns[t].writer
       /\ conns'[t].read = conns[t].read /\ conns'[t].queue = conns[t].queue /\ conns'[t].got = conns[t].got
  BY <1>9, <1>16, ConnTypes DEF Is, Conn
<1>25. /\ conns'[n].end = e /\ conns'[n].role = "destination" /\ conns'[n].id = sid /\ conns'[n].mate = t
       /\ \/ conns'[n].reader = "on" /\ conns'[n].writer = "on"
          \/ conns'[n].reader = "off" /\ conns'[n].writer = "failed"
       /\ conns'[n].read = 0 /\ conns'[n].queue = <<>> /\ conns'[n].got = <<>>
  BY <1>13, <1>14, <1>16
<1>26. /\ DOMAIN state'[e].destinations = DOMAIN state[e].destinations \cup {sid}
       /\ state'[e].destinations[sid] = n
       /\ \A k \in DOMAIN state[e].destinations : k # sid => state'[e].destinations[k] = state[e].destinations[k]
       /\ \A d \in Ends : /\ d # e => state'[d] = state[d]
                          /\ state'[d].pending = state[d].pending /\ state'[d].max = state[d].max
                          /\ state'[d].next_conn_id = state[d].next_conn_id
                          /\ state'[d].source_sockets = state[d].source_sockets
                          /\ state'[d].source_conn_ids = state[d].source_conn_ids
  BY <1>17, <1>18, <1>20, <1>22 DEF Enters
<1>27. Opens(e, p, t, n, sid)
  BY <1>2, <1>9, <1>16, <1>24, <1>25, <1>26 DEF Opens
<1>. QED
  BY <1>1, <1>4, <1>7, <1>9, <1>23, <1>27, SMTT(20) DEF Serves

\* A new tunnel keeps connections and tables right.
LEMMA OpensTables ==
  ASSUME Typed, Typed', TableInv, NEW e \in Ends, NEW p \in Ends, p # e, Peer(p) = e, Peer(e) = p,
         NEW t \in DOMAIN conns, NEW n \in Nat \ {0}, NEW sid \in Nat \ {0}, Opens(e, p, t, n, sid)
  PROVE  TableInv' /\ Evolves(t)
<1>1. /\ n \notin DOMAIN conns /\ DOMAIN conns' = DOMAIN conns \cup {n} /\ n # t
      /\ \A u \in DOMAIN conns : u # t => conns'[u] = conns[u]
  BY DEF Opens
<1>2. /\ conns[t].end = p /\ conns[t].role = "source" /\ conns[t].id # 0
      /\ conns[t].reader = "none" /\ conns[t].mate = 0
      /\ conns'[t].end = p /\ conns'[t].role = "source" /\ conns'[t].id = conns[t].id /\ conns'[t].mate = n
      /\ conns'[t].reader = "none" /\ conns'[t].writer = conns[t].writer
      /\ conns'[t].read = conns[t].read /\ conns'[t].queue = conns[t].queue /\ conns'[t].got = conns[t].got
  BY DEF Opens
<1>3. /\ conns'[n].end = e /\ conns'[n].role = "destination" /\ conns'[n].id = sid /\ conns'[n].mate = t
      /\ \/ conns'[n].reader = "on" /\ conns'[n].writer = "on"
         \/ conns'[n].reader = "off" /\ conns'[n].writer = "failed"
  BY DEF Opens
<1>4. sid \in SocketIds[e] /\ \A u \in DOMAIN conns : conns[u].end = e => conns[u].id # sid
  BY DEF Opens
<1>5. /\ DOMAIN state'[e].destinations = DOMAIN state[e].destinations \cup {sid}
      /\ state'[e].destinations[sid] = n
      /\ \A k \in DOMAIN state[e].destinations : k # sid => state'[e].destinations[k] = state[e].destinations[k]
  BY DEF Opens
<1>6. \A d \in Ends : /\ d # e => state'[d] = state[d]
                      /\ state'[d].pending = state[d].pending
                      /\ state'[d].next_conn_id = state[d].next_conn_id
                      /\ state'[d].source_sockets = state[d].source_sockets
                      /\ state'[d].source_conn_ids = state[d].source_conn_ids
  BY DEF Opens
<1>7. sid \notin DOMAIN state[e].destinations
  <2>1. SUFFICES ASSUME sid \in DOMAIN state[e].destinations
                 PROVE  FALSE
    OBVIOUS
  <2>2. PICK u : Is(u, e, "destination", sid)
    BY <2>1 DEF TableInv, DestinationInv
  <2>. QED
    BY <1>4, <2>2 DEF Is
<1>8. Evolves(t)
  BY <1>1, <1>2, ConnTypes DEF Evolves
<1>9. NewConnsOK(t)
  <2>1. ConnOK(t)
    BY DEF TableInv, ConnInv
  <2>2. ConnOK(t)'
    BY <1>2, <1>6, <2>1 DEF ConnOK
  <2>3. t # 0 /\ n # 0
    BY ConnTypes
  <2>4. ConnOK(n)'
    BY <1>3, <1>4, <2>3 DEF ConnOK
  <2>5. MateOK(t)'
    BY <1>1, <1>2, <1>3 DEF MateOK
  <2>6. MateOK(n)'
    BY <1>1, <1>2, <1>3 DEF MateOK
  <2>7. Registered(n)' /\ Sending(n)'
    BY <1>3, <1>5 DEF Registered, Sending
  <2>. QED
    BY <1>1, <1>2, <2>2, <2>4, <2>5, <2>6, <2>7 DEF NewConnsOK
<1>10. TablesGrow
  <2>1. \A d \in Ends : state[d].next_conn_id \in Nat
    BY StateTypes
  <2>2. \A d \in Ends : \A k \in DOMAIN state[d].destinations :
           k \in DOMAIN state'[d].destinations /\ state'[d].destinations[k] = state[d].destinations[k]
    BY <1>5, <1>6, <1>7, SMTT(20)
  <2>. QED
    BY <1>6, <2>1, <2>2, SMTT(20) DEF TablesGrow
<1>11. NewDestinationsOK
  <2>1. Is(n, e, "destination", sid)'
    BY <1>1, <1>3 DEF Is
  <2>2. conns'[n].writer \in {"on", "failed"}
    BY <1>3
  <2>. QED
    BY <1>5, <1>6, <2>1, <2>2, SMTT(20) DEF NewDestinationsOK
<1>12. NewSourcesOK /\ NewKnownOK
  BY <1>6 DEF NewSourcesOK, NewKnownOK
<1>13. \A u \in DOMAIN conns : conns'[u].end = conns[u].end /\ conns'[u].role = conns[u].role
                               /\ conns'[u].id = conns[u].id /\ conns'[u].reader = conns[u].reader
  BY <1>1, <1>2
<1>14. IdInv'
  BY <1>1, <1>3, <1>4, <1>13, SMTT(20) DEF TableInv, IdInv
<1>15. \A u, d, role, id : Is(u, d, role, id) => Is(u, d, role, id)'
  BY <1>1, <1>13 DEF Is
<1>16. PendingInv'
  <2>1. ASSUME NEW d \in Ends, NEW k \in DOMAIN state'[d].pending
        PROVE  \E u : /\ u = state'[d].pending[k] /\ Is(u, d, "source", k)' /\ k # 0
                      /\ conns'[u].reader = "none"
    <3>1. PICK u : u = state[d].pending[k] /\ Is(u, d, "source", k) /\ k # 0 /\ conns[u].reader = "none"
      BY <1>6, <2>1, SMTT(20) DEF TableInv, PendingInv
    <3>2. u \in DOMAIN conns
      BY <3>1 DEF Is
    <3>. QED
      BY <1>6, <1>13, <1>15, <3>1, <3>2
  <2>. QED
    BY <2>1, SMTT(20) DEF PendingInv
<1>17. NumberInv'
  BY <1>1, <1>6, <1>15 DEF TableInv, NumberInv
<1>. QED
  BY <1>8, <1>9, <1>10, <1>11, <1>12, <1>14, <1>16, <1>17, EvolveKeeps

\* A request accepted by the destination end keeps the invariants.
LEMMA HandleRequestKeeps ==
  ASSUME Typed, TableInv, AskInv, IdsLeft, NEW e \in Ends, HandleRequest(e)
  PROVE  Typed' /\ TableInv' /\ AskInv'
<1>1. Typed' /\ events' = events /\ Serves(e)
  BY HandleRequestEffect
<1>2. PICK p \in Ends, fd \in Nat, t \in DOMAIN conns, n \in Nat \ {0}, sid \in Nat \ {0},
           i \in Nat \ {0}, f \in PeerFrame :
         /\ Answers(e, p, fd, i, f) /\ f.sid = sid /\ Opens(e, p, t, n, sid)
         /\ t = state[p].pending[fd]
  BY <1>1 DEF Serves
<1>3. p # e /\ Peer(p) = e /\ Peer(e) = p
  BY <1>2 DEF Answers
<1>4. TableInv' /\ Evolves(t)
  BY <1>1, <1>2, <1>3, OpensTables
<1>5. /\ n \notin DOMAIN conns /\ DOMAIN conns' = DOMAIN conns \cup {n}
      /\ \A u \in DOMAIN conns : u # t => conns'[u] = conns[u]
      /\ conns'[t].end = conns[t].end /\ conns'[t].role = conns[t].role /\ conns'[t].id = conns[t].id
      /\ conns'[t].reader = conns[t].reader /\ conns'[t].role = "source" /\ conns'[t].mate = n
      /\ conns'[n].id = sid /\ conns'[n].reader # "none"
      /\ \A d \in Ends : state'[d].pending = state[d].pending
  <2>1. /\ n \notin DOMAIN conns /\ DOMAIN conns' = DOMAIN conns \cup {n}
        /\ \A u \in DOMAIN conns : u # t => conns'[u] = conns[u]
    BY <1>2 DEF Opens
  <2>2. /\ conns'[t].end = conns[t].end /\ conns'[t].role = conns[t].role /\ conns'[t].id = conns[t].id
        /\ conns'[t].reader = conns[t].reader /\ conns'[t].role = "source" /\ conns'[t].mate = n
    <3>1. /\ conns[t].end = p /\ conns[t].role = "source" /\ conns[t].reader = "none"
          /\ conns'[t].end = p /\ conns'[t].role = "source" /\ conns'[t].id = conns[t].id
          /\ conns'[t].mate = n /\ conns'[t].reader = "none"
      BY <1>2 DEF Opens
    <3>. QED
      BY <3>1
  <2>3. conns'[n].id = sid /\ conns'[n].reader # "none"
    BY <1>2 DEF Opens
  <2>4. \A d \in Ends : state'[d].pending = state[d].pending
    BY <1>2 DEF Opens
  <2>. QED
    BY <2>1, <2>2, <2>3, <2>4
<1>6. Mates(t)
  <2>1. \A u \in DOMAIN conns : conns[u].mate # 0 => Sid(u)' = Sid(u)
    BY <1>4, EvolvesFacts DEF TableInv
  <2>. QED
    BY <1>5, <2>1 DEF Mates
<1>7. Tells(f, t)
  BY <1>2, <1>5 DEF Tells, Sid
<1>8. AskInv'
  <2>1. \A d \in Ends : state'[d].pending = state[d].pending
    BY <1>5
  <2>2. i \in Nat
    OBVIOUS
  <2>. QED
    BY <1>1, <1>2, <1>6, <1>7, <2>1, <2>2, AnswerKeepsAsks
<1>. QED
  BY <1>1, <1>4, <1>8

-----------------------------------------------------------------------------
(* Answers. *)

\* The engine of e takes the answer for t, which waited as fd.
Told(e, p, fd, t) ==
    /\ p # e /\ Peer(p) = e /\ Peer(e) = p /\ \A d \in Ends : d = e \/ d = p
    /\ Asks(p, 1, "RESPONSE", fd)
    /\ \A i, x \in Nat : \A h : Asks(p, i, h, x)' <=> i # 0 /\ Asks(p, i + 1, h, x)
    /\ \A i \in DOMAIN link'[p] : link'[p][i] = link[p][i + 1]
    /\ link'[e] = link[e]
    /\ fd \in DOMAIN state[e].pending /\ t = state[e].pending[fd] /\ fd # 0
    /\ Is(t, e, "source", fd) /\ conns[t].reader = "none"

\* It is no longer pending, and done with waiting.
Settles(e, fd, t) ==
    /\ DOMAIN state'[e].pending = DOMAIN state[e].pending \ {fd}
    /\ \A x \in DOMAIN state'[e].pending : state'[e].pending[x] = state[e].pending[x]
    /\ \A d \in Ends : /\ d # e => state'[d] = state[d]
                       /\ state'[d].max = state[d].max /\ state'[d].next_conn_id = state[d].next_conn_id
                       /\ state'[d].destinations = state[d].destinations
    /\ DOMAIN conns' = DOMAIN conns /\ \A u \in DOMAIN conns : u # t => conns'[u] = conns[u]
    /\ conns'[t].end = conns[t].end /\ conns'[t].role = conns[t].role
    /\ conns'[t].id = conns[t].id /\ conns'[t].mate = conns[t].mate /\ conns'[t].read = conns[t].read
    /\ conns'[t].queue = conns[t].queue /\ conns'[t].got = conns[t].got /\ conns'[t].reader # "none"

Denied(e, t) ==
    /\ conns[t].mate = 0 /\ conns'[t].reader = "off" /\ conns'[t].writer = "off"
    /\ \A d \in Ends : /\ state'[d].source_sockets = state[d].source_sockets
                       /\ state'[d].source_conn_ids = state[d].source_conn_ids

Granted(e, fd, t, sid) ==
    /\ conns[t].mate # 0 /\ Sid(t) = sid
    /\ sid \notin DOMAIN state[e].source_sockets /\ fd \notin DOMAIN state[e].source_conn_ids
    /\ \/ conns'[t].reader = "on" /\ conns'[t].writer = "on"
       \/ conns'[t].reader = "off" /\ conns'[t].writer = "failed"
    /\ DOMAIN state'[e].source_sockets = DOMAIN state[e].source_sockets \cup {sid}
    /\ state'[e].source_sockets[sid] = t
    /\ \A k \in DOMAIN state[e].source_sockets : state'[e].source_sockets[k] = state[e].source_sockets[k]
    /\ DOMAIN state'[e].source_conn_ids = DOMAIN state[e].source_conn_ids \cup {fd}
    /\ state'[e].source_conn_ids[fd] = sid
    /\ \A k \in DOMAIN state[e].source_conn_ids : state'[e].source_conn_ids[k] = state[e].source_conn_ids[k]

\* Requests and answers stay right.
LEMMA SettlesAsks ==
  ASSUME Typed, TableInv, AskInv, events' = events, NEW e \in Ends, NEW p \in Ends, NEW fd \in Nat, NEW t,
         Told(e, p, fd, t), Settles(e, fd, t)
  PROVE  AskInv'
<1>1. p # e /\ Peer(p) = e /\ Peer(e) = p /\ \A d \in Ends : d = e \/ d = p
  BY DEF Told
<1>2. /\ Asks(p, 1, "RESPONSE", fd)
      /\ \A i, x \in Nat : \A h : Asks(p, i, h, x)' <=> i # 0 /\ Asks(p, i + 1, h, x)
  BY DEF Told
<1>3. /\ \A i \in DOMAIN link'[p] : link'[p][i] = link[p][i + 1]
      /\ link'[e] = link[e]
  BY DEF Told
<1>4. \A i, x, h : Asks(e, i, h, x)' <=> Asks(e, i, h, x)
  BY <1>3 DEF Asks
<1>5. /\ fd \in DOMAIN state[e].pending /\ t = state[e].pending[fd] /\ fd # 0
      /\ t \in DOMAIN conns /\ conns[t].end = e /\ conns[t].id = fd
  BY DEF Told, Is
<1>6. /\ \A x \in DOMAIN state[e].pending : x # fd =>
            x \in DOMAIN state'[e].pending /\ state'[e].pending[x] = state[e].pending[x]
      /\ state'[p] = state[p]
  BY <1>1 DEF Settles
<1>7. \A u \in DOMAIN conns :
         /\ u \in DOMAIN conns' /\ conns'[u].end = conns[u].end /\ conns'[u].role = conns[u].role
         /\ conns'[u].id = conns[u].id /\ conns'[u].mate = conns[u].mate
         /\ u # t => conns'[u].reader = conns[u].reader
  BY DEF Settles
<1>8. \A u \in DOMAIN conns : conns[u].mate # 0 => Sid(u)' = Sid(u)
  <2>1. ASSUME NEW u \in DOMAIN conns, conns[u].mate # 0
        PROVE  Sid(u)' = Sid(u)
    <3>1. PICK m \in DOMAIN conns : m = conns[u].mate
      BY <2>1 DEF TableInv, MateInv, MateOK
    <3>. QED
      BY <1>7, <3>1 DEF Sid
  <2>. QED
    BY <2>1
<1>9. \A d \in Ends : \A x \in DOMAIN state[d].pending :
         \E u \in DOMAIN conns : u = state[d].pending[x]
  BY DEF TableInv, PendingInv, Is
<1>10. AcceptInv'
  <2>1. \A d, i, u : Arrives(d, i, u)' <=> Arrives(d, i, u)
    BY DEF Arrives
  <2>2. \A u, d : Is(u, d, "source", 0) => Is(u, d, "source", 0)'
    BY <1>7 DEF Is
  <2>. QED
    BY <2>1, <2>2 DEF AskInv, AcceptInv
<1>11. RequestInv'
  <2>1. ASSUME NEW d \in Ends, NEW x \in Nat, NEW i \in Nat, Asks(d, i, "REQUEST", x)'
        PROVE  /\ x \in DOMAIN state'[d].pending /\ conns'[state'[d].pending[x]].mate = 0
               /\ \A j \in Nat : Asks(d, j, "REQUEST", x)' => i = j
               /\ \A j \in Nat : ~(Asks(Peer(d), j, "RESPONSE", x)')
    <3>1. CASE d = p
      <4>1. Asks(p, i + 1, "REQUEST", x) /\ i + 1 \in Nat
        BY <1>2, <2>1, <3>1, SMTT(20)
      <4>2. /\ x \in DOMAIN state[p].pending /\ conns[state[p].pending[x]].mate = 0
            /\ \A j \in Nat : Asks(p, j, "REQUEST", x) => i + 1 = j
            /\ \A j \in Nat : ~Asks(e, j, "RESPONSE", x)
        BY <1>1, <4>1 DEF AskInv, RequestInv
      <4>3. ASSUME NEW j \in Nat, Asks(p, j, "REQUEST", x)'
            PROVE  i = j
        <5>1. j + 1 \in Nat /\ Asks(p, j + 1, "REQUEST", x)
          BY <1>2, <4>3, SMTT(20)
        <5>. QED
          BY <4>2, <5>1, SMTT(20)
      <4>4. conns'[state'[p].pending[x]].mate = 0
        BY <1>6, <1>7, <1>9, <4>2, SMTT(20)
      <4>. QED
        BY <1>1, <1>4, <1>6, <3>1, <4>2, <4>3, <4>4
    <3>2. CASE d = e
      <4>1. Asks(e, i, "REQUEST", x)
        BY <1>4, <2>1, <3>2
      <4>2. /\ x \in DOMAIN state[e].pending /\ conns[state[e].pending[x]].mate = 0
            /\ \A j \in Nat : Asks(e, j, "REQUEST", x) => i = j
            /\ \A j \in Nat : ~Asks(p, j, "RESPONSE", x)
        BY <1>1, <4>1, SMTT(20) DEF AskInv, RequestInv
      <4>3. x # fd
        BY <1>2, <4>2
      <4>4. conns'[state'[e].pending[x]].mate = 0 /\ x \in DOMAIN state'[e].pending
        BY <1>6, <1>7, <1>9, <4>2, <4>3
      <4>5. \A j \in Nat : ~(Asks(p, j, "RESPONSE", x)')
        BY <1>2, <4>2, SMTT(20)
      <4>. QED
        BY <1>1, <1>4, <3>2, <4>2, <4>4, <4>5
    <3>. QED
      BY <1>1, <3>1, <3>2
  <2>. QED
    BY <2>1 DEF RequestInv
<1>12. ResponseInv'
  <2>1. ASSUME NEW d \in Ends, NEW x \in Nat, NEW i \in Nat, Asks(Peer(d), i, "RESPONSE", x)'
        PROVE  \E u, sid :
                  /\ u = state'[d].pending[x] /\ sid = link'[Peer(d)][i].sid
                  /\ x \in DOMAIN state'[d].pending
                  /\ sid = 0 <=> conns'[u].mate = 0
                  /\ sid # 0 => sid = Sid(u)'
                  /\ \A j \in Nat : Asks(Peer(d), j, "RESPONSE", x)' => i = j
    <3>1. CASE d = e
      <4>1. Asks(p, i + 1, "RESPONSE", x) /\ i \in DOMAIN link'[p] /\ i # 0 /\ i + 1 \in Nat
        <5>1. Asks(p, i, "RESPONSE", x)'
          BY <1>1, <2>1, <3>1
        <5>2. i \in DOMAIN link'[p]
          BY <5>1 DEF Asks
        <5>. QED
          BY <1>2, <5>1, <5>2, SMTT(20)
      <4>2. PICK u, sid :
               /\ u = state[e].pending[x] /\ sid = link[p][i + 1].sid
               /\ x \in DOMAIN state[e].pending
               /\ sid = 0 <=> conns[u].mate = 0
               /\ sid # 0 => sid = Sid(u)
               /\ \A j \in Nat : Asks(p, j, "RESPONSE", x) => i + 1 = j
        BY <1>1, <4>1, SMTT(20) DEF AskInv, ResponseInv
      <4>3. x # fd
        BY <1>2, <4>1, <4>2, SMTT(20)
      <4>4. ASSUME NEW j \in Nat, Asks(p, j, "RESPONSE", x)'
            PROVE  i = j
        <5>1. j + 1 \in Nat /\ Asks(p, j + 1, "RESPONSE", x)
          BY <1>2, <4>4, SMTT(20)
        <5>. QED
          BY <4>2, <5>1, SMTT(20)
      <4>5. u \in DOMAIN conns /\ u = state'[e].pending[x] /\ x \in DOMAIN state'[e].pending
        BY <1>6, <1>9, <4>2, <4>3
      <4>. QED
        BY <1>1, <1>3, <1>7, <1>8, <3>1, <4>1, <4>2, <4>4, <4>5, SMTT(20)
    <3>2. CASE d = p
      <4>1. Asks(e, i, "RESPONSE", x)
        BY <1>1, <1>4, <2>1, <3>2
      <4>2. PICK u, sid :
               /\ u = state[p].pending[x] /\ sid = link[e][i].sid
               /\ x \in DOMAIN state[p].pending
               /\ sid = 0 <=> conns[u].mate = 0
               /\ sid # 0 => sid = Sid(u)
               /\ \A j \in Nat : Asks(e, j, "RESPONSE", x) => i = j
        BY <1>1, <4>1, SMTT(20) DEF AskInv, ResponseInv
      <4>3. u \in DOMAIN conns
        BY <1>9, <4>2
      <4>. QED
        BY <1>1, <1>3, <1>4, <1>6, <1>7, <1>8, <3>2, <4>2, <4>3, SMTT(20)
    <3>. QED
      BY <1>1, <3>1, <3>2
  <2>. QED
    BY <2>1, SMTT(20) DEF ResponseInv
<1>13. WaitingInv'
  <2>1. ASSUME NEW u \in DOMAIN conns, conns'[u].mate # 0, conns'[u].reader = "none"
        PROVE  \E i \in Nat : Asks(Peer(conns[u].end), i, "RESPONSE", conns[u].id)'
    <3>1. conns[u].end \in Ends /\ conns[u].id \in Nat
      BY ConnTypes
    <3>2. u # t
      BY <2>1 DEF Settles
    <3>3. PICK i \in Nat : Asks(Peer(conns[u].end), i, "RESPONSE", conns[u].id)
      BY <1>7, <2>1, <3>2 DEF AskInv, WaitingInv
    <3>4. CASE conns[u].end = p
      BY <1>1, <1>4, <1>7, <3>1, <3>3, <3>4
    <3>5. CASE conns[u].end = e
      <4>1. Asks(p, i, "RESPONSE", conns[u].id)
        BY <1>1, <3>3, <3>5
      <4>2. i # 1
        <5>1. ASSUME i = 1
              PROVE  conns[u].id = fd
          BY <1>2, <4>1, <5>1 DEF Asks
        <5>. QED
          BY <1>5, <3>2, <3>5, <5>1 DEF TableInv, IdInv
      <4>3. PICK j \in Nat : j # 0 /\ i = j + 1
        <5>1. i \in DOMAIN link[p]
          BY <4>1 DEF Asks
        <5>. QED
          BY <4>2, <5>1, SMTT(20) DEF Typed
      <4>4. Asks(p, j, "RESPONSE", conns[u].id)'
        BY <1>2, <1>7, <3>1, <4>1, <4>3
      <4>. QED
        BY <1>1, <1>7, <3>5, <4>4, SMTT(20)
    <3>. QED
      BY <1>1, <3>1, <3>4, <3>5
  <2>2. DOMAIN conns' = DOMAIN conns
    BY DEF Settles
  <2>. QED
    BY <1>7, <2>1, <2>2 DEF WaitingInv
<1>. QED
  BY <1>10, <1>11, <1>12, <1>13 DEF AskInv

\* So do connections and tables.
LEMMA SettlesTables ==
  ASSUME Typed, Typed', TableInv, NEW e \in Ends, NEW p \in Ends, NEW fd \in Nat, NEW t, NEW sid,
         Told(e, p, fd, t), Settles(e, fd, t), Denied(e, t) \/ Granted(e, fd, t, sid)
  PROVE  TableInv'
<1>1. /\ fd \in DOMAIN state[e].pending /\ t = state[e].pending[fd] /\ fd # 0
      /\ t \in DOMAIN conns /\ conns[t].end = e /\ conns[t].role = "source" /\ conns[t].id = fd
      /\ conns[t].reader = "none"
  BY DEF Told, Is
<1>2. DOMAIN conns' = DOMAIN conns /\ \A u \in DOMAIN conns : u # t => conns'[u] = conns[u]
  BY DEF Settles
<1>3. /\ conns'[t].end = conns[t].end /\ conns'[t].role = conns[t].role
      /\ conns'[t].id = conns[t].id /\ conns'[t].mate = conns[t].mate /\ conns'[t].read = conns[t].read
      /\ conns'[t].queue = conns[t].queue /\ conns'[t].got = conns[t].got /\ conns'[t].reader # "none"
  BY DEF Settles
<1>4. \A d \in Ends : /\ d # e => state'[d] = state[d]
                      /\ state'[d].next_conn_id = state[d].next_conn_id
                      /\ state'[d].destinations = state[d].destinations
  BY DEF Settles
<1>5. \A u \in DOMAIN conns :
         /\ conns'[u].end = conns[u].end /\ conns'[u].role = conns[u].role
         /\ conns'[u].id = conns[u].id /\ conns'[u].mate = conns[u].mate
  BY <1>2, <1>3
<1>6. \A u, d, role, id : Is(u, d, role, id) => Is(u, d, role, id)'
  BY <1>2, <1>5 DEF Is
<1>7. Evolves(t)
  BY <1>1, <1>2, <1>3 DEF Evolves
<1>8. IdInv'
  BY <1>2, <1>5 DEF TableInv, IdInv
<1>9. NumberInv'
  BY <1>2, <1>4, <1>6 DEF TableInv, NumberInv
<1>10. PendingInv'
  <2>1. ASSUME NEW d \in Ends, NEW k \in DOMAIN state'[d].pending
        PROVE  \E u : /\ u = state'[d].pending[k] /\ Is(u, d, "source", k)' /\ k # 0
                      /\ conns'[u].reader = "none"
    <3>1. k \in DOMAIN state[d].pending /\ state'[d].pending[k] = state[d].pending[k] /\ (d = e => k # fd)
      BY <1>4, <2>1, SMTT(20) DEF Settles
    <3>2. PICK u : u = state[d].pending[k] /\ Is(u, d, "source", k) /\ k # 0 /\ conns[u].reader = "none"
      BY <3>1 DEF TableInv, PendingInv
    <3>3. u \in DOMAIN conns /\ conns[u].end = d /\ conns[u].id = k
      BY <3>2 DEF Is
    <3>4. u # t
      BY <1>1, <3>1, <3>3
    <3>. QED
      BY <1>2, <1>6, <3>1, <3>2, <3>3, <3>4
  <2>. QED
    BY <2>1, SMTT(20) DEF PendingInv
<1>11. ConnOK(t) /\ MateOK(t)
  BY <1>1 DEF TableInv, ConnInv, MateInv
<1>15. /\ conns'[t].read = 0 /\ conns'[t].queue = <<>> /\ conns'[t].got = <<>>
       /\ conns'[t].id < state'[conns'[t].end].next_conn_id
  <2>1. conns[t].read = 0 /\ conns[t].queue = <<>> /\ conns[t].got = <<>>
    BY <1>1, <1>11 DEF ConnOK
  <2>2. conns[t].id < state[e].next_conn_id
    BY <1>1, <1>11 DEF ConnOK
  <2>. QED
    BY <1>1, <1>3, <1>4, <2>1, <2>2, SMTT(20)
<1>12. NewDestinationsOK
  BY <1>4 DEF NewDestinationsOK
<1>13. CASE Denied(e, t)
  <2>1. /\ conns[t].mate = 0 /\ conns'[t].reader = "off" /\ conns'[t].writer = "off"
        /\ \A d \in Ends : /\ state'[d].source_sockets = state[d].source_sockets
                           /\ state'[d].source_conn_ids = state[d].source_conn_ids
    BY <1>13 DEF Denied
  <2>2. ConnOK(t)'
    BY <1>1, <1>3, <1>15, <2>1 DEF ConnOK
  <2>3. NewConnsOK(t)
    BY <1>2, <1>3, <2>1, <2>2 DEF NewConnsOK, MateOK
  <2>4. TablesGrow /\ NewSourcesOK /\ NewKnownOK
    <3>1. \A d \in Ends : state[d].next_conn_id \in Nat
      BY StateTypes
    <3>. QED
      BY <1>4, <2>1, <3>1, SMTT(20) DEF TablesGrow, NewSourcesOK, NewKnownOK
  <2>. QED
    BY <1>7, <1>8, <1>9, <1>10, <1>12, <2>3, <2>4, EvolveKeeps
<1>14. CASE Granted(e, fd, t, sid)
  <2>1. /\ conns[t].mate # 0 /\ Sid(t) = sid
        /\ sid \notin DOMAIN state[e].source_sockets /\ fd \notin DOMAIN state[e].source_conn_ids
        /\ \/ conns'[t].reader = "on" /\ conns'[t].writer = "on"
           \/ conns'[t].reader = "off" /\ conns'[t].writer = "failed"
    BY <1>14 DEF Granted
  <2>2. /\ DOMAIN state'[e].source_sockets = DOMAIN state[e].source_sockets \cup {sid}
        /\ state'[e].source_sockets[sid] = t
        /\ \A k \in DOMAIN state[e].source_sockets : state'[e].source_sockets[k] = state[e].source_sockets[k]
    BY <1>14 DEF Granted
  <2>3. /\ DOMAIN state'[e].source_conn_ids = DOMAIN state[e].source_conn_ids \cup {fd}
        /\ state'[e].source_conn_ids[fd] = sid
        /\ \A k \in DOMAIN state[e].source_conn_ids : state'[e].source_conn_ids[k] = state[e].source_conn_ids[k]
    BY <1>14 DEF Granted
  <2>4. Sid(t)' = sid
    BY <1>1, <1>7, <2>1, EvolvesFacts DEF TableInv
  <2>5. ConnOK(t)'
    BY <1>1, <1>3, <1>15, <2>1 DEF ConnOK
  <2>6. MateOK(t)'
    <3>1. PICK m \in DOMAIN conns : /\ m = conns[t].mate /\ conns[m].mate = t /\ conns[m].end = Peer(e)
                                    /\ conns[m].role # "source"
      BY <1>1, <1>11, <2>1 DEF MateOK
    <3>2. /\ m \in DOMAIN conns' /\ conns'[m].mate = t /\ conns'[m].end = Peer(e)
          /\ conns'[m].role # "source"
      BY <1>2, <1>5, <3>1
    <3>3. conns'[t].mate = m /\ conns'[t].end = e /\ conns'[t].role = "source" /\ conns'[t].id # 0
      BY <1>1, <1>3, <3>1
    <3>. QED
      BY <3>2, <3>3 DEF MateOK
  <2>7. Registered(t)' /\ Sending(t)'
    <3>1. conns'[t].role # "destination" /\ conns'[t].end = e /\ conns'[t].id = fd /\ conns'[t].mate # 0
      BY <1>1, <1>3, <2>1
    <3>2. sid \in DOMAIN state'[e].source_sockets /\ fd \in DOMAIN state'[e].source_conn_ids
      BY <2>2, <2>3
    <3>. QED
      BY <2>4, <3>1, <3>2 DEF Registered, Sending
  <2>8. NewConnsOK(t)
    BY <1>2, <2>5, <2>6, <2>7 DEF NewConnsOK
  <2>9. TablesGrow
    <3>1. \A d \in Ends : state[d].next_conn_id \in Nat
      BY StateTypes
    <3>. QED
      BY <1>4, <2>2, <2>3, <3>1, SMTT(20) DEF TablesGrow
  <2>10. Is(t, e, "source", fd)' /\ conns'[t].id = fd /\ Is(t, e, "source", conns[t].id)'
    BY <1>1, <1>2, <1>3 DEF Is
  <2>11. NewSourcesOK
    <3>1. ASSUME NEW d \in Ends, NEW k \in DOMAIN state'[d].source_sockets,
                 k \notin DOMAIN state[d].source_sockets
          PROVE  \E u : NewSource(d, k, u)
      <4>1. d = e /\ k = sid
        BY <1>4, <2>2, <3>1
      <4>2. NewSource(e, sid, t)
        BY <1>3, <2>1, <2>2, <2>3, <2>4, <2>10 DEF NewSource
      <4>. QED
        BY <4>1, <4>2
    <3>. QED
      BY <3>1 DEF NewSourcesOK
  <2>12. NewKnownOK
    <3>1. ASSUME NEW d \in Ends, NEW k \in DOMAIN state'[d].source_conn_ids,
                 k \notin DOMAIN state[d].source_conn_ids
          PROVE  \E u \in DOMAIN conns' : /\ Is(u, d, "source", k)' /\ conns'[u].mate # 0
                                          /\ conns'[u].reader # "none"
                                          /\ state'[d].source_conn_ids[k] = Sid(u)'
      <4>1. d = e /\ k = fd
        BY <1>4, <2>3, <3>1
      <4>2. t \in DOMAIN conns' /\ conns'[t].mate # 0 /\ conns'[t].reader # "none"
        BY <1>1, <1>2, <1>3, <2>1
      <4>3. state'[e].source_conn_ids[fd] = Sid(t)'
        BY <2>3, <2>4
      <4>. QED
        BY <2>10, <4>1, <4>2, <4>3
    <3>. QED
      BY <3>1 DEF NewKnownOK
  <2>. QED
    BY <1>7, <1>8, <1>9, <1>10, <1>12, <2>8, <2>9, <2>11, <2>12, EvolveKeeps
<1>. QED
  BY <1>13, <1>14

\* The state of e and the connection t are replaced.
Replaces(e, r, t, c) == state' = [state EXCEPT ![e] = r] /\ conns' = [conns EXCEPT ![t] = c]

\* One engine's tables and one connection are replaced.
LEMMA ReplacesFacts ==
  ASSUME Typed, NEW e \in Ends, NEW t \in DOMAIN conns, NEW r \in EngineState, NEW c \in Conn,
         Replaces(e, r, t, c)
  PROVE  /\ state' \in [Ends -> EngineState] /\ state'[e] = r /\ \A d \in Ends : d # e => state'[d] = state[d]
         /\ conns' \in Seq(Conn) /\ DOMAIN conns' = DOMAIN conns /\ conns'[t] = c
         /\ \A u \in DOMAIN conns : u # t => conns'[u] = conns[u]
<1>1. state' = [state EXCEPT ![e] = r] /\ conns' = [conns EXCEPT ![t] = c]
  BY DEF Replaces
<1>2. /\ conns' \in Seq(Conn) /\ DOMAIN conns' = DOMAIN conns /\ conns'[t] = c
      /\ \A u \in DOMAIN conns : u # t => conns'[u] = conns[u]
  BY <1>1, Replaced
<1>3. /\ state' \in [Ends -> EngineState] /\ state'[e] = r /\ \A d \in Ends : d # e => state'[d] = state[d]
  BY <1>1 DEF Typed
<1>. QED
  BY <1>2, <1>3

\* An answer that registers or refuses a source settles its request.
LEMMA Settled ==
  ASSUME Typed, NEW e \in Ends, NEW t \in DOMAIN conns, NEW fd, NEW r \in EngineState, NEW c \in Conn,
         Replaces(e, r, t, c),
         r.pending = Remove(state[e].pending, fd), r.max = state[e].max,
         r.next_conn_id = state[e].next_conn_id, r.destinations = state[e].destinations,
         c.end = conns[t].end, c.role = conns[t].role, c.id = conns[t].id, c.mate = conns[t].mate,
         c.read = conns[t].read, c.queue = conns[t].queue, c.got = conns[t].got, c.reader # "none"
  PROVE  Settles(e, fd, t)
<1>1. /\ state'[e] = r /\ \A d \in Ends : d # e => state'[d] = state[d]
      /\ DOMAIN conns' = DOMAIN conns /\ conns'[t] = c
      /\ \A u \in DOMAIN conns : u # t => conns'[u] = conns[u]
  BY ReplacesFacts, SMTT(20)
<1>2. PICK g \in Tables : g = state[e].pending
  BY StateTypes
<1>3. DOMAIN Remove(g, fd) = DOMAIN g \ {fd} /\ \A x \in DOMAIN g \ {fd} : Remove(g, fd)[x] = g[x]
  BY Removed
<1>4. /\ DOMAIN state'[e].pending = DOMAIN state[e].pending \ {fd}
      /\ \A x \in DOMAIN state'[e].pending : state'[e].pending[x] = state[e].pending[x]
  BY <1>1, <1>2, <1>3, SMTT(20)
<1>. QED
  BY <1>1, <1>4 DEF Settles

\* What an answer does.
LEMMA HandleResponseEffect ==
  ASSUME Typed, TableInv, AskInv, NEW e \in Ends, HandleResponse(e)
  PROVE  /\ Typed' /\ events' = events
         /\ \E p \in Ends, fd \in Nat, t \in DOMAIN conns, sid \in Nat :
               Told(e, p, fd, t) /\ Settles(e, fd, t) /\ (Denied(e, t) \/ Granted(e, fd, t, sid))
<1>1. /\ Incoming(e, {"RESPONSE"}) /\ Answer(e, <<>>) /\ events' = events
  BY DEF HandleResponse
<1>2. /\ link' \in [Ends -> Seq(PeerFrame)] /\ link'[e] = link[e]
      /\ Shifts(link[Peer(e)], link'[Peer(e)], 1)
      /\ \A i \in DOMAIN link'[Peer(e)] : i + 1 \in DOMAIN link[Peer(e)]
      /\ 1 \in DOMAIN link[Peer(e)] /\ Frame(e) = link[Peer(e)][1]
  <2>1. link[Peer(e)] # <<>>
    BY <1>1 DEF Incoming
  <2>. QED
    BY <1>1, <2>1, TakenFrame
<1>3. PICK p \in Ends : p = Peer(e) /\ p # e /\ Peer(p) = e /\ \A d \in Ends : d = e \/ d = p
  BY PeerFacts
<1>4. PICK fd \in Nat : /\ fd = Frame(e).id /\ Asks(p, 1, "RESPONSE", fd)
                        /\ \A i, x \in Nat : \A h : Asks(p, i, h, x)' <=> i # 0 /\ Asks(p, i + 1, h, x)
                        /\ \A i \in DOMAIN link'[p] : link'[p][i] = link[p][i + 1]
  BY <1>1, <1>2, <1>3, TakenAsks, SMTT(20)
<1>5. Frame(e) = link[p][1]
  BY <1>2, <1>3
<1>6. PICK t, sid :
         /\ sid = Frame(e).sid /\ t = state[e].pending[fd]
         /\ fd \in DOMAIN state[e].pending
         /\ sid = 0 <=> conns[t].mate = 0
         /\ sid # 0 => sid = Sid(t)
  <2>1. Asks(Peer(e), 1, "RESPONSE", fd) /\ 1 \in Nat
    BY <1>3, <1>4
  <2>. QED
    BY <1>3, <1>5, <2>1, SMTT(20) DEF AskInv, ResponseInv
<1>7. Is(t, e, "source", fd) /\ fd # 0 /\ conns[t].reader = "none"
  BY <1>6 DEF TableInv, PendingInv
<1>8. Told(e, p, fd, t)
  BY <1>2, <1>3, <1>4, <1>6, <1>7 DEF Told
<1>9. /\ t \in DOMAIN conns /\ conns[t].end = e /\ conns[t].role = "source" /\ conns[t].id = fd
      /\ conns[t] \in Conn /\ t \in Nat
  BY <1>7, ConnTypes DEF Is
<1>10. PendingFor(e) = fd
  BY <1>4, <1>6 DEF PendingFor
<1>11. sid \in Nat
  <2>1. Frame(e) \in PeerFrame
    BY <1>1, <1>2, TakenAsks
  <2>. QED
    BY <1>6, <2>1 DEF PeerFrame
<1>12. PICK s \in EngineState, g \in Tables : s = state[e] /\ g = Remove(s.pending, fd)
  <2>1. Remove(state[e].pending, fd) \in Tables
    BY StateTypes, Removed
  <2>. QED
    BY <2>1, StateTypes
<1>13. PICK k \in Conn : k = conns[t]
  BY <1>9
<1>14. CASE sid = 0
  <2>1. /\ state' = [state EXCEPT ![e].pending = g]
        /\ conns' = [conns EXCEPT ![t].reader = "off", ![t].writer = "off"]
    BY <1>6, <1>7, <1>10, <1>12, <1>14 DEF HandleResponse
  <2>9. PICK r : r = [s EXCEPT !.pending = g]
    OBVIOUS
  <2>2. /\ r \in EngineState /\ r.pending = g /\ r.max = s.max /\ r.next_conn_id = s.next_conn_id
        /\ r.destinations = s.destinations /\ r.source_sockets = s.source_sockets
        /\ r.source_conn_ids = s.source_conn_ids
    BY <2>9 DEF EngineState
  <2>10. PICK c : c = [k EXCEPT !.reader = "off", !.writer = "off"]
    OBVIOUS
  <2>3. /\ c \in Conn /\ c.end = k.end /\ c.role = k.role /\ c.id = k.id /\ c.mate = k.mate
        /\ c.read = k.read /\ c.queue = k.queue /\ c.got = k.got
        /\ c.reader = "off" /\ c.writer = "off"
    BY <2>10 DEF Conn
  <2>4. Replaces(e, r, t, c)
    <3>1. state' = [state EXCEPT ![e] = r]
      BY <1>12, <2>1, <2>9
    <3>2. conns' = [conns EXCEPT ![t] = c]
      BY <1>13, <2>1, <2>10
    <3>. QED
      BY <3>1, <3>2 DEF Replaces
  <2>5. Settles(e, fd, t)
    <3>1. /\ r.pending = Remove(state[e].pending, fd) /\ r.max = state[e].max
          /\ r.next_conn_id = state[e].next_conn_id /\ r.destinations = state[e].destinations
      BY <1>12, <2>2
    <3>2. /\ c.end = conns[t].end /\ c.role = conns[t].role /\ c.id = conns[t].id /\ c.mate = conns[t].mate
          /\ c.read = conns[t].read /\ c.queue = conns[t].queue /\ c.got = conns[t].got /\ c.reader # "none"
      BY <1>13, <2>3
    <3>3. t \in DOMAIN conns /\ r \in EngineState /\ c \in Conn
      BY <1>9, <2>2, <2>3
    <3>. QED
      BY <2>4, <3>1, <3>2, <3>3, Settled
  <2>6. /\ state' \in [Ends -> EngineState] /\ state'[e] = r /\ \A d \in Ends : d # e => state'[d] = state[d]
        /\ conns' \in Seq(Conn) /\ conns'[t] = c
    BY <1>9, <2>2, <2>3, <2>4, ReplacesFacts, SMTT(20)
  <2>7. Denied(e, t)
    BY <1>6, <1>12, <1>14, <2>2, <2>3, <2>6 DEF Denied
  <2>8. Typed'
    BY <1>1, <1>2, <2>6 DEF Typed
  <2>. QED
    BY <1>1, <1>8, <1>9, <1>11, <2>5, <2>7, <2>8
<1>15. CASE sid # 0
  <2>1. conns[t].mate # 0 /\ Sid(t) = sid
    BY <1>6, <1>15
  <2>2. sid \notin DOMAIN state[e].source_sockets
    <3>1. SUFFICES ASSUME sid \in DOMAIN state[e].source_sockets
                   PROVE  FALSE
      OBVIOUS
    <3>2. PICK u : /\ Is(u, e, "source", conns[u].id) /\ conns[u].mate # 0 /\ Sid(u) = sid
                   /\ conns[u].writer \in {"on", "failed"}
      BY <3>1 DEF TableInv, SourceInv
    <3>3. u \in DOMAIN conns /\ conns[u].end = e /\ conns[u].role = "source"
      BY <3>2 DEF Is
    <3>4. u = t
      BY <1>9, <2>1, <3>2, <3>3, SidUnique DEF TableInv
    <3>5. conns[t].writer = "none"
      BY <1>7, <1>9 DEF TableInv, ConnInv, ConnOK
    <3>. QED
      BY <3>2, <3>4, <3>5
  <2>3. fd \notin DOMAIN state[e].source_conn_ids
    <3>1. SUFFICES ASSUME fd \in DOMAIN state[e].source_conn_ids
                   PROVE  FALSE
      OBVIOUS
    <3>2. PICK u \in DOMAIN conns : Is(u, e, "source", fd) /\ conns[u].reader # "none"
      BY <3>1 DEF TableInv, KnownInv
    <3>3. conns[u].end = e /\ conns[u].id = fd
      BY <3>2 DEF Is
    <3>4. u = t
      BY <1>7, <1>9, <3>3 DEF TableInv, IdInv
    <3>. QED
      BY <1>7, <3>2, <3>4
  <2>4. PICK ss \in Tables, h \in Tables : ss = s.source_sockets /\ Enters(h, ss, sid, t)
    <3>1. PICK ss \in Tables : ss = s.source_sockets
      BY <1>12, StateTypes
    <3>2. \E h \in Tables : Enters(h, ss, sid, t)
      BY <1>9, <1>11, Entered
    <3>. QED
      BY <3>1, <3>2
  <2>5. PICK ci \in Tables, j \in Tables : ci = s.source_conn_ids /\ Enters(j, ci, fd, sid)
    <3>1. PICK ci \in Tables : ci = s.source_conn_ids
      BY <1>12, StateTypes
    <3>2. \E j \in Tables : Enters(j, ci, fd, sid)
      BY <1>9, <1>11, Entered
    <3>. QED
      BY <3>1, <3>2
  <2>6. TeardownIn(state[e].source_sockets, sid) = conns
    BY <2>2 DEF TeardownIn
  <2>7. h = Insert(s.source_sockets, sid, t) /\ j = Insert(s.source_conn_ids, fd, sid)
    BY <2>4, <2>5 DEF Enters
  <2>8. /\ state' = [state EXCEPT ![e].pending = g, ![e].source_sockets = h, ![e].source_conn_ids = j]
        /\ \E c \in Spawned(t, conns[t]) : conns' = [conns EXCEPT ![t] = c]
    BY <1>6, <1>7, <1>10, <1>12, <1>15, <2>6, <2>7 DEF HandleResponse
  <2>9. PICK c \in Spawned(t, k) : conns' = [conns EXCEPT ![t] = c]
    BY <1>13, <2>8
  <2>10. /\ c \in Conn /\ c.end = k.end /\ c.role = k.role /\ c.id = k.id /\ c.mate = k.mate
         /\ c.read = k.read /\ c.queue = k.queue /\ c.got = k.got
         /\ \/ c.reader = "on" /\ c.writer = "on"
            \/ c.reader = "off" /\ c.writer = "failed"
    BY SpawnedFacts
  <2>11. PICK r : r = [s EXCEPT !.pending = g, !.source_sockets = h, !.source_conn_ids = j]
    OBVIOUS
  <2>12. /\ r \in EngineState /\ r.pending = g /\ r.max = s.max /\ r.next_conn_id = s.next_conn_id
         /\ r.destinations = s.destinations /\ r.source_sockets = h /\ r.source_conn_ids = j
    BY <2>11 DEF EngineState
  <2>13. Replaces(e, r, t, c)
    <3>1. state' = [state EXCEPT ![e] = r]
      BY <1>12, <2>8, <2>11
    <3>. QED
      BY <2>9, <3>1 DEF Replaces
  <2>14. Settles(e, fd, t)
    <3>1. /\ r.pending = Remove(state[e].pending, fd) /\ r.max = state[e].max
          /\ r.next_conn_id = state[e].next_conn_id /\ r.destinations = state[e].destinations
      BY <1>12, <2>12
    <3>2. /\ c.end = conns[t].end /\ c.role = conns[t].role /\ c.id = conns[t].id /\ c.mate = conns[t].mate
          /\ c.read = conns[t].read /\ c.queue = conns[t].queue /\ c.got = conns[t].got /\ c.reader # "none"
      BY <1>13, <2>10
    <3>3. t \in DOMAIN conns /\ r \in EngineState /\ c \in Conn
      BY <1>9, <2>10, <2>12
    <3>. QED
      BY <2>13, <3>1, <3>2, <3>3, Settled
  <2>15. /\ state' \in [Ends -> EngineState] /\ state'[e] = r
         /\ conns' \in Seq(Conn) /\ conns'[t] = c
    BY <1>9, <2>10, <2>12, <2>13, ReplacesFacts, SMTT(20)
  <2>16. /\ DOMAIN state'[e].source_sockets = DOMAIN state[e].source_sockets \cup {sid}
         /\ state'[e].source_sockets[sid] = t
         /\ \A x \in DOMAIN state[e].source_sockets : state'[e].source_sockets[x] = state[e].source_sockets[x]
    BY <1>12, <2>2, <2>4, <2>12, <2>15 DEF Enters
  <2>17. /\ DOMAIN state'[e].source_conn_ids = DOMAIN state[e].source_conn_ids \cup {fd}
         /\ state'[e].source_conn_ids[fd] = sid
         /\ \A x \in DOMAIN state[e].source_conn_ids : state'[e].source_conn_ids[x] = state[e].source_conn_ids[x]
    BY <1>12, <2>3, <2>5, <2>12, <2>15 DEF Enters
  <2>18. Granted(e, fd, t, sid)
    BY <2>1, <2>2, <2>3, <2>10, <2>15, <2>16, <2>17 DEF Granted
  <2>19. Typed'
    BY <1>1, <1>2, <2>15 DEF Typed
  <2>. QED
    BY <1>1, <1>8, <1>9, <1>11, <2>14, <2>18, <2>19
<1>. QED
  BY <1>14, <1>15

\* The answer to a request keeps the invariants.
LEMMA HandleResponseKeeps ==
  ASSUME Typed, TableInv, AskInv, NEW e \in Ends, HandleResponse(e)
  PROVE  Typed' /\ TableInv' /\ AskInv'
<1>1. /\ Typed' /\ events' = events
      /\ \E p \in Ends, fd \in Nat, t \in DOMAIN conns, sid \in Nat :
               Told(e, p, fd, t) /\ Settles(e, fd, t) /\ (Denied(e, t) \/ Granted(e, fd, t, sid))
  BY HandleResponseEffect
<1>2. PICK p \in Ends, fd \in Nat, t \in DOMAIN conns, sid \in Nat :
         Told(e, p, fd, t) /\ Settles(e, fd, t) /\ (Denied(e, t) \/ Granted(e, fd, t, sid))
  BY <1>1
<1>. QED
  BY <1>1, <1>2, SettlesTables, SettlesAsks

=============================================================================
