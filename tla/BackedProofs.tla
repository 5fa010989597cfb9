--------------------------- MODULE BackedProofs ----------------------------
(***************************************************************************)
(* What each end of Backed guarantees, and both together, for any payload  *)
(* sizes, queue depths, budgets and numbers of packets and sockets.  The   *)
(* client and its supervisor stay in agreement.  An actor keeps its backup *)
(* without a socket, bounds its disconnect ledger and says nothing after   *)
(* its last event.  No packet ever fails to decrypt, packets are delivered *)
(* exactly once and in order across every reconnect, the client is woken   *)
(* once for each lost socket, and the pair of actors implements the link.  *)
(***************************************************************************)
EXTENDS BackedSteps, BackedLink

\* Most leaves are first-order; those that need more cite SMT.
USE ZenonT(20)

-----------------------------------------------------------------------------
(* The client and its supervisor: a loss is announced once, after          *)
(* everything received was delivered, and a socket is offered only then.   *)

\* A step of one end leaves the other end's actor, owner and queues alone.
LEMMA OtherEnd ==
    ASSUME TypeOK, NEW p \in Peers, ActorStep(p) \/ Consume(p), NEW q \in Peers, q # p
    PROVE  /\ actor'[q] = actor[q] /\ events'[q] = events[q]
           /\ owner'[q] = owner[q] /\ offers'[q] = offers[q]
  <1>e. ASSUME NEW b, actor' = [actor EXCEPT ![p] = b] PROVE actor'[q] = actor[q]
    BY <1>e DEF TypeOK
  <1>w. ASSUME NEW a, NEW hdr, NEW size, WriteFrom(p, a, hdr, size) PROVE actor'[q] = actor[q]
    <2>1. \E b : actor' = [actor EXCEPT ![p] = b]
      <3>1. CASE ~Fits(a, size)
        BY <1>w, <3>1 DEF WriteFrom
      <3>2. CASE Fits(a, size)
        <4>1. PICK k \in 0 .. Len(a.backup) + 1 :
                 LET b == [Stored(a) EXCEPT !.backup = DropOldest(@, k)]
                 IN  \/ actor' = [actor EXCEPT ![p] = Resume(p, Charged(b, size + Overhead))]
                     \/ actor' = [actor EXCEPT ![p] = Resume(p, b)]
                     \/ actor' = [actor EXCEPT ![p] =
                           Resume(p, CloseCurrentSocket(Charged(b, size + Overhead)))]
          BY <1>w, <3>2 DEF WriteFrom
        <4> QED BY <4>1
      <3> QED BY <3>1, <3>2
    <2> QED BY <1>e, <2>1
  <1>r. ASSUME NEW ok, Reply(p, ok) PROVE owner'[q] = owner[q]
    BY <1>r DEF Reply, TypeOK
  <1>d. ASSUME NEW e, SendDead(p, e) PROVE events'[q] = events[q]
    BY <1>d DEF SendDead, TypeOK
  <1>1. CASE Write(p) \/ Echo(p) \/ KeepalivePing(p)
    BY <1>1, <1>w, SMTT(30) DEF Write, Echo, KeepalivePing
  <1>2. CASE ReadFrame(p) \/ ReadError(p) \/ IdleTick(p) \/ KeepaliveExpire(p) \/ KillSocket(p)
    BY <1>2, <1>e DEF ReadFrame, ReadError, IdleTick, KeepaliveExpire, KillSocket
  <1>3. CASE SendEvent(p)
    BY <1>3 DEF SendEvent, TypeOK
  <1>4. CASE RecoverStart(p)
    BY <1>4 DEF RecoverStart, TypeOK
  <1>5. CASE RecoverSequence(p)
    BY <1>5, ZenonT(60) DEF RecoverSequence, TypeOK
  <1>6. CASE RecoverDone(p)
    BY <1>6, <1>e, <1>r DEF RecoverDone
  <1>7. CASE RecoverFail(p)
    BY <1>7, <1>e, <1>r DEF RecoverFail
  <1>8. CASE Shutdown(p)
    BY <1>8 DEF Shutdown, TypeOK
  <1>9. CASE DieCryptoMismatch(p)
    BY <1>9, <1>d DEF DieCryptoMismatch, TypeOK
  <1>10. CASE Finish(p)
    <2>1. events'[q] = events[q]
      BY <1>10, <1>d DEF Finish
    <2> QED BY <1>10, <1>r, <2>1 DEF Finish, TypeOK
  <1>11. CASE Consume(p)
    BY <1>11 DEF Consume, TypeOK
  <1> QED BY <1>1, <1>2, <1>3, <1>4, <1>5, <1>6, <1>7, <1>8, <1>9, <1>10, <1>11 DEF ActorStep

\* What deliver_inbox, and the end of a handler, do with a loss.
LEMMA DeliverLoss ==
    ASSUME NEW p \in Peers, NEW a \in BackedActor
    PROVE  LET b == DeliverInbox(p, a)
           IN  /\ b.live = a.live /\ SameExchange(a, b)
               /\ b.socket_down_pending = a.socket_down_pending
               /\ b.pc # "sockdown"
               /\ a.inbox = <<>> => b.inbox = <<>> /\ b.pc = "select"
  <1>1. CASE a.inbox = <<>>
    BY <1>1 DEF DeliverInbox, SameExchange, BackedActor
  <1>2. CASE a.inbox # <<>> /\ Head(a.inbox) # a.reader_crypto + 1
    BY <1>2 DEF DeliverInbox, SameExchange, BackedActor
  <1>3. CASE a.inbox # <<>> /\ Head(a.inbox) = a.reader_crypto + 1
    BY <1>3 DEF DeliverInbox, SameExchange, BackedActor
  <1> QED BY <1>1, <1>2, <1>3

ResumedLoss(a, b) ==
    /\ b.live = a.live /\ SameExchange(a, b)
    /\ a.pc # "select" => b = a
    /\ a.pc = "select" => ~b.socket_down_pending
    /\ a.pc = "select" /\ a.socket_down_pending => b.pc = "sockdown" /\ b.inbox = a.inbox
    /\ a.pc = "select" /\ ~a.socket_down_pending =>
          b.pc # "sockdown" /\ (a.inbox = <<>> => b.inbox = <<>> /\ b.pc = "select")

\* Going on with the run loop turns a noted loss into the next event.
LEMMA ResumeLoss ==
    ASSUME NEW p \in Peers, NEW a \in BackedActor
    PROVE  ResumedLoss(a, Resume(p, a))
  <1>1. CASE a.pc # "select"
    BY <1>1 DEF Resume, ResumedLoss, SameExchange
  <1>2. CASE a.pc = "select" /\ a.socket_down_pending
    <2>1. PICK b : b = [a EXCEPT !.socket_down_pending = FALSE, !.pc = "sockdown"]
      OBVIOUS
    <2>2. b.live = a.live /\ SameExchange(a, b) /\ ~b.socket_down_pending /\ b.pc = "sockdown"
          /\ b.inbox = a.inbox
      BY <2>1 DEF BackedActor, SameExchange
    <2>3. Resume(p, a) = b
      BY <1>2, <2>1 DEF Resume
    <2> QED BY <1>2, <2>2, <2>3 DEF ResumedLoss
  <1>3. CASE a.pc = "select" /\ ~a.socket_down_pending
    <2>1. PICK b : b = DeliverInbox(p, a)
      OBVIOUS
    <2>2. /\ b.live = a.live /\ SameExchange(a, b)
          /\ b.socket_down_pending = a.socket_down_pending
          /\ b.pc # "sockdown"
          /\ a.inbox = <<>> => b.inbox = <<>> /\ b.pc = "select"
      BY <2>1, DeliverLoss
    <2>3. Resume(p, a) = b
      BY <1>3, <2>1 DEF Resume
    <2> QED BY <1>3, <2>2, <2>3 DEF ResumedLoss
  <1> QED BY <1>1, <1>2, <1>3

\* What a handler may do to the socket before the run loop goes on: nothing, or
\* let go of it; or it reads a frame off it.
Handled(a, c) ==
    /\ c \in BackedActor
    /\ c.pc = a.pc /\ c.stage = "none" /\ c.old = None
    /\ \/ /\ c.live = a.live /\ c.socket_down_pending = a.socket_down_pending
          /\ c.inbox = a.inbox \/ a.live # None
       \/ /\ c.live = None /\ c.inbox = a.inbox
          /\ c.socket_down_pending => a.socket_down_pending \/ a.live # None

\* A handler followed by the run loop treats a loss as it should.
LEMMA LossHandled ==
    ASSUME NEW a, NEW c, NEW b, NEW told, LossOK(a, told),
           a.pc \in Running, a.pc = "select" => a.inbox = <<>>,
           Handled(a, c), ResumedLoss(c, b)
    PROVE  LossOK(b, told)
  <1>0. c.socket_down_pending \in BOOLEAN
    BY DEF Handled, BackedActor
  <1>1. b.live = c.live /\ b.old = None
    BY DEF Handled, ResumedLoss, SameExchange
  <1>2. CASE told
    <2>1. /\ a.live = None /\ a.inbox = <<>> /\ ~a.socket_down_pending /\ a.pc = "select"
      BY <1>2 DEF LossOK, Running
    <2>2. c.live = None /\ c.inbox = <<>> /\ ~c.socket_down_pending /\ c.pc = "select"
      BY <2>1 DEF Handled
    <2>3. b.inbox = <<>> /\ ~b.socket_down_pending /\ b.pc = "select"
      BY <2>2 DEF ResumedLoss
    <2> QED BY <1>1, <2>2, <2>3 DEF LossOK
  <1>3. CASE ~told /\ a.pc = "select"
    <2>1. CASE c.socket_down_pending
      <3>1. c.live = None /\ c.inbox = <<>>
        BY <1>3, <2>1 DEF Handled, LossOK
      <3> QED BY <1>1, <1>3, <2>1, <3>1 DEF LossOK, ResumedLoss, Handled
    <2>2. CASE ~c.socket_down_pending
      BY <1>1, <1>3, <2>2 DEF LossOK, ResumedLoss, Handled
    <2> QED BY <2>1, <2>2
  <1>4. CASE ~told /\ a.pc # "select"
    <2>1. b = c
      BY <1>4 DEF ResumedLoss, Handled
    <2> QED BY <1>1, <1>4, <2>1 DEF LossOK, Handled
  <1> QED BY <1>2, <1>3, <1>4

\* With the client's queues unchanged the supervisor is where it was.
LEMMA SupervisorKeeps ==
    ASSUME SupervisorInv, events'[Client] = events[Client], owner'[Client] = owner[Client],
           offers'[Client] = offers[Client],
           actor'[Client].stage # "none" => actor[Client].stage # "none"
    PROVE  SupervisorInv' /\ (Told' <=> Told)
  <1>1. \A i \in Nat : Announced(i)' <=> Announced(i)
    BY DEF Announced
  <1>2. Told' <=> Told
    BY <1>1 DEF Told
  <1> QED BY <1>1, <1>2 DEF SupervisorInv

\* A handler of the client agrees with the supervisor.
LEMMA ClientHandles ==
    ASSUME TypeOK, LinkInv, ClientInv, Serving(Client),
           NEW c, Handled(actor[Client], c),
           actor' = [actor EXCEPT ![Client] = Resume(Client, c)],
           UNCHANGED <<events, owner, offers>>
    PROVE  ClientInv'
  <1> DEFINE a == actor[Client]
             b == actor'[Client]
  <1>0. Client \in Peers /\ a.pc \in Running
    BY DEF Peers, Serving, Running
  <1>1. c \in BackedActor /\ Resume(Client, c) \in BackedActor
    BY <1>0, ResumeType DEF Handled
  <1>2. b = Resume(Client, c)
    BY <1>0, <1>1, Moves
  <1>3. ResumedLoss(c, b)
    BY <1>0, <1>1, <1>2, ResumeLoss
  <1>4. a.pc = "select" => a.inbox = <<>>
    BY <1>0 DEF LinkInv, ReaderInv
  <1>5. b.stage = "none"
    BY <1>3 DEF ResumedLoss, Handled, SameExchange
  <1>6. SupervisorInv' /\ (Told' <=> Told)
    BY <1>5, SupervisorKeeps DEF ClientInv
  <1> HIDE DEF a, b
  <1>7. LossOK(b, Told)
    <2>1. LossOK(a, Told) /\ Handled(a, c)
      BY DEF ClientInv, a
    <2> QED BY <1>0, <1>3, <1>4, <2>1, LossHandled
  <1>8. LossOK(actor'[Client], Told')
    BY <1>6, <1>7 DEF LossOK, b
  <1> QED BY <1>6, <1>8 DEF ClientInv

\* write() is such a handler.
LEMMA ClientWrites ==
    ASSUME TypeOK, LinkInv, ClientInv, Serving(Client), NEW a \in BackedActor,
           SameReader(actor[Client], a), SameExchange(actor[Client], a),
           a.live = actor[Client].live,
           a.socket_down_pending = actor[Client].socket_down_pending,
           NEW hdr, NEW size \in Sizes \cup {0}, WriteFrom(Client, a, hdr, size),
           UNCHANGED <<events, owner, offers>>
    PROVE  ClientInv'
  <1>0. /\ Client \in Peers /\ actor[Client].stage = "none" /\ actor[Client].old = None
        /\ a.stage = "none" /\ a.old = None
    BY DEF Peers, Serving, LinkInv, StageInv, SameExchange
  <1>1. CASE actor' = [actor EXCEPT ![Client] = Resume(Client, a)]
    <2>1. Handled(actor[Client], a)
      BY <1>0 DEF Handled, SameReader
    <2> QED BY <1>1, <2>1, ClientHandles
  <1>2. CASE \E c : Accepted(Client, a, c)
    <2>1. PICK c : Accepted(Client, a, c)
      BY <1>2
    <2>2. c \in BackedActor /\ c.stage = "none" /\ c.old = None /\ c.inbox = a.inbox /\ c.pc = a.pc
      BY <1>0, <2>1 DEF Accepted, SameReader, SameExchange
    <2>3. \/ c.live = a.live /\ c.socket_down_pending = a.socket_down_pending
          \/ a.live # None /\ c.live = None
      BY <2>1 DEF Accepted
    <2>4. Handled(actor[Client], c)
      BY <2>2, <2>3 DEF Handled, SameReader
    <2>5. actor' = [actor EXCEPT ![Client] = Resume(Client, c)]
      BY <2>1 DEF Accepted
    <2> QED BY <2>4, <2>5, ClientHandles
  <1> QED BY <1>0, <1>1, <1>2, WriteEffect DEF Wrote

\* The event the client's actor was parked on goes out.
LEMMA ClientSends ==
    ASSUME TypeOK, LinkInv, ClientInv, SendEvent(Client)
    PROVE  ClientInv'
  <1> DEFINE a == actor[Client]
             b == actor'[Client]
             n == Len(events[Client])
  <1>0. Client \in Peers /\ a \in BackedActor /\ n \in Nat /\ events[Client] \in Seq(Event)
    BY SeqLen DEF Peers, TypeOK
  <1>1. b = DeliverInbox(Client, a)
    BY <1>0, DeliverType, Moves DEF SendEvent
  <1>2. /\ b.live = a.live /\ SameExchange(a, b)
        /\ b.socket_down_pending = a.socket_down_pending
        /\ b.pc # "sockdown"
        /\ a.inbox = <<>> => b.inbox = <<>> /\ b.pc = "select"
    BY <1>0, <1>1, DeliverLoss
  <1>3. a.stage = "none" /\ a.old = None /\ b.stage = "none" /\ b.old = None
    BY <1>0, <1>2 DEF SendEvent, LinkInv, StageInv, SameExchange
  <1>4. ~Told
    BY DEF SendEvent, ClientInv, LossOK
  <1>5. owner'[Client] = owner[Client] /\ offers'[Client] = offers[Client]
    BY DEF SendEvent
  <1>6. ASSUME NEW e \in {"Packet", "SocketDown"}, events'[Client] = Append(events[Client], e)
        PROVE  \A i \in Nat : Announced(i)' => e = "SocketDown" /\ i = n + 1
    <2>1. /\ Len(events'[Client]) = n + 1
          /\ \A i \in 1 .. n : events'[Client][i] = events[Client][i]
          /\ events'[Client][n + 1] = e
      <3>1. events[Client] \in Seq(Event) /\ e \in Event
        BY <1>0, <1>6 DEF Event
      <3>2. PICK f : f = Append(events[Client], e)
        OBVIOUS
      <3>3. /\ Len(f) = n + 1 /\ f[n + 1] = e
            /\ \A i \in 1 .. n : f[i] = events[Client][i]
        BY <3>1, <3>2, SeqAppend, SMTT(20)
      <3> QED BY <1>6, <3>2, <3>3
    <2>2. \A i \in 1 .. n : ~(events[Client][i] = "SocketDown")
      <3> TAKE i \in 1 .. n
      <3>1. i \in Nat
        BY <1>0, SMTT(20)
      <3>2. ~Announced(i)
        BY <1>4, <3>1 DEF Told
      <3> QED BY <3>2 DEF Announced
    <2> HIDE DEF n
    <2>3. ASSUME NEW i \in Nat, Announced(i)' PROVE e = "SocketDown" /\ i = n + 1
      <3>1. i \in 1 .. n + 1 /\ events'[Client][i] = "SocketDown"
        BY <2>1, <2>3 DEF Announced
      <3>2. i \notin 1 .. n
        BY <2>1, <2>2, <3>1
      <3>3. i = n + 1
        BY <1>0, <3>1, <3>2, SMTT(20)
      <3> QED BY <2>1, <3>1, <3>3
    <2> QED BY <2>3
  <1>7. CASE a.pc = "deliver"
    <2>1. events'[Client] = Append(events[Client], "Packet")
      BY <1>0, <1>7 DEF SendEvent, TypeOK
    <2>2. \A i \in Nat : ~Announced(i)'
      BY <1>6, <2>1
    <2>3. ~Told'
      BY <1>4, <1>5, <2>2 DEF Told
    <2>4. SupervisorInv'
      BY <1>3, <1>5, <2>2 DEF ClientInv, SupervisorInv
    <2>5. LossOK(b, FALSE)
      BY <1>2, <1>3, <1>7 DEF ClientInv, LossOK
    <2> QED BY <2>3, <2>4, <2>5 DEF ClientInv, LossOK
  <1>8. CASE a.pc = "sockdown"
    <2>1. events'[Client] = Append(events[Client], "SocketDown")
      BY <1>0, <1>8 DEF SendEvent, TypeOK
    <2>2. \A i \in Nat : Announced(i)' => i = n + 1
      BY <1>6, <2>1
    <2>3. owner'[Client] \notin {"reconnect", "await"}
      BY <1>4, <1>5 DEF Told
    <2>4. SupervisorInv'
      BY <1>3, <1>5, <2>2, <2>3 DEF ClientInv, SupervisorInv
    <2>5. LossOK(b, TRUE)
      BY <1>2, <1>3, <1>8 DEF ClientInv, LossOK
    <2> QED BY <2>4, <2>5 DEF ClientInv, LossOK
  <1> QED BY <1>7, <1>8 DEF SendEvent

\* The steps of the client's exchange.
LEMMA ClientRecovers ==
    ASSUME TypeOK, LinkInv, ClientInv,
           \/ RecoverStart(Client) \/ RecoverSequence(Client)
           \/ RecoverDone(Client) \/ RecoverFail(Client)
    PROVE  ClientInv'
  <1> DEFINE a == actor[Client]
             b == actor'[Client]
  <1>0. Client \in Peers /\ a \in BackedActor
    BY SMTT(30) DEF Peers, TypeOK
  <1>1. offers[Client] # <<>> \/ a.stage # "none"
    BY DEF RecoverStart, RecoverSequence, RecoverDone, RecoverFail
  <1>2. owner[Client] = "await" /\ Told /\ \A i \in Nat : ~Announced(i)
    BY <1>1 DEF ClientInv, SupervisorInv, Told
  <1>3. a.live = None /\ a.old = None /\ a.inbox = <<>> /\ ~a.socket_down_pending
    BY <1>2 DEF ClientInv, LossOK
  <1>4. a.pc = "select"
    BY <1>0, <1>2, ZenonT(60)
       DEF ClientInv, LossOK, LinkInv, StageInv, Serving,
           RecoverStart, RecoverSequence, RecoverDone, RecoverFail
  <1>5. events' = events
    BY DEF RecoverStart, RecoverSequence, RecoverDone, RecoverFail
  <1>6. \A i \in Nat : ~Announced(i)'
    BY <1>2, <1>5 DEF Announced
  <1>7. CASE RecoverStart(Client)
    <2>1. PICK t \in Sockets : t = Head(offers[Client])
      BY <1>0, <1>7, SeqHead DEF RecoverStart, TypeOK
    <2>2. PICK c : c = [a EXCEPT !.stage = "seq", !.stream = t, !.old = a.live, !.live = None]
      BY SMTT(30)
    <2>3. /\ c \in BackedActor /\ SameReader(a, c)
          /\ c.socket_down_pending = a.socket_down_pending /\ c.old = a.live /\ c.live = None
      BY <1>0, <2>2, StartFacts
    <2>4. actor' = [actor EXCEPT ![Client] = c]
      BY <1>0, <1>7, <2>1, <2>2 DEF RecoverStart, TypeOK
    <2>5. b = c
      BY <1>0, <2>3, <2>4, Moves
    <2>6. owner' = owner
      BY <1>7 DEF RecoverStart
    <2>7. offers'[Client] = <<>>
      <3>1. /\ offers[Client] \in Seq(Sockets) /\ offers[Client] # <<>>
            /\ Len(offers[Client]) <= 1 /\ offers'[Client] = Tail(offers[Client])
        BY <1>0, <1>7 DEF RecoverStart, TypeOK, ClientInv, SupervisorInv
      <3>2. Len(offers[Client]) \in Nat \ {0}
        BY <3>1, SeqLen
      <3>3. \A n \in Nat \ {0} : n <= 1 => n = 1
        BY SMTT(20)
      <3>4. Len(offers[Client]) = 1
        BY <3>1, <3>2, <3>3
      <3> QED BY <3>1, <3>4, OneTail, SMTT(30)
    <2>8. LossOK(b, TRUE)
      BY <1>3, <1>4, <2>3, <2>5 DEF LossOK, SameReader
    <2>9. SupervisorInv'
      BY <1>2, <1>6, <2>6, <2>7, SMTT(20) DEF SupervisorInv
    <2> QED BY <2>8, <2>9 DEF ClientInv, LossOK
  <1>8. CASE RecoverSequence(Client)
    <2>1. PICK c : c = [a EXCEPT !.stage = "catchup"]
      OBVIOUS
    <2>2. /\ c \in BackedActor /\ SameReader(a, c)
          /\ c.socket_down_pending = a.socket_down_pending /\ c.old = a.old /\ c.live = a.live
      BY <1>0, <2>1, SequenceFacts
    <2>3. actor' = [actor EXCEPT ![Client] = c] /\ UNCHANGED <<owner, offers>>
      BY <1>0, <1>8, <2>1 DEF RecoverSequence, TypeOK
    <2>4. b = c
      BY <1>0, <2>2, <2>3, Moves
    <2>5. LossOK(b, TRUE)
      BY <1>3, <1>4, <2>2, <2>4 DEF LossOK, SameReader
    <2>6. SupervisorInv'
      BY <1>2, <1>6, <1>8, <2>3 DEF SupervisorInv, ClientInv, RecoverSequence
    <2> QED BY <2>5, <2>6 DEF ClientInv, LossOK
  <1>9. CASE RecoverDone(Client)
    <2> DEFINE t == a.stream
               in == pipe[t][Client].catchup
               i == a.inbox \o Head(in)
    <2>1. t \in Sockets
      BY <1>0, <1>9, Types DEF RecoverDone, LinkInv, StageInv
    <2>2. i \in Seq(Nat)
      <3>1. in \in Seq(Seq(Nat)) /\ in # <<>> /\ a.inbox \in Seq(Nat)
        BY <1>0, <1>9, <2>1, Types DEF RecoverDone
      <3>2. Head(in) \in Seq(Nat)
        BY <3>1, SeqHead
      <3> QED BY <3>1, <3>2, SeqConcat, SMTT(30)
    <2>3. PICK c : c = [a EXCEPT !.inbox = i, !.disconnected_bytes = NoLedger, !.live = a.stream,
                                 !.stage = "none", !.stream = None, !.old = None]
      BY SMTT(30)
    <2>4. actor' = [actor EXCEPT ![Client] = Resume(Client, c)] /\ UNCHANGED offers
      BY <1>9, <2>3, ZenonT(60) DEF RecoverDone
    <2> HIDE DEF i
    <2>5. /\ c \in BackedActor /\ c.pc = a.pc /\ c.stage = "none"
          /\ c.socket_down_pending = a.socket_down_pending
      BY <1>0, <2>2, <2>3, DoneFacts
    <2>6. Resume(Client, c) \in BackedActor /\ ResumedLoss(c, Resume(Client, c))
      BY <1>0, <2>5, ResumeType, ResumeLoss
    <2>7. b = Resume(Client, c)
      BY <1>0, <2>4, <2>6, Moves, ZenonT(60)
    <2>8. b.stage = "none" /\ ~b.socket_down_pending /\ b.pc # "sockdown"
      BY <1>3, <1>4, <2>5, <2>6, <2>7 DEF ResumedLoss, SameExchange
    <2>9. owner'[Client] = "run"
      BY <1>0, <1>2, <1>9 DEF RecoverDone, Reply, TypeOK
    <2>10. offers'[Client] = <<>>
      BY <1>9, <2>4 DEF RecoverDone, ClientInv, SupervisorInv
    <2>11. ~Told'
      BY <1>6, <2>9 DEF Told
    <2>12. SupervisorInv'
      BY <1>6, <2>8, <2>9, <2>10, SMTT(30) DEF SupervisorInv
    <2> QED BY <2>8, <2>11, <2>12 DEF ClientInv, LossOK
  <1>10. CASE RecoverFail(Client)
    <2>1. PICK c : c = [a EXCEPT !.live = a.old, !.stage = "none", !.stream = None, !.old = None]
      BY SMTT(30)
    <2>2. /\ c \in BackedActor /\ SameReader(a, c)
          /\ c.socket_down_pending = a.socket_down_pending
          /\ c.stage = "none" /\ c.old = None /\ c.live = a.old
      BY <1>0, <2>1, FailFacts
    <2>3. actor' = [actor EXCEPT ![Client] = Resume(Client, c)] /\ UNCHANGED offers
      BY <1>10, <2>1 DEF RecoverFail
    <2>4. Resume(Client, c) \in BackedActor /\ ResumedLoss(c, Resume(Client, c))
      BY <1>0, <2>2, ResumeType, ResumeLoss
    <2>5. b = Resume(Client, c)
      BY <1>0, <2>3, <2>4, Moves
    <2>6. /\ b.stage = "none" /\ b.live = None /\ b.old = None
          /\ ~b.socket_down_pending /\ b.pc = "select" /\ b.inbox = <<>>
      <3>1. c.pc = "select" /\ c.inbox = <<>> /\ ~c.socket_down_pending /\ c.live = None
        BY <1>3, <1>4, <2>2 DEF SameReader
      <3> QED BY <2>2, <2>4, <2>5, <3>1 DEF ResumedLoss, SameExchange
    <2>7. owner'[Client] = "reconnect"
      <3>1. Reply(Client, FALSE)
        BY <1>10 DEF RecoverFail
      <3>2. Client \in DOMAIN owner
        BY <1>0 DEF TypeOK
      <3> QED BY <1>2, <3>1, <3>2, SMTT(30) DEF Reply
    <2>8. offers'[Client] = <<>>
      <3>1. a.stage # "none"
        BY <1>10 DEF RecoverFail
      <3> QED BY <2>3, <3>1 DEF ClientInv, SupervisorInv
    <2>9. SupervisorInv'
      BY <1>6, <2>6, <2>7, <2>8, SMTT(20) DEF SupervisorInv
    <2> QED BY <2>6, <2>9 DEF ClientInv, LossOK
  <1> QED BY <1>7, <1>8, <1>9, <1>10

\* The supervisor takes an event.
LEMMA ClientConsumes ==
    ASSUME TypeOK, ClientInv, Consume(Client)
    PROVE  ClientInv'
  <1> DEFINE in == events[Client]
  <1>0. Client \in Peers /\ in \in Seq(Event) /\ in # <<>>
    BY DEF Peers, TypeOK, Consume
  <1>1. /\ events'[Client] = Tail(in) /\ Head(in) \in Event /\ Head(in) = in[1]
        /\ Len(in) \in Nat \ {0}
        /\ Len(Tail(in)) = Len(in) - 1
        /\ \A i \in 1 .. Len(Tail(in)) : Tail(in)[i] = in[i + 1]
    <2>1. events'[Client] = Tail(in)
      BY <1>0 DEF Consume, TypeOK
    <2>2. /\ Head(in) \in Event /\ Len(in) \in Nat \ {0} /\ Len(Tail(in)) = Len(in) - 1
          /\ \A i \in 1 .. Len(Tail(in)) : Tail(in)[i] = in[i + 1]
      BY <1>0, SeqHead, SeqLen
    <2>3. Head(in) = in[1]
      BY <1>0, SMTT(20)
    <2> QED BY <2>1, <2>2, <2>3
  <1>2. ASSUME NEW i \in Nat, Announced(i)'
        PROVE  i + 1 \in Nat /\ Announced(i + 1) /\ i # 0
    <2>1. i \in 1 .. Len(Tail(in)) /\ Tail(in)[i] = "SocketDown"
      BY <1>1, <1>2 DEF Announced
    <2>2. i + 1 \in 1 .. Len(in) /\ in[i + 1] = "SocketDown"
      BY <1>1, <2>1, SMTT(20)
    <2> QED BY <2>1, <2>2, SMTT(20) DEF Announced
  <1>3. /\ owner[Client] = "run" /\ UNCHANGED <<actor, offers>>
        /\ offers[Client] = <<>> /\ actor[Client].stage = "none"
    BY DEF Consume, ClientInv, SupervisorInv
  <1>4. \A i, j \in Nat : Announced(i)' /\ Announced(j)' => i = j
    <2>1. ASSUME NEW i \in Nat, NEW j \in Nat, Announced(i)', Announced(j)' PROVE i = j
      <3>1. i + 1 = j + 1
        BY <1>2, <2>1 DEF ClientInv, SupervisorInv
      <3> QED BY <3>1, SMTT(20)
    <2> QED BY <2>1
  <1>5. CASE Head(in) = "SocketDown"
    <2>1. owner'[Client] = "reconnect"
      BY <1>0, <1>5 DEF Consume, TypeOK
    <2>2. Announced(1)
      BY <1>1, <1>5, SMTT(20) DEF Announced
    <2>3. \A i \in Nat : ~Announced(i)'
      BY <1>2, <2>2, SMTT(20) DEF ClientInv, SupervisorInv
    <2>4. Told
      BY <2>2 DEF Told
    <2>5. SupervisorInv'
      BY <1>3, <2>1, <2>3 DEF SupervisorInv, ClientInv
    <2> QED BY <1>3, <2>4, <2>5 DEF ClientInv, LossOK
  <1>6. CASE Head(in) # "SocketDown"
    <2>1. owner'[Client] \in {"ended", "run"}
      BY <1>0, <1>1, <1>3, <1>6 DEF Consume, TypeOK, Event
    <2>2. Told' => Told
      BY <1>2, <2>1 DEF Told
    <2>3. SupervisorInv'
      BY <1>3, <1>4, <2>1 DEF SupervisorInv, ClientInv
    <2> QED BY <1>3, <2>2, <2>3 DEF ClientInv, LossOK
  <1> QED BY <1>5, <1>6

\* The client's actor ends.
LEMMA ClientStops ==
    ASSUME TypeOK, LinkInv, ClientInv, Shutdown(Client) \/ Finish(Client)
    PROVE  ClientInv'
  <1> DEFINE a == actor[Client]
             b == actor'[Client]
             n == Len(events[Client])
  <1>0. Client \in Peers /\ a \in BackedActor /\ n \in Nat /\ events[Client] \in Seq(Event)
    BY SeqLen DEF Peers, TypeOK
  <1>1. a.stage = "none" /\ a.old = None
    BY <1>0 DEF Shutdown, Finish, Serving, LinkInv, StageInv
  <1>2. CASE Shutdown(Client)
    <2>1. PICK c : c = [a EXCEPT !.pc = "final", !.live = None]
      OBVIOUS
    <2>2. /\ c.pc = "final" /\ c.live = None /\ c.inbox = a.inbox /\ c.stage = a.stage
          /\ c.old = a.old /\ c.socket_down_pending = a.socket_down_pending
      BY <1>0, <2>1 DEF BackedActor
    <2>3. b = c /\ UNCHANGED <<events, owner, offers>>
      BY <1>0, <1>2, <2>1 DEF Shutdown, TypeOK
    <2>4. SupervisorInv' /\ (Told' <=> Told)
      BY <1>1, <2>2, <2>3, SupervisorKeeps DEF ClientInv
    <2>5. LossOK(b, Told)
      BY <1>1, <2>2, <2>3 DEF ClientInv, LossOK
    <2> QED BY <2>4, <2>5 DEF ClientInv, LossOK
  <1>3. CASE Finish(Client)
    <2>1. PICK c : c = [a EXCEPT !.pc = "stopped"]
      OBVIOUS
    <2>2. /\ c.pc = "stopped" /\ c.live = a.live /\ c.inbox = a.inbox /\ c.stage = a.stage
          /\ c.old = a.old /\ c.socket_down_pending = a.socket_down_pending
      BY <1>0, <2>1 DEF BackedActor
    <2>3. b = c /\ offers'[Client] = <<>>
      BY <1>0, <1>3, <2>1 DEF Finish, TypeOK
    <2>4. \/ owner'[Client] = owner[Client]
          \/ owner[Client] = "await" /\ owner'[Client] = "reconnect"
      BY <1>0, <1>3 DEF Finish, Reply, TypeOK
    <2>5. \A i \in Nat : Announced(i)' => Announced(i)
      <3>1. CASE events' = events
        BY <3>1 DEF Announced
      <3>2. CASE events'[Client] = Append(events[Client], "DeadShutdown")
        <4>1. /\ Len(events'[Client]) = n + 1
              /\ \A i \in 1 .. n : events'[Client][i] = events[Client][i]
              /\ events'[Client][n + 1] = "DeadShutdown"
          BY <1>0, <3>2, SeqAppend, SMTT(20) DEF Event
        <4> HIDE DEF n
        <4>2. ASSUME NEW i \in Nat, Announced(i)' PROVE i \in 1 .. n /\ events'[Client][i] = "SocketDown"
          <5>1. i \in 1 .. n + 1 /\ events'[Client][i] = "SocketDown"
            BY <4>1, <4>2 DEF Announced
          <5>2. i # n + 1
            BY <4>1, <5>1
          <5> QED BY <1>0, <5>1, <5>2, SMTT(20)
        <4> QED BY <4>1, <4>2 DEF Announced, n
      <3> QED BY <1>0, <1>3, <3>1, <3>2 DEF Finish, SendDead, TypeOK
    <2>6. Told' => Told
      BY <2>4, <2>5 DEF Told
    <2>7. SupervisorInv'
      BY <1>1, <2>2, <2>3, <2>4, <2>5, SMTT(30) DEF SupervisorInv, ClientInv
    <2>8. LossOK(b, Told)
      BY <2>2, <2>3 DEF ClientInv, LossOK
    <2> QED BY <2>6, <2>7, <2>8 DEF ClientInv, LossOK
  <1> QED BY <1>2, <1>3

\* Every step keeps the client and its supervisor in agreement.
LEMMA NextClient ==
    ASSUME IInv, [Next]_vars
    PROVE  ClientInv'
  <1>i. TypeOK /\ LinkInv /\ ClientInv /\ Client \in Peers
    BY DEF IInv, Peers
  <1> DEFINE a == actor[Client]
  <1>a. a \in BackedActor
    BY <1>i DEF TypeOK
  <1>s. Selecting(Client) => Serving(Client)
    BY DEF Selecting, Serving
  <1>o. Serving(Client) => a.stage = "none" /\ a.old = None
    BY <1>i DEF Serving, LinkInv, StageInv
  <1>c. ASSUME Serving(Client),
               actor' = [actor EXCEPT ![Client] = Resume(Client, CloseCurrentSocket(@))],
               UNCHANGED <<events, owner, offers>>
        PROVE  ClientInv'
    <2>1. PICK c : c = CloseCurrentSocket(a)
      OBVIOUS
    <2>2. /\ c \in BackedActor /\ SameReader(a, c) /\ SameExchange(a, c) /\ c.live = None
          /\ c.socket_down_pending => a.socket_down_pending \/ a.live # None
      <3>1. c.socket_down_pending = (a.socket_down_pending \/ a.live # None)
        BY <1>a, <2>1 DEF CloseCurrentSocket, BackedActor
      <3> QED BY <1>a, <2>1, <3>1, CloseType, CloseFacts
    <2>3. Handled(a, c)
      BY <1>c, <1>o, <2>2 DEF Handled, SameReader, SameExchange
    <2>4. actor' = [actor EXCEPT ![Client] = Resume(Client, c)]
      BY <1>c, <2>1
    <2> QED BY <1>c, <1>i, <2>3, <2>4, ClientHandles
  <1>k. ASSUME actor'[Client] = a, events'[Client] = events[Client],
               owner'[Client] = owner[Client], offers'[Client] = offers[Client]
        PROVE  ClientInv'
    <2>1. SupervisorInv' /\ (Told' <=> Told)
      BY <1>i, <1>k, SupervisorKeeps DEF ClientInv
    <2> QED BY <1>i, <1>k, <2>1 DEF ClientInv, LossOK
  <1>1. ASSUME NEW p \in Peers, p # Client, ActorStep(p) \/ Consume(p) PROVE ClientInv'
    BY <1>1, <1>i, <1>k, OtherEnd
  <1>2. CASE Write(Client) \/ Echo(Client)
    <2>1. PICK hdr \in {KEEP_ALIVE, DATA}, size \in Sizes \cup {0} : WriteFrom(Client, a, hdr, size)
      BY <1>2 DEF Write, Echo
    <2>2. Serving(Client) /\ UNCHANGED <<events, owner, offers>>
      BY <1>2 DEF Write, Echo
    <2>3. SameReader(a, a) /\ SameExchange(a, a)
      BY DEF SameReader, SameExchange
    <2> QED BY <1>a, <1>i, <2>1, <2>2, <2>3, ClientWrites, SMTT(30)
  <1>3. CASE KeepalivePing(Client)
    <2>1. PICK c : c = [a EXCEPT !.waiting_on_keepalive = TRUE]
      OBVIOUS
    <2>2. /\ c \in BackedActor /\ SameReader(a, c) /\ SameExchange(a, c) /\ c.live = a.live
          /\ c.socket_down_pending = a.socket_down_pending
      BY <1>a, <2>1, PingFacts DEF BackedActor
    <2>3. WriteFrom(Client, c, KEEP_ALIVE, 0) /\ UNCHANGED <<events, owner, offers>> /\ Serving(Client)
      BY <1>3, <1>s, <2>1 DEF KeepalivePing
    <2> QED BY <1>i, <2>2, <2>3, ClientWrites
  <1>4. CASE ReadError(Client)
    BY <1>4, <1>c, <1>s DEF ReadError
  <1>5. CASE KeepaliveExpire(Client)
    BY <1>5, <1>c, <1>s DEF KeepaliveExpire
  <1>6. CASE KillSocket(Client)
    BY <1>6, <1>c DEF KillSocket
  <1>7. CASE IdleTick(Client)
    <2>1. Serving(Client)
      BY <1>7, <1>s DEF IdleTick
    <2>2. Handled(a, a)
      BY <1>a, <1>o, <2>1 DEF Handled
    <2> QED BY <1>7, <1>i, <2>1, <2>2, ClientHandles DEF IdleTick
  <1>8. CASE ReadFrame(Client)
    <2> DEFINE in == pipe[a.live][Client].frames
               i == Append(a.inbox, Head(in))
    <2>1. Serving(Client) /\ a.live # None /\ in # <<>> /\ UNCHANGED <<events, owner, offers>>
      BY <1>8, <1>s DEF ReadFrame
    <2>2. i \in Seq(Nat)
      <3>1. a.live \in Sockets
        BY <1>a, <2>1 DEF BackedActor
      <3>2. in \in Seq(Nat) /\ a.inbox \in Seq(Nat)
        BY <1>i, <3>1, Types, SMTT(30)
      <3>3. Head(in) \in Nat
        BY <2>1, <3>2, SeqHead
      <3> QED BY <3>2, <3>3, SeqAppend
    <2>3. PICK c : c = [a EXCEPT !.inbox = i]
      OBVIOUS
    <2>4. actor' = [actor EXCEPT ![Client] = Resume(Client, c)]
      BY <1>8, <2>3 DEF ReadFrame
    <2> HIDE DEF i
    <2>5. /\ c \in BackedActor /\ c.pc = a.pc /\ c.stage = a.stage /\ c.old = a.old
          /\ c.live = a.live /\ c.socket_down_pending = a.socket_down_pending
      BY <1>a, <2>2, <2>3 DEF BackedActor
    <2>6. Handled(a, c)
      BY <1>o, <2>1, <2>5 DEF Handled
    <2> QED BY <1>i, <2>1, <2>4, <2>6, ClientHandles
  <1>9. CASE SendEvent(Client)
    BY <1>9, <1>i, ClientSends
  <1>10. CASE \/ RecoverStart(Client) \/ RecoverSequence(Client)
              \/ RecoverDone(Client) \/ RecoverFail(Client)
    BY <1>10, <1>i, ClientRecovers
  <1>11. CASE Shutdown(Client) \/ Finish(Client)
    BY <1>11, <1>i, ClientStops
  <1>12. CASE DieCryptoMismatch(Client)
    BY <1>12, <1>i DEF DieCryptoMismatch, LinkInv, ReaderInv, InStep
  <1>13. CASE Consume(Client)
    BY <1>13, <1>i, ClientConsumes, SMTT(30)
  <1>14. CASE Connect
    <2>1. /\ owner[Client] = "reconnect" /\ owner'[Client] = "await"
          /\ actor' = actor /\ events' = events
          /\ offers'[Client] = Append(offers[Client], opened + 1)
      BY <1>14, <1>i DEF Connect, TypeOK
    <2>2. offers[Client] = <<>> /\ a.stage = "none" /\ Told
      BY <1>i, <2>1 DEF ClientInv, SupervisorInv, Told
    <2>3. Len(offers'[Client]) <= 1
      BY <2>1, <2>2, SMTT(20)
    <2>4. \A i \in Nat : ~Announced(i)'
      BY <1>i, <2>1 DEF ClientInv, SupervisorInv, Announced
    <2>5. SupervisorInv'
      BY <2>1, <2>2, <2>3, <2>4 DEF SupervisorInv
    <2> QED BY <1>i, <2>1, <2>2, <2>5 DEF ClientInv, LossOK
  <1>15. ASSUME NEW s \in Sockets, Cut(s) PROVE ClientInv'
    BY <1>15, <1>k DEF Cut
  <1>16. CASE UNCHANGED vars
    BY <1>16, <1>k DEF vars
  <1> QED BY <1>1, <1>2, <1>3, <1>4, <1>5, <1>6, <1>7, <1>8, <1>9, <1>10, <1>11, <1>12,
             <1>13, <1>14, <1>15, <1>16 DEF Next, ActorStep

-----------------------------------------------------------------------------
(* What every handler does to the socket, the ledger and the backup. *)

\* The handler keeps the socket it found, or its absence.
Kept(a, c) ==
    /\ c.live = a.live /\ c.disconnected_bytes = a.disconnected_bytes
    /\ c.socket_down_pending = a.socket_down_pending
    /\ SameExchange(a, c)
    /\ a.live = None => c.backup = a.backup

\* BUFFERED_ONLY: a packet joins the backup and is charged to the ledger.
Buffered(a, c) ==
    /\ a.live = None /\ c.live = None
    /\ c.socket_down_pending = a.socket_down_pending
    /\ SameExchange(a, c)
    /\ \E size \in Sizes \cup {0} :
          /\ Fits(a, size)
          /\ c.disconnected_bytes = Ledger(a.disconnected_bytes) + (size + Overhead)
    /\ c.backup = Append(a.backup, a.writer_crypto + 1)

\* close_current_socket, after a write that failed or on its own.
Lost(a, c) ==
    /\ c.live = None
    /\ c.socket_down_pending <=> a.socket_down_pending \/ a.live # None
    /\ SameExchange(a, c)
    /\ \/ c.disconnected_bytes = Ledger(a.disconnected_bytes) /\ c.backup = a.backup
       \/ /\ a.live # None
          /\ \E size \in Sizes \cup {0} :
                c.disconnected_bytes = Ledger(a.disconnected_bytes) + (size + Overhead)

\* The exchange is over: its socket goes live, or the previous one is put back.
Over(a, c, live, ledger) ==
    /\ a.stage # "none"
    /\ c.stage = "none" /\ c.old = None
    /\ c.live = live /\ c.disconnected_bytes = ledger
    /\ c.socket_down_pending = a.socket_down_pending
    /\ c.backup = a.backup

Outcome(a, c) ==
    /\ c \in BackedActor /\ c.pc = a.pc /\ c.dead_sent = a.dead_sent
    /\ \/ Kept(a, c) \/ Buffered(a, c) \/ Lost(a, c)
       \/ Over(a, c, a.stream, NoLedger)
       \/ Over(a, c, a.old, a.disconnected_bytes)

\* The end of a handler, and deliver_inbox, leave the backup and the ledger
\* alone; if they stop the actor it is over a mismatch, which counts as reported.
LEMMA ResumeKeeps ==
    ASSUME NEW p \in Peers, NEW a \in BackedActor,
           NEW b \in {Resume(p, a), DeliverInbox(p, a)}
    PROVE  /\ b.backup = a.backup /\ b.disconnected_bytes = a.disconnected_bytes
           /\ a.pc \in Running => b.pc \in Running \cup {"mismatch"}
           /\ b.pc = "mismatch" => b.dead_sent \/ a.pc = "mismatch"
  <1> DEFINE Good(c) == /\ c.backup = a.backup /\ c.disconnected_bytes = a.disconnected_bytes
                        /\ a.pc \in Running => c.pc \in Running \cup {"mismatch"}
                        /\ c.pc = "mismatch" => c.dead_sent \/ a.pc = "mismatch"
  <1>1. Good(DeliverInbox(p, a))
    <2>1. CASE a.inbox = <<>>
      BY <2>1 DEF DeliverInbox, BackedActor, Running
    <2>2. CASE a.inbox # <<>> /\ Head(a.inbox) # a.reader_crypto + 1
      BY <2>2 DEF DeliverInbox, BackedActor, Running
    <2>3. CASE a.inbox # <<>> /\ Head(a.inbox) = a.reader_crypto + 1
      BY <2>3 DEF DeliverInbox, BackedActor, Running
    <2> QED BY <2>1, <2>2, <2>3
  <1>2. Good([a EXCEPT !.socket_down_pending = FALSE, !.pc = "sockdown"])
    BY DEF BackedActor, Running
  <1>3. Good(a)
    OBVIOUS
  <1> HIDE DEF Good
  <1>4. Good(Resume(p, a))
    BY <1>1, <1>2, <1>3 DEF Resume
  <1>5. Good(b)
    BY <1>1, <1>4
  <1> QED BY <1>5 DEF Good

\* What write() stores while there is no socket: the whole backup and the packet.
LEMMA StoredOffline ==
    ASSUME NEW a \in BackedActor, a.live = None,
           NEW log, NEW k \in 0 .. Len(a.backup) + 1, Trims(log, Stored(a), k)
    PROVE  [Stored(a) EXCEPT !.backup = DropOldest(@, k)].backup
               = Append(a.backup, a.writer_crypto + 1)
  <1> DEFINE full == Append(a.backup, a.writer_crypto + 1)
             d == Stored(a)
  <1>1. d.live = None /\ d.backup = full
    BY DEF Stored, BackedActor
  <1>2. k = 0
    <2>1. \A j \in 0 .. k - 1 : d.live # None
      BY DEF Trims
    <2>2. k \in Nat /\ (k # 0 => 0 \in 0 .. k - 1)
      BY SMTT(20) DEF BackedActor
    <2> HIDE DEF d
    <2> QED BY <1>1, <2>1, <2>2
  <1>3. [d EXCEPT !.backup = DropOldest(@, k)].backup = DropOldest(full, 0)
    BY <1>1, <1>2 DEF Stored, BackedActor
  <1>4. a.backup \in Seq(Nat) /\ a.writer_crypto + 1 \in Nat
    BY SMTT(20) DEF BackedActor
  <1>5. DropOldest(full, 0) = full
    BY <1>4, SMTT(20) DEF DropOldest
  <1> QED BY <1>3, <1>5

\* What storing, charging and closing do to ledger and backup.
LEMMA LedgerFacts ==
    ASSUME NEW a \in BackedActor, NEW len \in Nat, NEW k
    PROVE  LET b == [Stored(a) EXCEPT !.backup = DropOldest(@, k)]
           IN  /\ b.disconnected_bytes = a.disconnected_bytes
               /\ Charged(a, len).disconnected_bytes = Ledger(a.disconnected_bytes) + len
               /\ Charged(a, len).backup = a.backup
               /\ CloseCurrentSocket(a).disconnected_bytes = Ledger(a.disconnected_bytes)
               /\ CloseCurrentSocket(a).backup = a.backup
  BY DEF Stored, Charged, CloseCurrentSocket, BackedActor

\* write() is such a handler.
LEMMA WriteOutcome ==
    ASSUME NEW p \in Peers, NEW a \in BackedActor, NEW hdr, NEW size \in Sizes \cup {0},
           WriteFrom(p, a, hdr, size)
    PROVE  \E c : Outcome(a, c) /\ actor' = [actor EXCEPT ![p] = Resume(p, c)]
  <1>1. CASE ~Fits(a, size)
    <2>1. Outcome(a, a)
      BY DEF Outcome, Kept, SameExchange
    <2>2. actor' = [actor EXCEPT ![p] = Resume(p, a)]
      BY <1>1 DEF WriteFrom
    <2> QED BY <2>1, <2>2
  <1>2. CASE Fits(a, size)
    <2>1. PICK k \in 0 .. Len(a.backup) + 1 :
             /\ Trims(sent'[p], Stored(a), k)
             /\ LET b == [Stored(a) EXCEPT !.backup = DropOldest(@, k)]
                IN  \/ /\ b.live = None
                       /\ actor' = [actor EXCEPT ![p] = Resume(p, Charged(b, size + Overhead))]
                    \/ /\ b.live # None
                       /\ actor' = [actor EXCEPT ![p] = Resume(p, b)]
                    \/ /\ b.live # None
                       /\ actor' = [actor EXCEPT ![p] =
                             Resume(p, CloseCurrentSocket(Charged(b, size + Overhead)))]
      BY <1>2 DEF WriteFrom
    <2> DEFINE b == [Stored(a) EXCEPT !.backup = DropOldest(@, k)]
               e == Charged(b, size + Overhead)
               f == CloseCurrentSocket(e)
    <2>2. /\ b \in BackedActor /\ SameReader(a, b) /\ SameExchange(a, b)
          /\ b.live = a.live /\ b.socket_down_pending = a.socket_down_pending
      BY StoredFacts
    <2>3. b.disconnected_bytes = a.disconnected_bytes
      BY LedgerFacts DEF Stored, BackedActor
    <2>4. a.live = None => b.backup = Append(a.backup, a.writer_crypto + 1)
      BY <2>1, StoredOffline
    <2>5. \/ b.live = None /\ actor' = [actor EXCEPT ![p] = Resume(p, e)]
          \/ b.live # None /\ actor' = [actor EXCEPT ![p] = Resume(p, b)]
          \/ b.live # None /\ actor' = [actor EXCEPT ![p] = Resume(p, f)]
      BY <2>1
    <2> HIDE DEF b
    <2>6. size + Overhead \in Nat
      BY SizesAssumption, SMTT(20)
    <2>7. /\ e \in BackedActor /\ SameReader(b, e) /\ SameExchange(b, e)
          /\ e.live = b.live /\ e.socket_down_pending = b.socket_down_pending
          /\ e.disconnected_bytes = Ledger(b.disconnected_bytes) + (size + Overhead)
          /\ e.backup = b.backup
      BY <2>2, <2>6, ChargeFacts, LedgerFacts
    <2> HIDE DEF e
    <2>8. /\ f \in BackedActor /\ SameReader(e, f) /\ SameExchange(e, f)
          /\ f.live = None /\ (f.socket_down_pending <=> e.socket_down_pending \/ e.live # None)
          /\ f.disconnected_bytes = Ledger(e.disconnected_bytes)
      <3>1. f \in BackedActor
        BY <2>7, CloseType
      <3>2. 0 \in Nat
        OBVIOUS
      <3> QED BY <2>7, <3>1, <3>2, CloseFacts, LedgerFacts
    <2> HIDE DEF f
    <2>9. CASE b.live = None /\ actor' = [actor EXCEPT ![p] = Resume(p, e)]
      <3>1. Buffered(a, e)
        BY <1>2, <2>2, <2>3, <2>4, <2>7, <2>9 DEF Buffered, SameExchange
      <3>2. Outcome(a, e)
        BY <2>2, <2>7, <3>1 DEF Outcome, SameReader
      <3> QED BY <2>9, <3>2
    <2>10. CASE b.live # None /\ actor' = [actor EXCEPT ![p] = Resume(p, b)]
      <3>1. Kept(a, b)
        BY <2>2, <2>3, <2>10 DEF Kept
      <3>2. Outcome(a, b)
        BY <2>2, <3>1 DEF Outcome, SameReader
      <3> QED BY <2>10, <3>2
    <2>11. CASE b.live # None /\ actor' = [actor EXCEPT ![p] = Resume(p, f)]
      <3>1. f.disconnected_bytes = Ledger(a.disconnected_bytes) + (size + Overhead)
        <4>1. PICK x : x = Ledger(b.disconnected_bytes) + (size + Overhead)
          OBVIOUS
        <4>2. x \in Nat
          <5>1. b.disconnected_bytes \in {NoLedger} \cup Nat
            BY <2>2 DEF BackedActor
          <5> QED BY <2>6, <4>1, <5>1, SMTT(20) DEF Ledger, NoLedger
        <4>3. Ledger(x) = x
          BY <4>2, SMTT(20) DEF Ledger, NoLedger
        <4> QED BY <2>3, <2>7, <2>8, <4>1, <4>3
      <3>2. Lost(a, f)
        BY <2>2, <2>7, <2>8, <2>11, <3>1 DEF Lost, SameExchange
      <3>3. Outcome(a, f)
        BY <2>2, <2>7, <2>8, <3>2 DEF Outcome, SameReader
      <3> QED BY <2>11, <3>3
    <2> QED BY <2>5, <2>9, <2>10, <2>11
  <1> QED BY <1>1, <1>2

\* The steps of an actor: a handler with one of these outcomes and the end of
\* the handler, or an event sent, or a step of the exchange or of the end.
Handles(p, c) ==
    /\ Outcome(actor[p], c)
    /\ actor' = [actor EXCEPT ![p] = Resume(p, c)]
    /\ events' = events
    /\ \/ Serving(p) /\ owner' = owner
       \/ Over(actor[p], c, actor[p].stream, NoLedger) /\ Reply(p, TRUE)
       \/ Over(actor[p], c, actor[p].old, actor[p].disconnected_bytes) /\ Reply(p, FALSE)

\* A step of an actor is a handler, an event, a stage of an exchange or an end.
LEMMA Handlers ==
    ASSUME TypeOK, StreamInv, NEW p \in Peers, ActorStep(p)
    PROVE  \/ \E c : Handles(p, c)
           \/ SendEvent(p) \/ RecoverStart(p) \/ RecoverSequence(p)
           \/ Shutdown(p) \/ DieCryptoMismatch(p) \/ Finish(p)
  <1> DEFINE a == actor[p]
  <1>a. a \in BackedActor
    BY DEF TypeOK
  <1>s. Selecting(p) => Serving(p)
    BY DEF Selecting, Serving
  <1>c. ASSUME Serving(p), UNCHANGED <<events, owner>>,
               actor' = [actor EXCEPT ![p] = Resume(p, CloseCurrentSocket(@))]
        PROVE  \E c : Handles(p, c)
    <2>1. PICK c : c = CloseCurrentSocket(a)
      OBVIOUS
    <2>2. c \in BackedActor
      BY <1>a, <2>1, CloseType
    <2>3. /\ SameReader(a, c) /\ SameExchange(a, c) /\ c.live = None
          /\ c.socket_down_pending <=> a.socket_down_pending \/ a.live # None
      BY <1>a, <2>1, CloseFacts
    <2>4. c.disconnected_bytes = Ledger(a.disconnected_bytes) /\ c.backup = a.backup
      BY <1>a, <2>1 DEF CloseCurrentSocket, BackedActor
    <2>5. Outcome(a, c)
      BY <2>2, <2>3, <2>4 DEF Outcome, Lost, SameReader
    <2>6. actor' = [actor EXCEPT ![p] = Resume(p, c)]
      BY <1>c, <2>1
    <2> QED BY <1>c, <2>5, <2>6 DEF Handles
  <1>1. CASE Write(p) \/ Echo(p)
    <2>1. PICK hdr \in {KEEP_ALIVE, DATA}, size \in Sizes \cup {0} : WriteFrom(p, a, hdr, size)
      BY <1>1 DEF Write, Echo
    <2>2. Serving(p) /\ UNCHANGED <<events, owner>>
      BY <1>1 DEF Write, Echo
    <2>3. PICK c : Outcome(a, c) /\ actor' = [actor EXCEPT ![p] = Resume(p, c)]
      BY <1>a, <2>1, WriteOutcome
    <2> QED BY <2>2, <2>3 DEF Handles
  <1>2. CASE KeepalivePing(p)
    <2>1. PICK d : d = [a EXCEPT !.waiting_on_keepalive = TRUE]
      OBVIOUS
    <2>2. /\ d \in BackedActor /\ SameReader(a, d) /\ SameExchange(a, d) /\ SameWriter(a, d)
          /\ d.live = a.live /\ d.socket_down_pending = a.socket_down_pending
      BY <1>a, <2>1, PingFacts DEF BackedActor
    <2>3. d.disconnected_bytes = a.disconnected_bytes /\ d.backup = a.backup
      BY <1>a, <2>1 DEF BackedActor
    <2>4. WriteFrom(p, d, KEEP_ALIVE, 0) /\ UNCHANGED <<events, owner>> /\ Serving(p) /\ a.live # None
      BY <1>2, <1>s, <2>1 DEF KeepalivePing
    <2>5. PICK c : Outcome(d, c) /\ actor' = [actor EXCEPT ![p] = Resume(p, c)]
      <3>1. 0 \in Sizes \cup {0}
        OBVIOUS
      <3> QED BY <2>2, <2>4, <3>1, WriteOutcome
    <2>6. a.stage = "none"
      BY <2>4 DEF Serving
    <2>7. Kept(a, c) \/ Lost(a, c)
      BY <2>2, <2>3, <2>4, <2>5, <2>6 DEF Outcome, Kept, Buffered, Lost, Over, SameExchange
    <2>8. Outcome(a, c)
      BY <2>2, <2>5, <2>7 DEF Outcome, SameReader
    <2> QED BY <2>4, <2>5, <2>8 DEF Handles
  <1>3. CASE ReadError(p) \/ KeepaliveExpire(p) \/ KillSocket(p)
    BY <1>3, <1>c, <1>s DEF ReadError, KeepaliveExpire, KillSocket
  <1>4. CASE IdleTick(p)
    <2>1. Outcome(a, a)
      BY <1>a DEF Outcome, Kept, SameExchange
    <2> QED BY <1>4, <1>s, <2>1 DEF IdleTick, Handles
  <1>5. CASE ReadFrame(p)
    <2> DEFINE in == pipe[a.live][p].frames
               i == Append(a.inbox, Head(in))
    <2>1. Serving(p) /\ a.live # None /\ in # <<>> /\ UNCHANGED <<events, owner>>
      BY <1>5, <1>s DEF ReadFrame
    <2>2. i \in Seq(Nat)
      <3>1. a.live \in Sockets
        BY <1>a, <2>1 DEF BackedActor
      <3>2. in \in Seq(Nat) /\ a.inbox \in Seq(Nat)
        BY <3>1, Types, SMTT(30)
      <3>3. Head(in) \in Nat
        BY <2>1, <3>2, SeqHead
      <3> QED BY <3>2, <3>3, SeqAppend, SMTT(30)
    <2>3. PICK c : c = [a EXCEPT !.inbox = i]
      OBVIOUS
    <2>4. actor' = [actor EXCEPT ![p] = Resume(p, c)]
      BY <1>5, <2>3 DEF ReadFrame
    <2> HIDE DEF i
    <2>5. /\ c \in BackedActor /\ c.pc = a.pc /\ SameExchange(a, c) /\ c.dead_sent = a.dead_sent
          /\ c.live = a.live /\ c.socket_down_pending = a.socket_down_pending
          /\ c.disconnected_bytes = a.disconnected_bytes /\ c.backup = a.backup
      BY <1>a, <2>2, <2>3 DEF BackedActor, SameExchange
    <2>6. Outcome(a, c)
      BY <2>5 DEF Outcome, Kept
    <2> QED BY <2>1, <2>4, <2>6 DEF Handles
  <1>6. CASE RecoverDone(p)
    <2> DEFINE in == pipe[a.stream][p].catchup
               i == a.inbox \o Head(in)
    <2>1. a.stage = "catchup" /\ in # <<>> /\ events' = events /\ Reply(p, TRUE)
      BY <1>6 DEF RecoverDone
    <2>2. i \in Seq(Nat)
      <3>1. a.stream \in Sockets
        BY <1>a, <2>1 DEF BackedActor, StreamInv
      <3>2. in \in Seq(Seq(Nat)) /\ a.inbox \in Seq(Nat)
        BY <3>1, Types
      <3>3. Head(in) \in Seq(Nat)
        BY <2>1, <3>2, SeqHead
      <3> QED BY <3>2, <3>3, SeqConcat, SMTT(30)
    <2>3. PICK c : c = [a EXCEPT !.inbox = i, !.disconnected_bytes = NoLedger, !.live = a.stream,
                                 !.stage = "none", !.stream = None, !.old = None]
      OBVIOUS
    <2>4. actor' = [actor EXCEPT ![p] = Resume(p, c)]
      BY <1>6, <2>3 DEF RecoverDone
    <2> HIDE DEF i
    <2>5. /\ c \in BackedActor /\ c.pc = a.pc /\ c.dead_sent = a.dead_sent
          /\ c.live = a.stream /\ c.socket_down_pending = a.socket_down_pending
          /\ c.stage = "none" /\ c.old = None
      BY <1>a, <2>2, <2>3, DoneFacts
    <2>6. c.disconnected_bytes = NoLedger /\ c.backup = a.backup
      BY <1>a, <2>3 DEF BackedActor
    <2>7. Outcome(a, c) /\ Over(a, c, a.stream, NoLedger)
      BY <2>1, <2>5, <2>6 DEF Outcome, Over
    <2> QED BY <2>1, <2>4, <2>7 DEF Handles
  <1>7. CASE RecoverFail(p)
    <2>1. PICK c : c = [a EXCEPT !.live = a.old, !.stage = "none", !.stream = None, !.old = None]
      OBVIOUS
    <2>2. /\ a.stage # "none" /\ actor' = [actor EXCEPT ![p] = Resume(p, c)]
          /\ events' = events /\ Reply(p, FALSE)
      BY <1>7, <2>1 DEF RecoverFail
    <2>3. /\ c \in BackedActor /\ SameWriter(a, c) /\ SameReader(a, c)
          /\ c.socket_down_pending = a.socket_down_pending
          /\ c.stage = "none" /\ c.old = None /\ c.live = a.old
      BY <1>a, <2>1, FailFacts
    <2>4. c.disconnected_bytes = a.disconnected_bytes /\ c.backup = a.backup
      BY <1>a, <2>1 DEF BackedActor
    <2>5. Outcome(a, c) /\ Over(a, c, a.old, a.disconnected_bytes)
      BY <2>2, <2>3, <2>4 DEF Outcome, Over, SameReader
    <2> QED BY <2>2, <2>5 DEF Handles
  <1> QED BY <1>1, <1>2, <1>3, <1>4, <1>5, <1>6, <1>7 DEF ActorStep

\* A handler's outcome as the next state of its actor.
LEMMA HandledState ==
    ASSUME TypeOK, NEW p \in Peers, NEW c, Handles(p, c)
    PROVE  LET b == actor'[p]
           IN  /\ b \in BackedActor /\ ResumedLoss(c, b)
               /\ b.backup = c.backup /\ b.disconnected_bytes = c.disconnected_bytes
               /\ c.pc \in Running => b.pc \in Running \cup {"mismatch"}
               /\ b.pc = "mismatch" => b.dead_sent \/ c.pc = "mismatch"
  <1>1. c \in BackedActor /\ actor' = [actor EXCEPT ![p] = Resume(p, c)]
    BY DEF Handles, Outcome
  <1>2. PICK b : b = Resume(p, c)
    OBVIOUS
  <1>3. b \in BackedActor /\ ResumedLoss(c, b)
    BY <1>1, <1>2, ResumeType, ResumeLoss
  <1>4. /\ b.backup = c.backup /\ b.disconnected_bytes = c.disconnected_bytes
        /\ c.pc \in Running => b.pc \in Running \cup {"mismatch"}
        /\ b.pc = "mismatch" => b.dead_sent \/ c.pc = "mismatch"
    BY <1>1, <1>2, ResumeKeeps
  <1>5. actor'[p] = b
    BY <1>1, <1>2, <1>3, Moves
  <1> QED BY <1>3, <1>4, <1>5

\* The other steps of an actor, as the next state of its actor.
LEMMA OtherState ==
    ASSUME TypeOK, NEW p \in Peers
    PROVE  LET a == actor[p]
               b == actor'[p]
           IN  /\ SendEvent(p) =>
                     /\ b = DeliverInbox(p, a) /\ b.live = a.live /\ SameExchange(a, b)
                     /\ b.backup = a.backup /\ b.disconnected_bytes = a.disconnected_bytes
                     /\ b.socket_down_pending = a.socket_down_pending
                     /\ b.pc \in Running \cup {"mismatch"} /\ (b.pc = "mismatch" => b.dead_sent)
               /\ RecoverStart(p) =>
                     /\ b.stage # "none" /\ b.old = a.live /\ b.live = None /\ b.pc = a.pc
                     /\ b.backup = a.backup /\ b.disconnected_bytes = a.disconnected_bytes
                     /\ b.socket_down_pending = a.socket_down_pending
               /\ RecoverSequence(p) =>
                     /\ b.stage # "none" /\ b.old = a.old /\ b.live = a.live /\ b.pc = a.pc
                     /\ b.backup = a.backup /\ b.disconnected_bytes = a.disconnected_bytes
                     /\ b.socket_down_pending = a.socket_down_pending
               /\ Shutdown(p) \/ DieCryptoMismatch(p) =>
                     /\ b.pc = "final" /\ b.dead_sent = a.dead_sent
                     /\ b.backup = a.backup /\ b.stage = a.stage /\ b.old = a.old
               /\ Finish(p) =>
                     /\ b.pc = "stopped" /\ b.backup = a.backup /\ b.stage = a.stage /\ b.old = a.old
  <1> DEFINE a == actor[p]
             b == actor'[p]
  <1>a. a \in BackedActor
    BY DEF TypeOK
  <1>1. ASSUME SendEvent(p)
        PROVE  /\ b = DeliverInbox(p, a) /\ b.live = a.live /\ SameExchange(a, b)
               /\ b.backup = a.backup /\ b.disconnected_bytes = a.disconnected_bytes
               /\ b.socket_down_pending = a.socket_down_pending
               /\ b.pc \in Running \cup {"mismatch"} /\ (b.pc = "mismatch" => b.dead_sent)
    <2>1. a.pc \in Running /\ a.pc # "mismatch" /\ actor' = [actor EXCEPT ![p] = DeliverInbox(p, a)]
      BY <1>1 DEF SendEvent, Running
    <2>2. PICK d : d = DeliverInbox(p, a)
      OBVIOUS
    <2>3. b = d
      BY <2>1, <2>2 DEF TypeOK
    <2>4. d.live = a.live /\ SameExchange(a, d) /\ d.socket_down_pending = a.socket_down_pending
      BY <1>a, <2>2, DeliverLoss
    <2>5. /\ d.backup = a.backup /\ d.disconnected_bytes = a.disconnected_bytes
          /\ d.pc \in Running \cup {"mismatch"}
          /\ d.pc = "mismatch" => d.dead_sent \/ a.pc = "mismatch"
      BY <1>a, <2>1, <2>2, ResumeKeeps
    <2> QED BY <2>1, <2>2, <2>3, <2>4, <2>5
  <1>2. ASSUME RecoverStart(p)
        PROVE  /\ b.stage # "none" /\ b.old = a.live /\ b.live = None /\ b.pc = a.pc
               /\ b.backup = a.backup /\ b.disconnected_bytes = a.disconnected_bytes
               /\ b.socket_down_pending = a.socket_down_pending
    <2>1. \E s : b = [a EXCEPT !.stage = "seq", !.stream = s, !.old = a.live, !.live = None]
      BY <1>2 DEF RecoverStart, TypeOK
    <2> QED BY <1>a, <2>1 DEF BackedActor
  <1>3. ASSUME RecoverSequence(p)
        PROVE  /\ b.stage # "none" /\ b.old = a.old /\ b.live = a.live /\ b.pc = a.pc
               /\ b.backup = a.backup /\ b.disconnected_bytes = a.disconnected_bytes
               /\ b.socket_down_pending = a.socket_down_pending
    <2>1. actor' = [actor EXCEPT ![p].stage = "catchup"]
      BY <1>3 DEF RecoverSequence
    <2>2. b = [a EXCEPT !.stage = "catchup"]
      BY <2>1 DEF TypeOK
    <2> QED BY <1>a, <2>2 DEF BackedActor
  <1>4. ASSUME Shutdown(p) \/ DieCryptoMismatch(p)
        PROVE  /\ b.pc = "final" /\ b.dead_sent = a.dead_sent
               /\ b.backup = a.backup /\ b.stage = a.stage /\ b.old = a.old
    <2>1. b = [a EXCEPT !.pc = "final", !.live = None]
      BY <1>4 DEF Shutdown, DieCryptoMismatch, TypeOK
    <2> QED BY <1>a, <2>1 DEF BackedActor
  <1>5. ASSUME Finish(p)
        PROVE  b.pc = "stopped" /\ b.backup = a.backup /\ b.stage = a.stage /\ b.old = a.old
    <2>1. b = [a EXCEPT !.pc = "stopped"]
      BY <1>5 DEF Finish, TypeOK
    <2> QED BY <1>a, <2>1 DEF BackedActor
  <1> HIDE DEF a, b
  <1> QED BY <1>1, <1>2, <1>3, <1>4, <1>5 DEF a, b

-----------------------------------------------------------------------------
(* The backup of a disconnected actor. *)

\* Without a socket nothing leaves the backup, whatever the step: write() adds
\* to it and trims nothing, and every other handler leaves it alone.
THEOREM BackupKeptOffline == Spec => OfflineKeepsBackup
  <1> DEFINE Retains(p) == actor[p].live = None =>
                 \E k \in 0 .. 1 : LET b == actor'[p].backup
                                  IN  SubSeq(b, 1, Len(b) - k) = actor[p].backup
  <1>1. ASSUME TypeInv, Next, NEW p \in Peers PROVE Retains(p)
    <2> DEFINE a == actor[p]
               b == actor'[p]
    <2>a. TypeOK /\ StreamInv /\ a \in BackedActor
      BY <1>1 DEF TypeInv, TypeOK
    <2>0. a.backup \in Seq(Nat) /\ a.writer_crypto + 1 \in Nat
      BY <2>a, SMTT(20) DEF BackedActor
    <2>1. ASSUME b.backup = a.backup PROVE Retains(p)
      <3>1. SubSeq(a.backup, 1, Len(a.backup) - 0) = a.backup
        BY <2>0, SMTT(20)
      <3> QED BY <2>1, <3>1, SMTT(20)
    <2>2. ASSUME b.backup = Append(a.backup, a.writer_crypto + 1) PROVE Retains(p)
      <3> DEFINE full == Append(a.backup, a.writer_crypto + 1)
      <3>1. SubSeq(full, 1, Len(full) - 1) = a.backup
        BY <2>0, SMTT(20)
      <3> HIDE DEF full
      <3> QED BY <2>2, <3>1, SMTT(20) DEF full
    <2>3. CASE ActorStep(p)
      <3>1. ASSUME NEW c, Handles(p, c), a.live = None
            PROVE  b.backup = a.backup \/ b.backup = Append(a.backup, a.writer_crypto + 1)
        <4>1. b.backup = c.backup
          BY <2>a, <3>1, HandledState
        <4>2. c.backup = a.backup \/ c.backup = Append(a.backup, a.writer_crypto + 1)
          BY <3>1 DEF Handles, Outcome, Kept, Buffered, Lost, Over
        <4> QED BY <4>1, <4>2
      <3>2. ASSUME \/ SendEvent(p) \/ RecoverStart(p) \/ RecoverSequence(p)
                   \/ Shutdown(p) \/ DieCryptoMismatch(p) \/ Finish(p)
            PROVE  b.backup = a.backup
        BY <2>a, <3>2, OtherState
      <3> QED BY <2>a, <2>1, <2>2, <2>3, <3>1, <3>2, Handlers
    <2>4. CASE \E q \in Peers : q # p /\ (ActorStep(q) \/ Consume(q))
      BY <2>a, <2>1, <2>4, OtherEnd
    <2>5. CASE Consume(p) \/ Connect \/ \E s \in Sockets : Cut(s)
      BY <2>1, <2>5 DEF Consume, Connect, Cut
    <2> QED BY <1>1, <2>3, <2>4, <2>5 DEF Next
  <1>2. TypeInv /\ [Next]_vars => [\A p \in Peers : Retains(p)]_vars
    BY <1>1
  <1>3. Init => TypeInv
    BY InitType, SMTT(20) DEF Init, TypeInv, StreamInv, NewActor
  <1>4. Spec => [][\A p \in Peers : Retains(p)]_vars
    BY <1>2, <1>3, NextType, PTL DEF Spec
  <1> QED BY <1>4 DEF OfflineKeepsBackup

-----------------------------------------------------------------------------
(* The disconnect ledger. *)

\* An exchange has set the live socket aside and runs in a serving actor.
ExchangeOK(a) ==
    /\ a.stage = "none" => a.old = None
    /\ a.stage # "none" => a.live = None /\ a.pc \in Running

LedgerOK(a) ==
    a.pc \notin {"final", "stopped"} =>
        /\ (a.disconnected_bytes = NoLedger) <=> (a.live # None \/ a.old # None)
        /\ a.disconnected_bytes <= DISCONNECT_BUFFER_BYTES + Overhead

\* Every step keeps the exchange in a serving actor.
LEMMA NextExchange ==
    ASSUME TypeInv, NEW p \in Peers, ExchangeOK(actor[p]), [Next]_vars
    PROVE  ExchangeOK(actor'[p])
  <1> DEFINE a == actor[p]
             b == actor'[p]
  <1>0. TypeOK /\ StreamInv /\ a \in BackedActor
    BY DEF TypeInv, TypeOK
  <1>1. CASE ActorStep(p)
    <2>1. ASSUME NEW c, Handles(p, c) PROVE ExchangeOK(b)
      <3>1. ResumedLoss(c, b) /\ (c.pc \in Running => b.pc \in Running \cup {"mismatch"})
        BY <1>0, <2>1, HandledState
      <3>2. Outcome(a, c) /\ a.pc \in Running /\ (Serving(p) \/ a.stage # "none")
        BY <2>1 DEF Handles, Over, Serving, ExchangeOK, Running
      <3>3. c.stage = "none" /\ c.old = None
        <4>1. CASE Serving(p)
          <5>1. a.stage = "none" /\ a.old = None
            BY <4>1 DEF Serving, ExchangeOK
          <5> QED BY <3>2, <5>1 DEF Outcome, Kept, Buffered, Lost, Over, SameExchange
        <4>2. CASE ~Serving(p)
          BY <2>1, <4>2 DEF Handles, Over
        <4> QED BY <4>1, <4>2
      <3> QED BY <3>1, <3>3 DEF ExchangeOK, ResumedLoss, SameExchange
    <2>2. CASE SendEvent(p)
      BY <1>0, <2>2, OtherState DEF SendEvent, ExchangeOK, SameExchange
    <2>3. CASE RecoverStart(p)
      BY <1>0, <2>3, OtherState DEF RecoverStart, ExchangeOK, Serving, Running
    <2>4. CASE RecoverSequence(p)
      BY <1>0, <2>4, OtherState DEF RecoverSequence, ExchangeOK
    <2>5. CASE Shutdown(p)
      BY <1>0, <2>5, OtherState DEF Shutdown, ExchangeOK, Serving
    <2>6. CASE DieCryptoMismatch(p)
      BY <1>0, <2>6, OtherState DEF DieCryptoMismatch, ExchangeOK, Running
    <2>7. CASE Finish(p)
      BY <1>0, <2>7, OtherState DEF Finish, ExchangeOK, Running
    <2> QED BY <1>0, <1>1, <2>1, <2>2, <2>3, <2>4, <2>5, <2>6, <2>7, Handlers
  <1>2. ASSUME b = a PROVE ExchangeOK(b)
    BY <1>2
  <1>3. CASE \E q \in Peers : q # p /\ (ActorStep(q) \/ Consume(q))
    BY <1>0, <1>2, <1>3, OtherEnd
  <1>4. CASE Consume(p) \/ Connect \/ (\E s \in Sockets : Cut(s)) \/ UNCHANGED vars
    BY <1>2, <1>4 DEF Consume, Connect, Cut, vars
  <1> QED BY <1>1, <1>3, <1>4 DEF Next

\* Every step keeps the ledger open exactly while there is no socket, and within
\* its budget.
LEMMA NextLedger ==
    ASSUME \A size \in Sizes : size <= DISCONNECT_BUFFER_BYTES,
           TypeInv, NEW p \in Peers, ExchangeOK(actor[p]), LedgerOK(actor[p]), [Next]_vars
    PROVE  LedgerOK(actor'[p])
  <1> DEFINE a == actor[p]
             b == actor'[p]
  <1>0. TypeOK /\ StreamInv /\ a \in BackedActor
    BY DEF TypeInv, TypeOK
  <1>1. CASE ActorStep(p)
    <2>1. ASSUME NEW c, Handles(p, c) PROVE LedgerOK(b)
      <3>1. b.live = c.live /\ b.old = c.old /\ b.disconnected_bytes = c.disconnected_bytes
        BY <1>0, <2>1, HandledState, SMTT(20) DEF ResumedLoss, SameExchange
      <3>2. /\ Outcome(a, c) /\ a.pc \in Running
            /\ a.stage # "none" => a.stream # None
        BY <1>0, <2>1 DEF Handles, Over, Serving, ExchangeOK, Running, StreamInv
      <3>3. /\ (a.disconnected_bytes = NoLedger) <=> (a.live # None \/ a.old # None)
            /\ a.disconnected_bytes <= DISCONNECT_BUFFER_BYTES + Overhead
            /\ a.disconnected_bytes \in {NoLedger} \cup Nat
        BY <1>0, <3>2 DEF LedgerOK, Running, BackedActor
      <3>4. DISCONNECT_BUFFER_BYTES \in Nat /\ Overhead \in Nat /\ Sizes \subseteq Nat
        BY SizesAssumption, LimitsAssumption
      <3> DEFINE Good(l, o, d) == /\ (d = NoLedger) <=> (l # None \/ o # None)
                                  /\ d <= DISCONNECT_BUFFER_BYTES + Overhead
      <3>5. CASE Kept(a, c)
        BY <3>1, <3>3, <3>5 DEF Kept, SameExchange, LedgerOK
      <3>6. CASE Buffered(a, c)
        <4>1. PICK size \in Sizes \cup {0} :
                  /\ Fits(a, size)
                  /\ c.disconnected_bytes = Ledger(a.disconnected_bytes) + (size + Overhead)
          BY <3>6 DEF Buffered
        <4>2. size \in Nat /\ size <= DISCONNECT_BUFFER_BYTES
          BY <3>4, SMTT(20)
        <4>3. /\ c.disconnected_bytes \in Nat
              /\ c.disconnected_bytes <= DISCONNECT_BUFFER_BYTES + Overhead
          BY <3>3, <3>4, <4>1, <4>2, SMTT(20) DEF Fits, Ledger, NoLedger
        <4>4. c.live = None /\ c.old = a.old
          BY <3>6 DEF Buffered, SameExchange
        <4>5. c.old = None
          BY <2>1, <3>6, <4>4, <1>0 DEF ExchangeOK, Handles, Over, Serving, Buffered
        <4> QED BY <3>1, <4>3, <4>4, <4>5, SMTT(20) DEF LedgerOK, NoLedger
      <3>7. CASE Lost(a, c)
        <4>1. c.live = None /\ c.old = a.old
          BY <3>7 DEF Lost, SameExchange
        <4>2. /\ c.disconnected_bytes \in Nat
              /\ c.disconnected_bytes <= DISCONNECT_BUFFER_BYTES + Overhead
          <5>1. CASE c.disconnected_bytes = Ledger(a.disconnected_bytes)
            BY <3>3, <3>4, <5>1, SMTT(20) DEF Ledger, NoLedger
          <5>2. ASSUME a.live # None, NEW size \in Sizes \cup {0},
                       c.disconnected_bytes = Ledger(a.disconnected_bytes) + (size + Overhead)
                PROVE  /\ c.disconnected_bytes \in Nat
                       /\ c.disconnected_bytes <= DISCONNECT_BUFFER_BYTES + Overhead
            <6>1. size \in Nat /\ size <= DISCONNECT_BUFFER_BYTES
              BY <3>4, SMTT(20)
            <6>2. a.disconnected_bytes = NoLedger
              BY <3>3, <5>2
            <6> QED BY <3>4, <5>2, <6>1, <6>2, SMTT(20) DEF Ledger
          <5> QED BY <3>7, <5>1, <5>2 DEF Lost
        <4>3. c.old = None
          BY <2>1, <3>7, <4>1, <1>0 DEF ExchangeOK, Handles, Over, Serving
        <4> QED BY <3>1, <4>1, <4>2, <4>3, SMTT(20) DEF LedgerOK, NoLedger
      <3>8. CASE Over(a, c, a.stream, NoLedger)
        BY <3>1, <3>2, <3>4, <3>8, SMTT(20) DEF Over, LedgerOK, NoLedger
      <3>9. CASE Over(a, c, a.old, a.disconnected_bytes)
        BY <3>1, <3>3, <3>9 DEF Over, LedgerOK, ExchangeOK
      <3> QED BY <3>2, <3>5, <3>6, <3>7, <3>8, <3>9 DEF Outcome
    <2>2. CASE SendEvent(p)
      BY <1>0, <2>2, OtherState DEF SendEvent, LedgerOK, SameExchange
    <2>3. CASE RecoverStart(p)
      BY <1>0, <2>3, OtherState DEF RecoverStart, ExchangeOK, LedgerOK, Serving
    <2>4. CASE RecoverSequence(p)
      BY <1>0, <2>4, OtherState DEF RecoverSequence, LedgerOK
    <2>5. CASE Shutdown(p) \/ DieCryptoMismatch(p) \/ Finish(p)
      BY <1>0, <2>5, OtherState DEF LedgerOK
    <2> QED BY <1>0, <1>1, <2>1, <2>2, <2>3, <2>4, <2>5, Handlers
  <1>2. ASSUME b = a PROVE LedgerOK(b)
    BY <1>2
  <1>3. CASE \E q \in Peers : q # p /\ (ActorStep(q) \/ Consume(q))
    BY <1>0, <1>2, <1>3, OtherEnd
  <1>4. CASE Consume(p) \/ Connect \/ (\E s \in Sockets : Cut(s)) \/ UNCHANGED vars
    BY <1>2, <1>4 DEF Consume, Connect, Cut, vars
  <1> QED BY <1>1, <1>3, <1>4 DEF Next

\* The disconnect ledger is open exactly while the actor has no socket, and
\* what an outage adds to the backup stays within DISCONNECT_BUFFER_BYTES but
\* for the framing of one packet, for any budget no single payload exceeds (a
\* failed write is charged without a test).
THEOREM LedgerStaysBounded ==
    ASSUME \A size \in Sizes : size <= DISCONNECT_BUFFER_BYTES
    PROVE  Spec => []LedgerBound
  <1> DEFINE J == TypeInv /\ \A p \in Peers : ExchangeOK(actor[p]) /\ LedgerOK(actor[p])
  <1>1. Init => J
    <2> SUFFICES ASSUME Init PROVE J
      OBVIOUS
    <2>1. TypeInv
      BY InitType DEF Init, TypeInv, StreamInv, NewActor
    <2>2. \A p \in Peers : actor[p] = NewActor
      BY DEF Init
    <2>3. ExchangeOK(NewActor) /\ LedgerOK(NewActor)
      BY SizesAssumption, LimitsAssumption, SMTT(20)
         DEF ExchangeOK, LedgerOK, NewActor, NoLedger, None
    <2> QED BY <2>1, <2>2, <2>3
  <1>2. J /\ [Next]_vars => J'
    BY NextType, NextExchange, NextLedger
  <1>3. J => LedgerBound
    BY DEF LedgerBound, LedgerOK
  <1> QED BY <1>1, <1>2, <1>3, PTL DEF Spec

-----------------------------------------------------------------------------
(* The last event. *)

\* No terminal event is queued and none was taken.
Quiet(e, o) == (\A i \in 1 .. Len(e) : e[i] \notin Dead) /\ o # "ended"

\* A terminal event is out only when the actor will not send another, and it is
\* the last of the queue e; once the owner took it the queue is empty.
EndOK(a, e, o) ==
    /\ a.pc = "mismatch" => a.dead_sent
    /\ a.pc # "stopped" /\ ~(a.pc = "final" /\ a.dead_sent) => Quiet(e, o)
    /\ \A i \in 1 .. Len(e) : e[i] \in Dead => i = Len(e)
    /\ o = "ended" => e = <<>>

\* An answer to a recover does not end the owner.
LEMMA ReplyEnded ==
    ASSUME TypeOK, NEW p \in Peers, Reply(p, TRUE) \/ Reply(p, FALSE)
    PROVE  owner'[p] = "ended" <=> owner[p] = "ended"
  BY DEF Reply, TypeOK

\* The bounded send of a terminal event into a queue without one.
LEMMA DeadSent ==
    ASSUME TypeOK, NEW p \in Peers, NEW x \in Dead, SendDead(p, x), Quiet(events[p], owner[p])
    PROVE  \A i \in 1 .. Len(events'[p]) : events'[p][i] \in Dead => i = Len(events'[p])
  <1>1. events[p] \in Seq(Event) /\ x \in Event
    BY DEF TypeOK, Dead, Event
  <1>2. CASE events' = events
    BY <1>2 DEF Quiet
  <1>3. CASE events' = [events EXCEPT ![p] = Append(@, x)]
    <2>1. events'[p] = Append(events[p], x)
      BY <1>3 DEF TypeOK
    <2>2. /\ Len(events'[p]) = Len(events[p]) + 1
          /\ \A i \in 1 .. Len(events[p]) : events'[p][i] = events[p][i]
      BY <1>1, <2>1, SMTT(20)
    <2> QED BY <1>1, <2>2, SMTT(20) DEF Quiet
  <1> QED BY <1>2, <1>3 DEF SendDead

\* Nothing follows the last event, whatever the step.
LEMMA NextEnd ==
    ASSUME TypeInv, NEW p \in Peers, ExchangeOK(actor[p]),
           EndOK(actor[p], events[p], owner[p]), [Next]_vars
    PROVE  EndOK(actor'[p], events'[p], owner'[p])
  <1> DEFINE a == actor[p]
             b == actor'[p]
             e == events[p]
  <1>0. TypeOK /\ StreamInv /\ a \in BackedActor /\ e \in Seq(Event)
    BY DEF TypeInv, TypeOK
  <1>1. CASE ActorStep(p)
    <2>1. ASSUME NEW c, Handles(p, c) PROVE EndOK(b, events'[p], owner'[p])
      <3>1. /\ ResumedLoss(c, b) /\ (c.pc \in Running => b.pc \in Running \cup {"mismatch"})
            /\ b.pc = "mismatch" => b.dead_sent \/ c.pc = "mismatch"
        BY <1>0, <2>1, HandledState
      <3>2. c.pc \in Running /\ a.pc \in Running /\ events' = events
        BY <2>1 DEF Handles, Outcome, Over, Serving, ExchangeOK, Running
      <3>3. owner'[p] = "ended" => owner[p] = "ended"
        BY <1>0, <2>1, ReplyEnded DEF Handles
      <3>4. Quiet(events'[p], owner'[p])
        BY <3>2, <3>3 DEF EndOK, Quiet, Running
      <3> QED BY <3>1, <3>2, <3>4 DEF EndOK, Quiet, Running
    <2>2. CASE SendEvent(p)
      <3>1. PICK x \in {"Packet", "SocketDown"} : events'[p] = Append(e, x)
        BY <1>0, <2>2 DEF SendEvent, TypeOK
      <3>2. Quiet(e, owner[p]) /\ owner'[p] = owner[p] /\ x \in Event /\ x \notin Dead
        BY <2>2 DEF SendEvent, EndOK, Event, Dead
      <3>3. /\ Len(events'[p]) = Len(e) + 1 /\ events'[p][Len(e) + 1] = x
            /\ \A i \in 1 .. Len(e) : events'[p][i] = e[i]
        BY <1>0, <3>1, <3>2, SMTT(20)
      <3>4. Quiet(events'[p], owner'[p])
        BY <1>0, <3>2, <3>3, SMTT(20) DEF Quiet
      <3>5. b.pc = "mismatch" => b.dead_sent
        BY <1>0, <2>2, OtherState
      <3> QED BY <3>4, <3>5 DEF EndOK, Quiet
    <2>3. CASE RecoverStart(p) \/ RecoverSequence(p)
      <3>1. b.pc = a.pc /\ a.pc \in Running /\ events' = events /\ owner' = owner
        BY <1>0, <2>3, OtherState DEF RecoverStart, RecoverSequence, Serving, Running, ExchangeOK
      <3> QED BY <3>1 DEF EndOK, Running
    <2>4. CASE Shutdown(p)
      <3>1. b.pc = "final" /\ events' = events /\ owner' = owner /\ a.pc \in Running
        BY <1>0, <2>4, OtherState DEF Shutdown, Serving, Running
      <3> QED BY <3>1 DEF EndOK, Running
    <2>5. CASE DieCryptoMismatch(p)
      <3>1. /\ b.pc = "final" /\ b.dead_sent = a.dead_sent /\ a.pc = "mismatch"
            /\ owner' = owner /\ SendDead(p, "DeadCryptoMismatch")
        BY <1>0, <2>5, OtherState DEF DieCryptoMismatch
      <3>2. a.dead_sent /\ Quiet(e, owner[p])
        BY <3>1 DEF EndOK
      <3>3. \A i \in 1 .. Len(events'[p]) : events'[p][i] \in Dead => i = Len(events'[p])
        BY <1>0, <3>1, <3>2, DeadSent DEF Dead
      <3> QED BY <3>1, <3>2, <3>3 DEF EndOK, Quiet
    <2>6. CASE Finish(p)
      <3>1. b.pc = "stopped" /\ a.pc = "final" /\ (owner'[p] = "ended" <=> owner[p] = "ended")
        BY <1>0, <2>6, OtherState, ReplyEnded DEF Finish
      <3>2. CASE a.dead_sent
        <4>1. events' = events
          BY <2>6, <3>2 DEF Finish
        <4> QED BY <3>1, <4>1 DEF EndOK
      <3>3. CASE ~a.dead_sent
        <4>1. SendDead(p, "DeadShutdown")
          BY <2>6, <3>3 DEF Finish
        <4>2. Quiet(e, owner[p])
          BY <3>1, <3>3 DEF EndOK
        <4>3. \A i \in 1 .. Len(events'[p]) : events'[p][i] \in Dead => i = Len(events'[p])
          BY <1>0, <4>1, <4>2, DeadSent DEF Dead
        <4> QED BY <3>1, <4>2, <4>3 DEF EndOK, Quiet
      <3> QED BY <3>2, <3>3
    <2> QED BY <1>0, <1>1, <2>1, <2>2, <2>3, <2>4, <2>5, <2>6, Handlers
  <1>2. CASE Consume(p)
    <2>1. /\ e # <<>> /\ events'[p] = Tail(e) /\ actor' = actor /\ owner[p] = "run"
          /\ owner'[p] = "ended" => Head(e) \in Dead
      <3>1. e # <<>> /\ actor' = actor /\ owner[p] = "run" /\ events'[p] = Tail(e)
        BY <1>0, <1>2 DEF Consume, TypeOK
      <3>2. Head(e) \in Event
        BY <1>0, <3>1, SeqHead
      <3>3. ASSUME Head(e) \notin Dead PROVE owner'[p] # "ended"
        <4>1. Head(e) = "Packet" \/ Head(e) = "SocketDown"
          BY <3>2, <3>3 DEF Event, Dead
        <4>2. p \in DOMAIN owner
          BY <1>0 DEF TypeOK
        <4> QED BY <1>2, <3>1, <4>1, <4>2 DEF Consume
      <3> QED BY <3>1, <3>3
    <2>2. /\ Len(e) \in Nat /\ Len(e) >= 1 /\ Head(e) = e[1]
          /\ Len(events'[p]) = Len(e) - 1
          /\ \A i \in 1 .. Len(e) - 1 : events'[p][i] = e[i + 1]
      BY <1>0, <2>1, SMTT(20)
    <2>3. owner'[p] = "ended" => events'[p] = <<>>
      <3>1. ASSUME owner'[p] = "ended" PROVE Len(events'[p]) = 0
        <4>1. 1 \in 1 .. Len(e) /\ e[1] \in Dead
          BY <2>1, <2>2, <3>1, SMTT(20)
        <4>2. 1 = Len(e)
          BY <4>1 DEF EndOK
        <4> QED BY <2>2, <4>2, SMTT(20)
      <3>2. events'[p] \in Seq(Event)
        BY <1>0, <2>1, SMTT(20)
      <3> QED BY <3>1, <3>2, SMTT(20)
    <2>4. Quiet(e, owner[p]) => Quiet(events'[p], owner'[p])
      BY <2>1, <2>2, SMTT(20) DEF Quiet
    <2>5. \A i \in 1 .. Len(events'[p]) : events'[p][i] \in Dead => i = Len(events'[p])
      BY <2>2, SMTT(20) DEF EndOK
    <2> QED BY <2>1, <2>3, <2>4, <2>5 DEF EndOK
  <1>3. ASSUME b = a, events'[p] = e, owner'[p] = "ended" <=> owner[p] = "ended"
        PROVE  EndOK(b, events'[p], owner'[p])
    BY <1>3 DEF EndOK, Quiet
  <1>4. CASE \E q \in Peers : q # p /\ (ActorStep(q) \/ Consume(q))
    BY <1>0, <1>3, <1>4, OtherEnd
  <1>5. CASE Connect
    BY <1>0, <1>3, <1>5 DEF Connect, TypeOK
  <1>6. CASE (\E s \in Sockets : Cut(s)) \/ UNCHANGED vars
    BY <1>3, <1>6 DEF Cut, vars
  <1> QED BY <1>1, <1>2, <1>4, <1>5, <1>6 DEF Next

\* One terminal event, and nothing after it, whatever the owner, the network
\* and the peer do: the run loop's final send is skipped after
\* die_crypto_mismatch reported, and no handler runs after either.
THEOREM DeadEndsTheEvents == Spec => []DeadIsLast
  <1> DEFINE J == TypeInv /\ \A p \in Peers :
                      ExchangeOK(actor[p]) /\ EndOK(actor[p], events[p], owner[p])
  <1>1. Init => J
    <2> SUFFICES ASSUME Init PROVE J
      OBVIOUS
    <2>1. TypeInv
      BY InitType DEF Init, TypeInv, StreamInv, NewActor
    <2>2. \A p \in Peers : actor[p] = NewActor /\ events[p] = <<>> /\ owner[p] = "run"
      BY DEF Init
    <2>3. ExchangeOK(NewActor) /\ EndOK(NewActor, <<>>, "run")
      BY SMTT(20) DEF ExchangeOK, EndOK, Quiet, NewActor, None
    <2> QED BY <2>1, <2>2, <2>3
  <1>2. J /\ [Next]_vars => J'
    BY NextType, NextExchange, NextEnd
  <1>3. J => DeadIsLast
    <2> SUFFICES ASSUME J, NEW p \in Peers
                 PROVE  /\ \A i \in DOMAIN events[p] : events[p][i] \in Dead => i = Len(events[p])
                        /\ owner[p] = "ended" => events[p] = <<>>
      BY DEF DeadIsLast
    <2>1. DOMAIN events[p] = 1 .. Len(events[p])
      BY SMTT(20) DEF TypeInv, TypeOK
    <2> QED BY <2>1 DEF EndOK
  <1> QED BY <1>1, <1>2, <1>3, PTL DEF Spec

-----------------------------------------------------------------------------
(* One SocketDown for each loss. *)

\* A running actor without a socket has announced it, or is about to.
WakeOK(a, told) ==
    a.pc \in Running /\ a.live = None => a.socket_down_pending \/ a.pc = "sockdown" \/ told

\* That stays so, whatever the step.
LEMMA NextWake ==
    ASSUME TypeInv, IInv, WakeOK(actor[Client], Told), [Next]_vars
    PROVE  WakeOK(actor'[Client], Told')
  <1> DEFINE a == actor[Client]
             b == actor'[Client]
             e == events[Client]
  <1>0. /\ TypeOK /\ StreamInv /\ Client \in Peers /\ a \in BackedActor /\ e \in Seq(Event)
        /\ SupervisorInv /\ LossOK(a, Told)
    BY DEF TypeInv, TypeOK, Peers, IInv, ClientInv
  <1>t. ASSUME events'[Client] = e, owner'[Client] = owner[Client] PROVE Told' <=> Told
    BY <1>t DEF Told, Announced
  <1>w. owner'[Client] \in {"reconnect", "await"} => Told'
    BY DEF Told
  <1>1. CASE ActorStep(Client)
    <2>1. ASSUME NEW c, Handles(Client, c) PROVE WakeOK(b, Told')
      <3>1. ResumedLoss(c, b)
        BY <1>0, <2>1, HandledState
      <3>2. CASE Serving(Client) /\ owner' = owner
        <4>1. Told' <=> Told
          BY <1>t, <2>1, <3>2 DEF Handles
        <4>2. /\ a.pc \in Running /\ c.pc = a.pc
              /\ Kept(a, c) \/ Buffered(a, c) \/ Lost(a, c)
          BY <2>1, <3>2 DEF Handles, Outcome, Over, Serving, Running
        <4>3. c.socket_down_pending \in BOOLEAN /\ a.socket_down_pending \in BOOLEAN
          BY <1>0, <2>1 DEF Handles, Outcome, BackedActor
        <4>4. c.live = None => c.socket_down_pending \/ c.pc = "sockdown" \/ Told
          BY <4>2, <4>3 DEF WakeOK, Kept, Buffered, Lost
        <4> QED BY <3>1, <4>1, <4>4 DEF WakeOK, ResumedLoss
      <3>3. CASE Over(a, c, a.stream, NoLedger)
        BY <1>0, <3>1, <3>3 DEF Over, StreamInv, ResumedLoss, WakeOK
      <3>4. CASE Over(a, c, a.old, a.disconnected_bytes) /\ Reply(Client, FALSE)
        <4>1. owner[Client] = "await"
          BY <1>0, <3>4 DEF Over, SupervisorInv
        <4>2. owner'[Client] = "reconnect"
          BY <1>0, <3>4, <4>1 DEF Reply, TypeOK
        <4> QED BY <1>w, <4>2 DEF WakeOK
      <3> QED BY <2>1, <3>2, <3>3, <3>4 DEF Handles
    <2>2. CASE SendEvent(Client)
      <3>1. PICK x \in {"Packet", "SocketDown"} :
               /\ events'[Client] = Append(e, x) /\ (a.pc = "sockdown" => x = "SocketDown")
        BY <1>0, <2>2 DEF SendEvent, TypeOK
      <3>2. /\ Len(events'[Client]) = Len(e) + 1 /\ events'[Client][Len(e) + 1] = x
            /\ \A i \in 1 .. Len(e) : events'[Client][i] = e[i]
            /\ Len(e) \in Nat
        BY <1>0, <3>1, SMTT(20) DEF Event
      <3>3. Told => Told'
        <4>1. owner' = owner
          BY <2>2 DEF SendEvent
        <4>2. \A i \in Nat : Announced(i) => Announced(i)'
          BY <3>2, SMTT(20) DEF Announced
        <4> QED BY <4>1, <4>2 DEF Told
      <3>4. a.pc = "sockdown" => Told'
        <4>1. PICK n \in Nat : n = Len(e) + 1
          BY <3>2, SMTT(20)
        <4>2. n \in 1 .. Len(events'[Client]) /\ events'[Client][n] = x
          BY <3>2, <4>1, SMTT(20)
        <4>3. a.pc = "sockdown" => Announced(n)'
          BY <3>1, <4>2 DEF Announced
        <4> QED BY <4>1, <4>3 DEF Told
      <3>5. b.live = a.live /\ b.socket_down_pending = a.socket_down_pending /\ a.pc \in Running
        BY <1>0, <2>2, OtherState DEF SendEvent, Running
      <3> QED BY <3>3, <3>4, <3>5 DEF WakeOK
    <2>3. CASE RecoverStart(Client) \/ RecoverSequence(Client)
      <3>1. owner' = owner /\ (offers[Client] # <<>> \/ a.stage # "none")
        BY <2>3 DEF RecoverStart, RecoverSequence
      <3>2. owner'[Client] = "await"
        BY <1>0, <3>1 DEF SupervisorInv
      <3> QED BY <1>w, <3>2 DEF WakeOK
    <2>4. CASE Shutdown(Client) \/ DieCryptoMismatch(Client) \/ Finish(Client)
      BY <1>0, <2>4, OtherState DEF WakeOK, Running
    <2> QED BY <1>0, <1>1, <2>1, <2>2, <2>3, <2>4, Handlers
  <1>2. CASE Consume(Client)
    <2>1. /\ e # <<>> /\ events'[Client] = Tail(e) /\ actor' = actor /\ owner[Client] = "run"
          /\ Head(e) = "SocketDown" => owner'[Client] = "reconnect"
      BY <1>0, <1>2 DEF Consume, TypeOK
    <2>2. /\ Len(e) \in Nat /\ Head(e) = e[1] /\ Len(events'[Client]) = Len(e) - 1
          /\ \A i \in 1 .. Len(e) - 1 : events'[Client][i] = e[i + 1]
      BY <1>0, <2>1, SMTT(20)
    <2>3. ASSUME Told PROVE Told'
      <3>1. PICK i \in Nat : Announced(i)
        BY <2>1, <2>3 DEF Told
      <3>2. CASE i = 1
        BY <1>w, <2>1, <2>2, <3>1, <3>2 DEF Announced
      <3>3. CASE i # 1
        <4>1. i - 1 \in Nat /\ Announced(i - 1)'
          BY <2>2, <3>1, <3>3, SMTT(20) DEF Announced
        <4> QED BY <4>1 DEF Told
      <3> QED BY <3>2, <3>3
    <2> QED BY <2>1, <2>3 DEF WakeOK
  <1>3. ASSUME b = a, events'[Client] = e, owner'[Client] = owner[Client]
        PROVE  WakeOK(b, Told')
    BY <1>3, <1>t, SMTT(20) DEF WakeOK
  <1>4. CASE \E q \in Peers : q # Client /\ (ActorStep(q) \/ Consume(q))
    BY <1>0, <1>3, <1>4, OtherEnd
  <1>5. CASE Connect
    BY <1>0, <1>w, <1>5 DEF Connect, TypeOK, WakeOK
  <1>6. CASE (\E s \in Sockets : Cut(s)) \/ UNCHANGED vars
    BY <1>3, <1>6 DEF Cut, vars
  <1> QED BY <1>0, <1>1, <1>2, <1>4, <1>5, <1>6 DEF Next

-----------------------------------------------------------------------------
(* Exactly-once delivery. *)

\* Every step keeps the link in order.
LEMMA NextLink ==
    ASSUME Server \in Draining, \A p \in Peers : MaxWrites[p] < I32_LIMIT,
           IInv, TypeOK', [Next]_vars
    PROVE  LinkInv'
  <1>i. TypeOK /\ LinkInv /\ ClientInv
    BY DEF IInv
  <1>a. ASSUME NEW p \in Peers
        PROVE  /\ actor[p] \in BackedActor
               /\ SameWriter(actor[p], actor[p]) /\ SameReader(actor[p], actor[p])
               /\ SameExchange(actor[p], actor[p])
    BY <1>i DEF TypeOK, SameWriter, SameReader, SameExchange
  <1>c. ASSUME NEW p \in Peers, Serving(p),
               actor' = [actor EXCEPT ![p] = Resume(p, CloseCurrentSocket(@))],
               UNCHANGED <<sent, delivered, offers, opened, pipe>>
        PROVE  LinkInv'
    <2>1. PICK c : c = CloseCurrentSocket(actor[p])
      OBVIOUS
    <2>2. /\ c \in BackedActor /\ SameWriter(actor[p], c) /\ SameReader(actor[p], c)
          /\ SameExchange(actor[p], c) /\ c.live = None
      BY <1>a, <2>1, CloseType, CloseFacts
    <2>3. c.stage = "none" /\ c.stream = None /\ c.old = None /\ actor[p].pc \in Running
      BY <1>c, <1>i, <2>2 DEF Serving, Running, SameExchange, LinkInv, StageInv
    <2>4. actor' = [actor EXCEPT ![p] = Resume(p, c)]
      BY <1>c, <2>1
    <2> QED BY <1>c, <1>i, <2>2, <2>3, <2>4, ResumeSettles, StepSettles
  <1>s. \A p \in Peers : Selecting(p) => Serving(p)
    BY DEF Selecting, Serving
  <1>1. ASSUME NEW p \in Peers, Write(p) PROVE LinkInv'
    <2>1. PICK size \in Sizes : WriteFrom(p, actor[p], DATA, size)
      BY <1>1 DEF Write
    <2>2. Wrote(p, actor[p], DATA, size)
      BY <1>1, <1>a, <1>i, <2>1, WriteEffect DEF Write
    <2> QED BY <1>1, <1>a, <1>i, <2>2, StepWrites DEF Write
  <1>2. ASSUME NEW p \in Peers, Echo(p) PROVE LinkInv'
    <2>1. Wrote(p, actor[p], KEEP_ALIVE, 0)
      BY <1>2, <1>a, <1>i, WriteEffect DEF Echo
    <2> QED BY <1>2, <1>a, <1>i, <2>1, StepWrites DEF Echo
  <1>3. ASSUME NEW p \in Peers, ReadFrame(p) PROVE LinkInv'
    <2>1. Reads(p)
      BY <1>3 DEF ReadFrame, Reads, Selecting, NewFrames
    <2> QED BY <1>i, <2>1, StepReads
  <1>4. ASSUME NEW p \in Peers, ReadError(p) PROVE LinkInv'
    BY <1>4, <1>c, <1>s DEF ReadError
  <1>5. ASSUME NEW p \in Peers, IdleTick(p) PROVE LinkInv'
    <2>1. /\ actor[p].stage = "none" /\ actor[p].stream = None /\ actor[p].old = None
          /\ actor[p].pc \in Running
      BY <1>5, <1>i DEF IdleTick, Selecting, Running, LinkInv, StageInv
    <2> QED BY <1>5, <1>a, <1>i, <2>1, ResumeSettles, StepSettles DEF IdleTick
  <1>6. ASSUME NEW p \in Peers, KeepalivePing(p) PROVE LinkInv'
    <2>1. PICK a : a = [actor[p] EXCEPT !.waiting_on_keepalive = TRUE]
      OBVIOUS
    <2>2. /\ a \in BackedActor /\ SameWriter(actor[p], a) /\ SameReader(actor[p], a)
          /\ SameExchange(actor[p], a) /\ a.live = actor[p].live
      BY <1>a, <2>1, PingFacts
    <2>3. WriteFrom(p, a, KEEP_ALIVE, 0) /\ UNCHANGED <<delivered, offers, opened>> /\ Serving(p)
      BY <1>6, <1>s, <2>1 DEF KeepalivePing
    <2>4. Wrote(p, a, KEEP_ALIVE, 0)
      BY <1>i, <2>2, <2>3, WriteEffect
    <2> QED BY <1>i, <2>2, <2>3, <2>4, StepWrites
  <1>7. ASSUME NEW p \in Peers, KeepaliveExpire(p) PROVE LinkInv'
    BY <1>7, <1>c, <1>s DEF KeepaliveExpire
  <1>8. ASSUME NEW p \in Peers, KillSocket(p) PROVE LinkInv'
    BY <1>8, <1>c DEF KillSocket
  <1>9. ASSUME NEW p \in Peers, SendEvent(p) PROVE LinkInv'
    <2>1. Sends(p)
      BY <1>9 DEF SendEvent, Sends
    <2> QED BY <1>i, <2>1, SendSettles, StepSettles
  <1>10. ASSUME NEW p \in Peers, RecoverStart(p) PROVE LinkInv'
    <2>1. actor[p].inbox = <<>>
      <3>1. CASE p = Server
        BY <1>10, <3>1 DEF RecoverStart
      <3>2. CASE p = Client
        <4>1. Told
          BY <1>10, <1>i, <3>2 DEF RecoverStart, ClientInv, SupervisorInv, Told
        <4> QED BY <1>i, <3>2, <4>1, SMTT(30) DEF ClientInv, LossOK
      <3> QED BY <3>1, <3>2, SMTT(30) DEF Peers
    <2>2. AsI32(actor[p].reader_seq) = actor[p].reader_seq
      <3> DEFINE q == Other(p)
                 n == actor[p].reader_seq
      <3>1. q \in Peers /\ n \in Nat /\ W(q) \in Nat /\ MaxWrites[q] \in Nat /\ I32_LIMIT \in Nat
        BY <1>i, OtherFacts, Types, BoundsAssumption, LimitsAssumption, SMTT(30)
      <3>2. W(q) <= MaxWrites[q] /\ MaxWrites[q] < I32_LIMIT
        BY <1>i, <3>1 DEF LinkInv, WriterInv, WriterOK
      <3>3. n + Len(actor[p].inbox) <= W(q)
        BY <1>i DEF LinkInv, ReaderInv, InStep
      <3>4. Len(actor[p].inbox) = 0
        BY <2>1, SMTT(20)
      <3> HIDE DEF q, n
      <3>5. n < I32_LIMIT
        BY <3>1, <3>2, <3>3, <3>4, SMTT(30)
      <3> QED BY <3>5 DEF AsI32, n
    <2>3. Starts(p)
      BY <1>10, <1>i, <2>1, <2>2 DEF RecoverStart, Starts, Serving, Running, NewSeq, TypeOK
    <2> QED BY <1>i, <2>3, StepStart
  <1>11. ASSUME NEW p \in Peers, RecoverSequence(p) PROVE LinkInv'
    <2>1. Answers(p)
      BY <1>11, <1>i, ZenonT(60) DEF RecoverSequence, Answers, NewSeqCatchup, TypeOK
    <2> QED BY <1>i, <2>1, StepSequence
  <1>12. ASSUME NEW p \in Peers, RecoverDone(p) PROVE LinkInv'
    <2>1. Recovers(p)
      BY <1>12 DEF RecoverDone, Recovers, NewCatchup
    <2> QED BY <1>i, <2>1, StepDone
  <1>13. ASSUME NEW p \in Peers, RecoverFail(p) PROVE LinkInv'
    <2> DEFINE a == actor[p]
    <2>1. PICK c : c = [a EXCEPT !.live = a.old, !.stage = "none", !.stream = None, !.old = None]
      OBVIOUS
    <2>2. /\ c \in BackedActor /\ SameWriter(a, c) /\ SameReader(a, c)
          /\ c.stage = "none" /\ c.stream = None /\ c.old = None /\ c.live = a.old
      BY <1>a, <2>1, FailFacts, ZenonT(60)
    <2>3. a.pc \in Running
      <3>1. a.stage # "none"
        BY <1>13 DEF RecoverFail
      <3> QED BY <1>i, <3>1 DEF LinkInv, StageInv, Running
    <2>4. /\ actor' = [actor EXCEPT ![p] = Resume(p, c)]
          /\ UNCHANGED <<sent, delivered, offers, opened, pipe>>
      BY <1>13, <2>1, SMTT(30) DEF RecoverFail
    <2> QED BY <1>i, <2>2, <2>3, <2>4, ResumeSettles, StepSettles
  <1>14. ASSUME NEW p \in Peers, Shutdown(p) PROVE LinkInv'
    <2>1. PICK b : b = [actor[p] EXCEPT !.pc = "final", !.live = None]
      OBVIOUS
    <2>2. actor' = [actor EXCEPT ![p] = b]
      BY <1>14, <1>i, <2>1, ZenonT(60) DEF Shutdown, TypeOK
    <2>3. /\ actor[p].stage = "none" /\ UNCHANGED <<sent, delivered, opened, pipe>>
          /\ \A q \in Peers : offers'[q] \in {offers[q], <<>>}
      BY <1>14 DEF Shutdown, Serving
    <2> QED BY <1>i, <2>1, <2>2, <2>3, StopSettles, StepSettles
  <1>15. ASSUME NEW p \in Peers, DieCryptoMismatch(p) PROVE LinkInv'
    BY <1>15, <1>i DEF DieCryptoMismatch, LinkInv, ReaderInv, InStep
  <1>16. ASSUME NEW p \in Peers, Finish(p) PROVE LinkInv'
    <2>1. PICK b : b = [actor[p] EXCEPT !.pc = "stopped"]
      OBVIOUS
    <2>2. actor' = [actor EXCEPT ![p] = b]
      BY <1>16, <1>i, <2>1 DEF Finish, TypeOK
    <2>3. actor[p].stage = "none" /\ UNCHANGED <<sent, delivered, opened, pipe>>
      BY <1>16, <1>i DEF Finish, LinkInv, StageInv
    <2>4. \A q \in Peers : offers'[q] \in {offers[q], <<>>}
      BY <1>16, <1>i DEF Finish, TypeOK
    <2> QED BY <1>i, <2>1, <2>2, <2>3, <2>4, StopSettles, StepSettles
  <1>17. ASSUME NEW p \in Peers, Consume(p) PROVE LinkInv'
    BY <1>17, <1>i, StepIdle DEF Consume
  <1>18. CASE Connect
    <2>1. Opens
      BY <1>18 DEF Connect, Opens
    <2> QED BY <1>i, <2>1, StepConnect
  <1>19. ASSUME NEW s \in Sockets, Cut(s) PROVE LinkInv'
    BY <1>19, <1>i, StepIdle DEF Cut
  <1>20. CASE UNCHANGED vars
    BY <1>20, <1>i, StepIdle DEF vars
  <1> QED BY <1>1, <1>2, <1>3, <1>4, <1>5, <1>6, <1>7, <1>8, <1>9, <1>10, <1>11, <1>12,
             <1>13, <1>14, <1>15, <1>16, <1>17, <1>18, <1>19, <1>20 DEF Next, ActorStep

\* Both ends start on socket 1, with nothing written and nothing in flight.
LEMMA InitInv == Init => IInv
  <1> SUFFICES ASSUME Init PROVE IInv
    OBVIOUS
  <1>0. /\ TypeOK /\ Client \in Peers
        /\ \A p \in Peers : Other(p) \in Peers
        /\ \A p \in Peers : MaxWrites[p] \in Nat
        /\ \A s \in Sockets : s \in Nat /\ s # None
    BY InitType, OtherFacts, SocketFacts, BoundsAssumption DEF Peers
  <1>1. ASSUME NEW p \in Peers
        PROVE  /\ actor[p].writer_crypto = 0 /\ actor[p].writer_seq = 0
               /\ actor[p].reader_crypto = 0 /\ actor[p].reader_seq = 0
               /\ actor[p].backup = <<>> /\ actor[p].inbox = <<>>
               /\ actor[p].live = 1 /\ actor[p].old = None /\ actor[p].stream = None
               /\ actor[p].pc = "select" /\ actor[p].stage = "none"
               /\ ~actor[p].dead_sent /\ ~actor[p].socket_down_pending
               /\ sent[p] = <<>> /\ delivered[p] = <<>> /\ offers[p] = <<>>
               /\ events[p] = <<>> /\ owner[p] = "run"
    BY <1>1 DEF Init, NewActor
  <1>2. \A s \in Sockets : \A p \in Peers :
           /\ pipe[s][p].seq = <<>> /\ pipe[s][p].catchup = <<>> /\ pipe[s][p].frames = <<>>
    BY DEF Init, EmptyDirection
  <1>3. WriterInv
    <2>1. ASSUME NEW p \in Peers, NEW m \in Nat, MaxWrites[p] = m
          PROVE  WriterOK(p, actor[p], 0)
      <3>1. 0 <= m
        BY SMTT(20)
      <3>2. Len(actor[p].backup) = 0
        BY <1>1, SMTT(20)
      <3> QED BY <1>1, <2>1, <3>1, <3>2, SMTT(20) DEF WriterOK
    <2>2. \A p \in Peers : W(p) = 0
      BY <1>1, SMTT(20) DEF W
    <2> QED BY <1>0, <2>1, <2>2 DEF WriterInv
  <1>4. ReaderInv
    BY <1>0, <1>1, SMTT(20) DEF ReaderInv, InStep, W
  <1>5. StageInv
    BY <1>0, <1>1 DEF StageInv
  <1>6. FreshInv
    <2>1. ASSUME NEW p \in Peers, NEW s \in Sockets, Fresh(p, s) PROVE s # 1
      BY <1>0, <1>1, <2>1, SMTT(30) DEF Fresh, Init
    <2> QED BY <1>0, <1>1, <1>2, <2>1, SMTT(20) DEF FreshInv
  <1>7. OffersInv
    BY <1>1, SMTT(30) DEF OffersInv
  <1>8. HeaderInv
    BY <1>0, <1>1, SMTT(20) DEF HeaderInv
  <1>9. FramesInv
    BY <1>0, <1>1, <1>2, SMTT(20) DEF FramesInv, Continues, Base, W
  <1>10. CatchupInv
    BY <1>0, <1>1, SMTT(20) DEF CatchupInv
  <1>11. ~Told /\ SupervisorInv
    BY <1>0, <1>1, SMTT(20) DEF Told, SupervisorInv, Announced
  <1>12. ClientInv
    BY <1>0, <1>1, <1>11 DEF ClientInv, LossOK
  <1> QED BY <1>0, <1>3, <1>4, <1>5, <1>6, <1>7, <1>8, <1>9, <1>10, <1>12, SMTT(30) DEF IInv, LinkInv

\* Every step of a link whose server drains its inbox before a recovery, and
\* whose packet numbers fit the i32 of a SequenceHeader, keeps the invariant.
LEMMA NextInv ==
    ASSUME Server \in Draining, \A p \in Peers : MaxWrites[p] < I32_LIMIT,
           TypeInv, IInv, [Next]_vars
    PROVE  TypeInv' /\ IInv'
  <1>1. TypeInv' /\ TypeOK'
    BY NextType DEF TypeInv
  <1>2. LinkInv' /\ ClientInv'
    BY <1>1, NextLink, NextClient
  <1> QED BY <1>1, <1>2 DEF IInv

\* The inductive invariant of Backed holds throughout.
LEMMA SpecInv ==
    ASSUME Server \in Draining, \A p \in Peers : MaxWrites[p] < I32_LIMIT
    PROVE  Spec => []IInv
  <1>1. Init => TypeInv /\ IInv
    BY InitType, InitInv, SMTT(20) DEF Init, TypeInv, StreamInv, NewActor
  <1>2. TypeInv /\ IInv /\ [Next]_vars => TypeInv' /\ IInv'
    BY NextInv
  <1> QED BY <1>1, <1>2, PTL DEF Spec

\* What deliver_inbox hands to the owner is packets 1, 2, 3, ... of the peer,
\* each once, however writes, reads, losses, reconnects and failed recoveries
\* interleave: for any payload sizes, queue depths, budgets and number of
\* sockets, as long as the server's owner drains its inbox before a recovery
\* and a packet number fits the i32 that carries it.
THEOREM DeliveredExactlyOnce ==
    ASSUME Server \in Draining, \A p \in Peers : MaxWrites[p] < I32_LIMIT
    PROVE  Spec => []ExactlyOnce
  <1>1. IInv => ExactlyOnce
    <2>1. ASSUME IInv, NEW p \in Peers
          PROVE  /\ \A i \in DOMAIN delivered[p] : delivered[p][i] = i
                 /\ Len(delivered[p]) <= Len(sent[Other(p)])
      <3>1. InStep(actor[p], delivered[p], W(Other(p)))
        BY <2>1 DEF IInv, LinkInv, ReaderInv
      <3>2. /\ delivered[p] \in Seq(Nat) /\ Other(p) \in Peers
            /\ W(Other(p)) \in Nat /\ Len(delivered[p]) \in Nat
            /\ actor[p].reader_seq \in Nat /\ Len(actor[p].inbox) \in Nat
        BY <2>1, OtherFacts, Types, SeqLen, SMTT(30) DEF IInv, TypeOK
      <3>3. DOMAIN delivered[p] = 1 .. Len(delivered[p])
        BY <3>2, SMTT(20)
      <3>4. Len(delivered[p]) <= W(Other(p))
        BY <3>1, <3>2, SMTT(30) DEF InStep
      <3> QED BY <3>1, <3>3, <3>4 DEF InStep, W
    <2> QED BY <2>1 DEF ExactlyOnce
  <1> QED BY <1>1, SpecInv, PTL

\* The nonce streams of the two ends never come apart, under the same two
\* conditions: no packet fails to decrypt, and die_crypto_mismatch is not reached.
THEOREM NonceStreamsAgree ==
    ASSUME Server \in Draining, \A p \in Peers : MaxWrites[p] < I32_LIMIT
    PROVE  Spec => []NoCryptoMismatch
  <1>1. IInv => NoCryptoMismatch
    BY DEF IInv, LinkInv, ReaderInv, InStep, NoCryptoMismatch
  <1> QED BY <1>1, SpecInv, PTL

\* A header that is about to be read names what its sender has read, so a peer
\* that misses only packets still in the backup is never refused.
THEOREM HeadersAccepted ==
    ASSUME Server \in Draining, \A p \in Peers : MaxWrites[p] < I32_LIMIT
    PROVE  Spec => []HeaderAccepted
  <1>1. IInv => HeaderAccepted
    <2>1. SUFFICES ASSUME IInv, NEW p \in Peers, NEW q, q = Other(p),
                          actor[p].stage = "seq", actor[q].stage # "none",
                          actor[q].stream = actor[p].stream, pipe[actor[p].stream][p].seq # <<>>,
                          actor[p].writer_seq - actor[q].reader_seq <= Len(actor[p].backup)
                   PROVE  CanRecover(actor[p], Head(pipe[actor[p].stream][p].seq))
      BY DEF HeaderAccepted
    <2>2. q \in Peers /\ Other(q) = p
      BY <2>1, OtherFacts
    <2>3. actor[p].stream \in Sockets
      <3>1. actor[p].stream # None /\ actor[p] \in BackedActor
        BY <2>1 DEF IInv, LinkInv, StageInv, TypeOK
      <3> QED BY <3>1 DEF BackedActor
    <2>4. Head(pipe[actor[p].stream][p].seq) = actor[q].reader_seq
      BY <2>1, <2>2, <2>3, SMTT(20) DEF IInv, LinkInv, HeaderInv
    <2>5. actor[q].reader_seq + Len(actor[q].inbox) <= W(p)
      BY <2>1, <2>2 DEF IInv, LinkInv, ReaderInv, InStep
    <2>6. actor[p].writer_seq = W(p)
      BY <2>1 DEF IInv, LinkInv, WriterInv, WriterOK
    <2>7. W(p) \in Nat /\ actor[q].reader_seq \in Nat /\ Len(actor[q].inbox) \in Nat
      BY <2>1, <2>2, Types, SMTT(30) DEF IInv
    <2>8. W(p) - actor[q].reader_seq >= 0
      BY <2>5, <2>7, SMTT(20)
    <2> QED BY <2>1, <2>4, <2>6, <2>8 DEF CanRecover, ToRecover
  <1> QED BY <1>1, SpecInv, PTL

\* The empty set has no element.
LEMMA CountNone == Cardinality({}) = 0
  <1> DEFINE Size(f, T) == IF T = {} THEN 0 ELSE 1 + f[T \ {CHOOSE x : x \in T}]
             Counts(f) == f = [T \in SUBSET {} |-> Size(f, T)]
             c == CHOOSE f : Counts(f)
             z == [T \in SUBSET {} |-> 0]
  <1>1. Counts(z)
    <2>1. \A T \in SUBSET {} : Size(z, T) = 0
      OBVIOUS
    <2> QED BY <2>1
  <1>2. Counts(c)
    BY <1>1
  <1>3. Cardinality({}) = c[{}]
    BY DEF Cardinality
  <1> HIDE DEF c
  <1>4. c[{}] = Size(c, {})
    BY <1>2
  <1> QED BY <1>3, <1>4

\* A singleton has one.
LEMMA CountOne == ASSUME NEW e PROVE Cardinality({e}) = 1
  <1> DEFINE Size(f, T) == IF T = {} THEN 0 ELSE 1 + f[T \ {CHOOSE x : x \in T}]
             Counts(f) == f = [T \in SUBSET {e} |-> Size(f, T)]
             c == CHOOSE f : Counts(f)
             z == [T \in SUBSET {e} |-> IF T = {} THEN 0 ELSE 1]
  <1>0. (CHOOSE x : x \in {e}) = e
    OBVIOUS
  <1>1. Counts(z)
    <2>1. ASSUME NEW T \in SUBSET {e}, T # {} PROVE Size(z, T) = 1
      <3>1. T = {e}
        BY <2>1
      <3>2. T \ {CHOOSE x : x \in T} = {}
        BY <1>0, <3>1
      <3>3. z[{}] = 0
        OBVIOUS
      <3>4. 1 + 0 = 1
        BY SMTT(20)
      <3> QED BY <2>1, <3>2, <3>3, <3>4
    <2>2. \A T \in SUBSET {e} : Size(z, T) = IF T = {} THEN 0 ELSE 1
      BY <2>1
    <2> QED BY <2>2
  <1>2. Counts(c)
    BY <1>1
  <1>3. Cardinality({e}) = c[{e}]
    BY DEF Cardinality
  <1> HIDE DEF c
  <1>4. c[{}] = Size(c, {}) /\ c[{e}] = Size(c, {e})
    BY <1>2
  <1>5. {e} \ {CHOOSE x : x \in {e}} = {}
    BY <1>0
  <1>6. c[{}] = 0 /\ c[{e}] = 1 + c[{}]
    BY <1>4, <1>5
  <1> QED BY <1>3, <1>6, SMTT(20)

\* No lost and no doubled wake-up: while the client's actor runs without a socket
\* exactly one SocketDown is on its way to the supervisor or being handled
\* there, and none while it has one, for any interleaving of failed writes,
\* read errors, keepalive timeouts, failed recoveries and reconnects.
THEOREM OneSocketDownPerLoss ==
    ASSUME Server \in Draining, \A p \in Peers : MaxWrites[p] < I32_LIMIT
    PROVE  Spec => []SocketDownOnce
  <1> DEFINE J == TypeInv /\ IInv /\ WakeOK(actor[Client], Told)
  <1>1. Init => J
    <2> SUFFICES ASSUME Init PROVE J
      OBVIOUS
    <2>1. TypeInv /\ IInv
      BY InitType, InitInv DEF Init, TypeInv, StreamInv, NewActor
    <2>2. actor[Client].live = 1
      BY DEF Init, NewActor, Peers
    <2> QED BY <2>1, <2>2, SMTT(20) DEF WakeOK, None
  <1>2. J /\ [Next]_vars => J'
    BY NextInv, NextWake
  <1>3. J => SocketDownOnce
    <2> SUFFICES ASSUME J, actor[Client].pc \in Running
                 PROVE  Losses = IF actor[Client].live = None THEN 1 ELSE 0
      BY DEF SocketDownOnce, Running
    <2> DEFINE a == actor[Client]
               A == {i \in DOMAIN events[Client] : events[Client][i] = "SocketDown"}
               o == owner[Client] \in {"reconnect", "await"}
               x == IF a.socket_down_pending THEN 1 ELSE 0
               y == IF a.pc = "sockdown" THEN 1 ELSE 0
               z == IF o THEN 1 ELSE 0
    <2>1. A = {i \in Nat : Announced(i)}
      BY SMTT(20) DEF Announced, TypeInv, TypeOK, Peers
    <2>2. CASE \E i \in Nat : Announced(i)
      <3>1. PICK i \in Nat : Announced(i)
        BY <2>2
      <3>2. A = {i}
        BY <2>1, <3>1 DEF IInv, ClientInv, SupervisorInv
      <3>3. Cardinality(A) = 1
        BY <3>2, CountOne
      <3>4. ~o /\ ~a.socket_down_pending /\ a.pc # "sockdown" /\ a.live = None
        BY <3>1 DEF IInv, ClientInv, SupervisorInv, LossOK, Told
      <3> QED BY <3>3, <3>4, SMTT(20) DEF Losses
    <2>3. CASE \A i \in Nat : ~Announced(i)
      <3>1. Cardinality(A) = 0
        <4>1. A = {}
          BY <2>1, <2>3
        <4> QED BY <4>1, CountNone
      <3>2. Told <=> o
        BY <2>3 DEF Told
      <3>3. x + y + z = IF a.live = None THEN 1 ELSE 0
        BY <3>2, SMTT(20) DEF IInv, ClientInv, LossOK, WakeOK, Running
      <3>4. Losses = x + y + Cardinality(A) + z
        BY DEF Losses
      <3> HIDE DEF A, x, y, z
      <3>5. x + y + 0 + z = x + y + z
        BY SMTT(20) DEF x, y, z
      <3> QED BY <3>1, <3>3, <3>4, <3>5
    <2> QED BY <2>2, <2>3
  <1> QED BY <1>1, <1>2, <1>3, PTL DEF Spec

-----------------------------------------------------------------------------
(* Backed implements Link. *)

\* What a step may do to the two histories: p writes x; p is handed the packet it
\* decrypted last.
Writes(p, x) ==
    /\ Len(sent[p]) < MaxWrites[p]
    /\ sent' = [sent EXCEPT ![p] = Append(@, x)]
    /\ UNCHANGED delivered

Hands(p) ==
    /\ actor[p].pc = "deliver"
    /\ delivered' = [delivered EXCEPT ![p] = Append(@, actor[p].reader_crypto)]
    /\ UNCHANGED sent

\* Every step is one of these, or changes neither history.
LEMMA StepVisible ==
    ASSUME TypeOK, [Next]_vars
    PROVE  \/ UNCHANGED <<sent, delivered>>
           \/ \E p \in Peers : \/ \E x \in Packet : Writes(p, x)
                               \/ Hands(p)
  <1> DEFINE Goal == \/ UNCHANGED <<sent, delivered>>
                     \/ \E p \in Peers : \/ \E x \in Packet : Writes(p, x)
                                         \/ Hands(p)
  <1>1. ASSUME NEW p \in Peers, NEW a, NEW hdr \in {KEEP_ALIVE, DATA}, NEW size \in Sizes \cup {0},
               WriteFrom(p, a, hdr, size), UNCHANGED delivered
        PROVE  Goal
    <2>1. [hdr |-> hdr, len |-> size + Overhead] \in Packet
      BY DEF Packet
    <2>2. \/ UNCHANGED sent
          \/ /\ Len(sent[p]) < MaxWrites[p]
             /\ sent' = [sent EXCEPT ![p] = Append(@, [hdr |-> hdr, len |-> size + Overhead])]
      BY <1>1 DEF WriteFrom
    <2> QED BY <1>1, <2>1, <2>2 DEF Writes
  <1>2. ASSUME NEW p \in Peers, Write(p) PROVE Goal
    BY <1>1, <1>2 DEF Write
  <1>3. ASSUME NEW p \in Peers, Echo(p) PROVE Goal
    BY <1>1, <1>3 DEF Echo
  <1>4. ASSUME NEW p \in Peers, KeepalivePing(p) PROVE Goal
    BY <1>1, <1>4 DEF KeepalivePing
  <1>5. ASSUME NEW p \in Peers, SendEvent(p) PROVE Goal
    BY <1>5 DEF SendEvent, Hands
  <1>6. ASSUME NEW p \in Peers,
               \/ ReadFrame(p) \/ ReadError(p) \/ IdleTick(p) \/ KeepaliveExpire(p) \/ KillSocket(p)
               \/ RecoverStart(p) \/ RecoverSequence(p) \/ RecoverDone(p) \/ RecoverFail(p)
               \/ Shutdown(p) \/ DieCryptoMismatch(p) \/ Finish(p) \/ Consume(p)
        PROVE  Goal
    BY <1>6 DEF ReadFrame, ReadError, IdleTick, KeepaliveExpire, KillSocket, RecoverStart,
        RecoverSequence, RecoverDone, RecoverFail, Shutdown, DieCryptoMismatch, Finish, Consume
  <1>7. ASSUME Connect PROVE Goal
    BY <1>7 DEF Connect
  <1>8. ASSUME NEW s \in Sockets, Cut(s) PROVE Goal
    BY <1>8 DEF Cut
  <1>9. ASSUME UNCHANGED vars PROVE Goal
    BY <1>9 DEF vars
  <1> HIDE DEF Goal
  <1>10. ASSUME NEW p \in Peers, ActorStep(p) \/ Consume(p) PROVE Goal
    BY <1>2, <1>3, <1>4, <1>5, <1>6, <1>10 DEF ActorStep
  <1>11. \/ UNCHANGED vars \/ Connect \/ (\E s \in Sockets : Cut(s))
         \/ \E p \in Peers : ActorStep(p) \/ Consume(p)
    BY DEF Next
  <1>12. Goal
    BY <1>7, <1>8, <1>9, <1>10, <1>11
  <1> QED BY <1>12 DEF Goal

\* The stamps of a log that grows by x.
LEMMA StampsAppend ==
    ASSUME NEW S, NEW s \in Seq(S), NEW x \in S
    PROVE  [i \in DOMAIN Append(s, x) |-> <<i, Append(s, x)[i]>>]
             = Append([i \in DOMAIN s |-> <<i, s[i]>>], <<Len(s) + 1, x>>)
  <1> DEFINE f == [i \in DOMAIN s |-> <<i, s[i]>>]
             g == [i \in DOMAIN Append(s, x) |-> <<i, Append(s, x)[i]>>]
             y == <<Len(s) + 1, x>>
  <1>1. f \in Seq(Nat \X S) /\ Len(f) = Len(s) /\ y \in Nat \X S
    BY SMTT(20)
  <1>2. /\ Append(f, y) \in Seq(Nat \X S) /\ Len(Append(f, y)) = Len(s) + 1
        /\ \A i \in 1 .. Len(s) : Append(f, y)[i] = f[i]
        /\ Append(f, y)[Len(s) + 1] = y
    BY <1>1, SeqAppend, SMTT(20)
  <1>3. /\ DOMAIN Append(s, x) = 1 .. Len(s) + 1
        /\ \A i \in 1 .. Len(s) : Append(s, x)[i] = s[i]
        /\ Append(s, x)[Len(s) + 1] = x
    BY SeqAppend, SMTT(20)
  <1>4. g \in Seq(Nat \X S) /\ Len(g) = Len(s) + 1
    BY <1>3, SMTT(20)
  <1>5. \A i \in 1 .. Len(s) + 1 : g[i] = Append(f, y)[i]
    BY <1>2, <1>3, SMTT(20)
  <1> HIDE DEF f, g, y
  <1>6. g = Append(f, y)
    BY <1>2, <1>4, <1>5, SMTT(20)
  <1> QED BY <1>6 DEF f, g, y

\* Those of the packets handed over, in a log that grows by x, and when the next
\* packet is handed over.
LEMMA HandedAppend ==
    ASSUME NEW S, NEW s \in Seq(S), NEW x \in S, NEW d \in Seq(Nat),
           \A i \in DOMAIN d : d[i] = i, Len(d) <= Len(s)
    PROVE  [i \in DOMAIN d |-> <<d[i], Append(s, x)[d[i]]>>] = [i \in DOMAIN d |-> <<d[i], s[d[i]]>>]
  <1>1. \A i \in DOMAIN d : d[i] \in 1 .. Len(s)
    BY SeqLen, SMTT(20)
  <1>2. \A i \in DOMAIN d : Append(s, x)[d[i]] = s[d[i]]
    BY <1>1, SeqAppend, SMTT(20)
  <1> QED BY <1>2

Numbered(s) == [i \in DOMAIN s |-> <<i, s[i]>>]
Picked(d, s) == [i \in DOMAIN d |-> <<d[i], s[d[i]]>>]

\* Delivering the next number hands over the next packet written.
LEMMA HandedNext ==
    ASSUME NEW S, NEW s \in Seq(S), NEW d \in Seq(Nat), NEW k \in Nat, k = Len(d) + 1,
           \A i \in DOMAIN d : d[i] = i, k <= Len(s)
    PROVE  /\ Picked(Append(d, k), s) = Append(Picked(d, s), <<k, s[k]>>)
           /\ Len(Picked(d, s)) = Len(d)
           /\ Numbered(s)[k] = <<k, s[k]>>
           /\ Len(Numbered(s)) = Len(s)
  <1> DEFINE f == [i \in DOMAIN d |-> <<d[i], s[d[i]]>>]
             g == [i \in DOMAIN Append(d, k) |-> <<Append(d, k)[i], s[Append(d, k)[i]]>>]
             y == <<k, s[k]>>
  <1>1. Len(d) \in Nat /\ DOMAIN d = 1 .. Len(d) /\ Len(s) \in Nat /\ DOMAIN s = 1 .. Len(s)
    BY SeqLen
  <1>2. f = [i \in 1 .. Len(d) |-> <<i, s[i]>>]
    BY <1>1
  <1>3. \A i \in 1 .. Len(s) : <<i, s[i]>> \in Nat \X S
    BY <1>1, SMTT(20)
  <1>4. f \in Seq(Nat \X S) /\ Len(f) = Len(d) /\ y \in Nat \X S
    BY <1>1, <1>2, <1>3, SMTT(20)
  <1>5. /\ Append(f, y) \in Seq(Nat \X S) /\ Len(Append(f, y)) = Len(d) + 1
        /\ \A i \in 1 .. Len(d) : Append(f, y)[i] = f[i]
        /\ Append(f, y)[Len(d) + 1] = y
    BY <1>4, SeqAppend, SMTT(20)
  <1>6. /\ Append(d, k) \in Seq(Nat) /\ Len(Append(d, k)) = Len(d) + 1
        /\ \A i \in 1 .. Len(d) : Append(d, k)[i] = d[i]
        /\ Append(d, k)[Len(d) + 1] = k
    BY SeqAppend, SMTT(20)
  <1>7. DOMAIN Append(d, k) = 1 .. k /\ \A i \in 1 .. k : Append(d, k)[i] = i
    BY <1>1, <1>6, SeqLen, SMTT(20)
  <1>8. g = [i \in 1 .. k |-> <<i, s[i]>>]
    BY <1>7
  <1>9. g \in Seq(Nat \X S) /\ Len(g) = k
    BY <1>1, <1>3, <1>8, SMTT(20)
  <1>10. /\ \A i \in 1 .. Len(d) : f[i] = <<i, s[i]>>
         /\ \A i \in 1 .. k : g[i] = <<i, s[i]>>
         /\ y = <<k, s[k]>>
    BY <1>2, <1>8
  <1>12. /\ [i \in DOMAIN s |-> <<i, s[i]>>][k] = y
         /\ Len([i \in DOMAIN s |-> <<i, s[i]>>]) = Len(s)
    BY <1>1, SMTT(20)
  <1> DEFINE h == Append(f, y)
  <1>11. h \in Seq(Nat \X S) /\ Len(h) = k /\ (\A i \in 1 .. Len(d) : h[i] = f[i]) /\ h[k] = y
    BY <1>5
  <1> HIDE DEF f, g, y, h
  <1>13. g = h
    <2>1. ASSUME NEW i \in 1 .. k PROVE g[i] = h[i]
      <3>1. CASE i = k
        BY <1>10, <1>11, <3>1
      <3>2. CASE i # k
        <4>1. i \in 1 .. Len(d)
          BY <1>1, <3>2, SMTT(20)
        <4> QED BY <1>10, <1>11, <4>1
      <3> QED BY <3>1, <3>2
    <2> QED BY <1>9, <1>11, <2>1, SMTT(20)
  <1> QED BY <1>4, <1>12, <1>13 DEF f, g, y, h, Numbered, Picked

\* A family of logs in which only p's grew, by z.
LEMMA OnlyGrew ==
    ASSUME NEW P, NEW p \in P, NEW f, NEW g, NEW z,
           f = [r \in P |-> f[r]], g = [r \in P |-> g[r]],
           g[p] = Append(f[p], z), \A r \in P \ {p} : g[r] = f[r]
    PROVE  g = [f EXCEPT ![p] = Append(@, z)]
  OBVIOUS

\* A write adds a stamped packet to the abstract log, and what was handed over
\* before is found there unchanged.
LEMMA WriteImplements ==
    ASSUME TypeOK, ExactlyOnce, NEW p \in Peers, NEW x \in Packet, Writes(p, x)
    PROVE  L!Write(p)
  <1>1. /\ sent \in [Peers -> Seq(Packet)] /\ delivered \in [Peers -> Seq(Nat)]
        /\ sent[p] \in Seq(Packet) /\ Len(sent[p]) \in Nat
    BY SeqLen DEF TypeOK
  <1>2. /\ sent'[p] = Append(sent[p], x) /\ \A q \in Peers \ {p} : sent'[q] = sent[q]
        /\ delivered' = delivered
    BY <1>1 DEF Writes
  <1>3. Handed' = Handed
    <2>1. ASSUME NEW q \in Peers
          PROVE  [i \in DOMAIN delivered[q] |-> <<delivered[q][i], sent'[Other(q)][delivered[q][i]]>>]
                   = [i \in DOMAIN delivered[q] |-> <<delivered[q][i], sent[Other(q)][delivered[q][i]]>>]
      <3>1. CASE Other(q) # p
        BY <1>2, <3>1, OtherFacts
      <3>2. CASE Other(q) = p
        <4>1. /\ delivered[q] \in Seq(Nat) /\ Len(delivered[q]) <= Len(sent[p])
              /\ \A i \in DOMAIN delivered[q] : delivered[q][i] = i
          BY <1>1, <3>2 DEF ExactlyOnce
        <4>2. [i \in DOMAIN delivered[q] |-> <<delivered[q][i], Append(sent[p], x)[delivered[q][i]]>>]
                = [i \in DOMAIN delivered[q] |-> <<delivered[q][i], sent[p][delivered[q][i]]>>]
          BY <1>1, <4>1, HandedAppend, SMTT(20)
        <4> QED BY <1>2, <3>2, <4>2
      <3> QED BY <3>1, <3>2
    <2>2. Handed = [q \in Peers |-> [i \in DOMAIN delivered[q] |->
                       <<delivered[q][i], sent[Other(q)][delivered[q][i]]>>]]
      BY DEF Handed, Stamped
    <2>3. Handed' = [q \in Peers |-> [i \in DOMAIN delivered[q] |->
                       <<delivered[q][i], sent'[Other(q)][delivered[q][i]]>>]]
      BY <1>2 DEF Handed, Stamped
    <2> QED BY <2>1, <2>2, <2>3
  <1> DEFINE y == <<Len(sent[p]) + 1, x>>
  <1>4. \A q \in Peers : Written[q] = [i \in DOMAIN sent[q] |-> <<i, sent[q][i]>>]
    BY DEF Written, Stamped
  <1>5. Written' = [q \in Peers |-> [i \in DOMAIN sent'[q] |-> <<i, sent'[q][i]>>]]
    BY DEF Written, Stamped
  <1>6. [i \in DOMAIN sent'[p] |-> <<i, sent'[p][i]>>] = Append(Written[p], y)
    <2>1. [i \in DOMAIN Append(sent[p], x) |-> <<i, Append(sent[p], x)[i]>>]
             = Append([i \in DOMAIN sent[p] |-> <<i, sent[p][i]>>], y)
      BY <1>1, StampsAppend
    <2> QED BY <1>2, <1>4, <2>1, ZenonT(60)
  <1>7. \A q \in Peers \ {p} : [i \in DOMAIN sent'[q] |-> <<i, sent'[q][i]>>] = Written[q]
    BY <1>2, <1>4
  <1> HIDE DEF y
  <1>8. Written' = [Written EXCEPT ![p] = Append(@, y)]
    <2>1. Written = [q \in Peers |-> Written[q]]
      BY DEF Written
    <2>2. /\ Written' = [q \in Peers |-> Written'[q]] /\ Written'[p] = Append(Written[p], y)
          /\ \A q \in Peers \ {p} : Written'[q] = Written[q]
      BY <1>5, <1>6, <1>7, ZenonT(60)
    <2> QED BY <2>1, <2>2, OnlyGrew, ZenonT(60)
  <1>9. y \in Stamps
    <2>1. Len(sent[p]) < MaxWrites[p]
      BY DEF Writes
    <2>2. MaxWrites[Client] \in Nat /\ MaxWrites[Server] \in Nat /\ (p = Client \/ p = Server)
      BY BoundsAssumption DEF Peers
    <2>3. Len(sent[p]) + 1 \in 1 .. MaxWrites[Client] + MaxWrites[Server]
      BY <1>1, <2>1, <2>2, SMTT(20)
    <2> QED BY <2>3 DEF Stamps, y
  <1>10. Len(Written'[p]) = Len(Written[p]) + 1
    <2>1. Written'[p] = [i \in DOMAIN Append(sent[p], x) |-> <<i, Append(sent[p], x)[i]>>]
      BY <1>2, <1>5
    <2>2. DOMAIN sent[p] = 1 .. Len(sent[p]) /\ DOMAIN Append(sent[p], x) = 1 .. Len(sent[p]) + 1
      BY <1>1, SeqAppend, SeqLen, SMTT(20)
    <2>3. Len(Written'[p]) = Len(sent[p]) + 1
      <3> DEFINE n == Len(sent[p]) + 1
                 z == Append(sent[p], x)
      <3>1. Written'[p] = [i \in 1 .. n |-> <<i, z[i]>>] /\ n \in Nat
        BY <1>1, <2>1, <2>2, SMTT(20)
      <3> HIDE DEF n, z
      <3> QED BY <3>1, SMTT(20) DEF n
    <2>4. Len(Written[p]) = Len(sent[p])
      <3> DEFINE n == Len(sent[p])
                 z == sent[p]
      <3>1. Written[p] = [i \in 1 .. n |-> <<i, z[i]>>] /\ n \in Nat
        BY <1>1, <1>4, <2>2
      <3> HIDE DEF n, z
      <3> QED BY <3>1, SMTT(20) DEF n
    <2> QED BY <2>3, <2>4
  <1> QED BY <1>3, <1>8, <1>9, <1>10 DEF L!Write

\* The packet handed over is the next one of the peer's abstract log.
LEMMA HandImplements ==
    ASSUME TypeOK, LinkInv, ExactlyOnce, NEW p \in Peers, Hands(p)
    PROVE  L!Read(p)
  <1>0. PICK d, q, k, t, z : /\ d = delivered[p] /\ q = Other(p) /\ t = sent[q]
                             /\ k = Len(d) + 1 /\ z = <<k, t[k]>>
    OBVIOUS
  <1>1. /\ delivered \in [Peers -> Seq(Nat)]
        /\ d \in Seq(Nat) /\ q \in Peers /\ t \in Seq(Packet) /\ Len(d) \in Nat
        /\ Len(t) \in Nat /\ k \in Nat
    BY <1>0, SeqLen, OtherFacts, SMTT(20) DEF TypeOK
  <1>2. actor[p].reader_crypto = k /\ k <= Len(t)
    <2>1. InStep(actor[p], d, Len(t))
      BY <1>0 DEF LinkInv, ReaderInv, W
    <2>2. actor[p].reader_seq \in Nat /\ Len(actor[p].inbox) \in Nat
      BY Types, SeqLen, SMTT(30)
    <2>3. actor[p].reader_crypto = k /\ actor[p].reader_seq = k
      BY <1>0, <1>1, <2>1, <2>2 DEF InStep, Hands
    <2>4. actor[p].reader_seq + Len(actor[p].inbox) <= Len(t)
      BY <2>1 DEF InStep
    <2> QED BY <1>1, <2>2, <2>3, <2>4, SMTT(20)
  <1>3. \A i \in DOMAIN d : d[i] = i
    BY <1>0 DEF ExactlyOnce
  <1>4. Written' = Written /\ Written[q] = [i \in DOMAIN t |-> <<i, t[i]>>]
    BY <1>0, <1>1 DEF Written, Stamped, Hands
  <1>5. /\ sent' = sent /\ delivered'[p] = Append(d, k)
        /\ \A r \in Peers \ {p} : delivered'[r] = delivered[r]
    BY <1>0, <1>1, <1>2 DEF Hands
  <1>6. Handed = [r \in Peers |-> [i \in DOMAIN delivered[r] |->
                    <<delivered[r][i], sent[Other(r)][delivered[r][i]]>>]]
    BY DEF Handed, Stamped
  <1>7. Handed' = [r \in Peers |-> [i \in DOMAIN delivered'[r] |->
                    <<delivered'[r][i], sent[Other(r)][delivered'[r][i]]>>]]
    BY <1>5 DEF Handed, Stamped
  <1>8. Handed[p] = [i \in DOMAIN d |-> <<d[i], t[d[i]]>>]
    BY <1>0, <1>6
  <1>9. /\ [i \in DOMAIN Append(d, k) |-> <<Append(d, k)[i], t[Append(d, k)[i]]>>] = Append(Handed[p], z)
        /\ Len(Handed[p]) = Len(d) /\ Written[q][k] = z /\ Len(Written[q]) = Len(t)
    <2>1. k = Len(d) + 1
      BY <1>0
    <2>2. /\ Picked(Append(d, k), t) = Append(Picked(d, t), <<k, t[k]>>)
          /\ Len(Picked(d, t)) = Len(d)
          /\ Numbered(t)[k] = <<k, t[k]>>
          /\ Len(Numbered(t)) = Len(t)
      BY <1>1, <1>2, <1>3, <2>1, HandedNext
    <2> QED BY <1>0, <1>4, <1>8, <2>2 DEF Picked, Numbered
  <1>10. Handed' = [Handed EXCEPT ![p] = Append(@, z)]
    <2>1. [i \in DOMAIN delivered'[p] |-> <<delivered'[p][i], sent[Other(p)][delivered'[p][i]]>>]
            = Append(Handed[p], z)
      BY <1>0, <1>5, <1>9
    <2>2. ASSUME NEW r \in Peers \ {p}
          PROVE  [i \in DOMAIN delivered'[r] |-> <<delivered'[r][i], sent[Other(r)][delivered'[r][i]]>>]
                   = Handed[r]
      BY <1>5, <1>6
    <2>3. Handed = [r \in Peers |-> Handed[r]]
      BY <1>6
    <2>4. /\ Handed' = [r \in Peers |-> Handed'[r]] /\ Handed'[p] = Append(Handed[p], z)
          /\ \A r \in Peers \ {p} : Handed'[r] = Handed[r]
      BY <1>7, <2>1, <2>2, ZenonT(60)
    <2> QED BY <2>3, <2>4, OnlyGrew, ZenonT(60)
  <1>11. Len(Handed[p]) < Len(Written[q])
    <2>1. /\ Len(Handed[p]) = Len(d) /\ Len(Written[q]) = Len(t) /\ k = Len(d) + 1 /\ k <= Len(t)
          /\ Len(d) \in Nat /\ Len(t) \in Nat
      BY <1>0, <1>1, <1>2, <1>9
    <2> QED BY <2>1, SMTT(20)
  <1> QED BY <1>0, <1>4, <1>9, <1>10, <1>11 DEF L!Read

\* The pair of actors implements the abstract link of module Link: whatever the
\* actors, the owners and the network do is a write, the hand-over of the next
\* packet, or nothing an application can see.  Same conditions as above.
THEOREM BackedImplementsLink ==
    ASSUME Server \in Draining, \A p \in Peers : MaxWrites[p] < I32_LIMIT
    PROVE  Spec => ImplementsLink
  <1>1. Init => L!Init
    BY SMTT(20) DEF Init, L!Init, Written, Handed, Stamped
  <1>2. IInv /\ ExactlyOnce /\ [Next]_vars => [L!Next]_L!vars
    <2> SUFFICES ASSUME IInv, ExactlyOnce, [Next]_vars PROVE [L!Next]_L!vars
      OBVIOUS
    <2>1. TypeOK /\ LinkInv
      BY DEF IInv
    <2>2. CASE UNCHANGED <<sent, delivered>>
      BY <2>2 DEF L!vars, Written, Handed, Stamped
    <2>3. ASSUME NEW p \in Peers, NEW x \in Packet, Writes(p, x) PROVE L!Next
      BY <2>1, <2>3, WriteImplements DEF L!Next
    <2>4. ASSUME NEW p \in Peers, Hands(p) PROVE L!Next
      BY <2>1, <2>4, HandImplements DEF L!Next
    <2> QED BY <2>1, <2>2, <2>3, <2>4, StepVisible
  <1> QED BY <1>1, <1>2, SpecInv, DeliveredExactlyOnce, PTL DEF Spec, ImplementsLink, L!Spec

=============================================================================
