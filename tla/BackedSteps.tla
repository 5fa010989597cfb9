---------------------------- MODULE BackedSteps ----------------------------
(***************************************************************************)
(* What the operators of BackedState and the handlers of an actor do, for  *)
(* any payload sizes, queue depths, budgets and numbers of packets and     *)
(* sockets: a packet is sealed once and written or kept, a frame is read   *)
(* in order, the header of a recover exchange is answered by exactly the   *)
(* packets the peer lacks, and the state stays well typed.                 *)
(***************************************************************************)
EXTENDS Backed, BackedInv, TLAPS

\* Most leaves are first-order; those that need more cite SMT.
USE ZenonT(20)

\* Sequences: length and elements, head and tail, append, concatenation, and
\* what is left of a sequence without its first k elements.
LEMMA SeqLen ==
    ASSUME NEW S, NEW x \in Seq(S)
    PROVE  /\ Len(x) \in Nat /\ DOMAIN x = 1 .. Len(x)
           /\ x # <<>> => Len(x) \in Nat \ {0}
           /\ \A i \in 1 .. Len(x) : x[i] \in S
  BY SMTT(20)

\* Taking the head of a sequence leaves its other elements in order.
LEMMA SeqHead ==
    ASSUME NEW S, NEW x \in Seq(S), x # <<>>
    PROVE  /\ Head(x) \in S
           /\ Tail(x) \in Seq(S) /\ Len(Tail(x)) = Len(x) - 1
           /\ \A i \in 1 .. Len(Tail(x)) : Tail(x)[i] = x[i + 1]
  BY SMTT(20)

\* Append adds one element at the end.
LEMMA SeqAppend ==
    ASSUME NEW S, NEW x \in Seq(S), NEW e \in S
    PROVE  /\ Append(x, e) \in Seq(S) /\ Append(x, e) # <<>>
           /\ Len(Append(x, e)) = Len(x) + 1
           /\ \A i \in 1 .. Len(x) : Append(x, e)[i] = x[i]
           /\ Append(x, e)[Len(x) + 1] = e
  BY SMTT(20)

\* Concatenation, and with the empty sequence.
LEMMA SeqConcat ==
    ASSUME NEW S, NEW x \in Seq(S), NEW y \in Seq(S)
    PROVE  x \o y \in Seq(S) /\ <<>> \o y = y
  BY SMTT(20)

\* What is left of a sequence without its first k elements.
LEMMA SeqSuffix ==
    ASSUME NEW S, NEW x \in Seq(S), NEW k \in 0 .. Len(x)
    PROVE  /\ SubSeq(x, k + 1, Len(x)) \in Seq(S)
           /\ Len(SubSeq(x, k + 1, Len(x))) = Len(x) - k
           /\ \A i \in 1 .. Len(x) - k : SubSeq(x, k + 1, Len(x))[i] = x[k + i]
  BY SMTT(20)

\* A sequence of one element.
LEMMA OneTail ==
    ASSUME NEW S, NEW x \in Seq(S), Len(x) = 1
    PROVE  Head(x) = x[1] /\ Tail(x) = <<>>
  <1>1. x # <<>>
    BY SMTT(20)
  <1>2. Tail(x) \in Seq(S) /\ Len(Tail(x)) = Len(x) - 1
    BY <1>1, SeqHead
  <1>3. Len(Tail(x)) = 0
    BY <1>2, SMTT(20)
  <1>4. Tail(x) = <<>>
    BY <1>2, <1>3, SeqLen
  <1> QED BY <1>4, SMTT(20)

-----------------------------------------------------------------------------
(* The code of an actor. *)

\* The two peers are each other's other end.
LEMMA OtherFacts ==
    /\ \A p \in Peers : Other(p) \in Peers /\ Other(p) # p /\ Other(Other(p)) = p
    /\ \A p, q \in Peers : q = p \/ q = Other(p)
  BY PeersAssumption, SMTT(20) DEF Peers, Other

\* None is not a socket.
LEMMA SocketFacts == None \notin Sockets /\ 1 \in Sockets /\ Sockets \subseteq Nat
  BY BoundsAssumption, SMTT(20) DEF None, Sockets

\* So do a step of deliver_inbox and the end of a handler.
LEMMA DeliverType ==
    ASSUME NEW p \in Peers, NEW a \in BackedActor
    PROVE  DeliverInbox(p, a) \in BackedActor
  <1>0. a.inbox \in Seq(Nat) /\ (a.inbox # <<>> => Tail(a.inbox) \in Seq(Nat))
    <2>1. a.inbox \in Seq(Nat)
      BY DEF BackedActor
    <2> QED BY <2>1, SMTT(20)
  <1>1. CASE a.inbox = <<>>
    BY <1>1 DEF DeliverInbox, BackedActor, PC
  <1>2. CASE a.inbox # <<>> /\ Head(a.inbox) # a.reader_crypto + 1
    <2>1. DeliverInbox(p, a) =
             [a EXCEPT !.inbox = Tail(@), !.dead_sent = TRUE, !.pc = "mismatch"]
      BY <1>2 DEF DeliverInbox
    <2> QED BY <1>0, <1>2, <2>1, ZenonT(60) DEF BackedActor, PC
  <1>3. CASE a.inbox # <<>> /\ Head(a.inbox) = a.reader_crypto + 1
    <2>1. PICK w \in BOOLEAN : DeliverInbox(p, a) =
             [a EXCEPT !.inbox = Tail(@), !.reader_crypto = @ + 1, !.reader_seq = @ + 1,
                       !.waiting_on_keepalive = w, !.pc = "deliver"]
      BY <1>3 DEF DeliverInbox
    <2>2. a.reader_crypto + 1 \in Nat /\ a.reader_seq + 1 \in Nat
      BY SMTT(20) DEF BackedActor
    <2>3. ASSUME NEW i \in Seq(Nat), NEW m \in Nat, NEW n \in Nat
          PROVE  [a EXCEPT !.inbox = i, !.reader_crypto = m, !.reader_seq = n,
                           !.waiting_on_keepalive = w, !.pc = "deliver"] \in BackedActor
      BY DEF BackedActor, PC
    <2>4. Tail(a.inbox) \in Seq(Nat)
      BY <1>0, <1>3
    <2>5. [a EXCEPT !.inbox = Tail(a.inbox), !.reader_crypto = a.reader_crypto + 1,
                    !.reader_seq = a.reader_seq + 1,
                    !.waiting_on_keepalive = w, !.pc = "deliver"] \in BackedActor
      BY <2>2, <2>3, <2>4
    <2> QED BY <2>1, <2>5
  <1> QED BY <1>1, <1>2, <1>3

\* The run loop's next await point keeps the actor well typed.
LEMMA ResumeType ==
    ASSUME NEW p \in Peers, NEW a \in BackedActor
    PROVE  Resume(p, a) \in BackedActor
  <1>1. [a EXCEPT !.socket_down_pending = FALSE, !.pc = "sockdown"] \in BackedActor
    BY DEF BackedActor, PC
  <1> QED BY <1>1, DeliverType DEF Resume

SameWriter(a, b) ==
    b.writer_crypto = a.writer_crypto /\ b.writer_seq = a.writer_seq /\ b.backup = a.backup

SameReader(a, b) ==
    /\ b.reader_crypto = a.reader_crypto /\ b.reader_seq = a.reader_seq /\ b.inbox = a.inbox
    /\ b.dead_sent = a.dead_sent /\ b.pc = a.pc

SameExchange(a, b) == b.stage = a.stage /\ b.stream = a.stream /\ b.old = a.old

Running == {"select", "sockdown", "deliver"}

\* Everything decrypted is delivered, and the inbox continues from there.
Synced(a, d, n) ==
    /\ a.reader_crypto = a.reader_seq
    /\ ~a.dead_sent
    /\ \A i \in 1 .. Len(a.inbox) : a.inbox[i] = a.reader_seq + i
    /\ a.reader_seq + Len(a.inbox) <= n
    /\ \A i \in 1 .. Len(d) : d[i] = i
    /\ Len(d) = a.reader_seq

\* A step of deliver_inbox on an inbox in step never fails to decrypt.
LEMMA DeliverFacts ==
    ASSUME NEW p \in Peers, NEW a \in BackedActor, NEW d \in Seq(Nat), NEW n \in Nat,
           Synced(a, d, n)
    PROVE  LET b == DeliverInbox(p, a)
           IN  /\ SameWriter(a, b) /\ SameExchange(a, b)
               /\ b.live = a.live /\ b.socket_down_pending = a.socket_down_pending
               /\ InStep(b, d, n)
               /\ b.pc \in {"select", "deliver"}
               /\ b.pc = "select" => b.inbox = <<>>
               /\ b.reader_seq + Len(b.inbox) = a.reader_seq + Len(a.inbox)
               /\ a.inbox = <<>> => b.inbox = <<>> /\ b.reader_seq = a.reader_seq /\ b.pc = "select"
  <1> DEFINE b == DeliverInbox(p, a)
  <1>0. a.inbox \in Seq(Nat) /\ a.reader_seq \in Nat
    BY DEF BackedActor
  <1>1. CASE a.inbox = <<>>
    <2>1. b = [a EXCEPT !.pc = "select"]
      BY <1>1 DEF DeliverInbox
    <2>2. SameWriter(a, b) /\ SameExchange(a, b) /\ b.live = a.live
          /\ b.socket_down_pending = a.socket_down_pending /\ b.pc = "select"
          /\ b.inbox = a.inbox /\ b.reader_seq = a.reader_seq
          /\ b.reader_crypto = a.reader_crypto /\ b.dead_sent = a.dead_sent
      BY <2>1 DEF BackedActor, SameWriter, SameExchange
    <2>3. InStep(b, d, n)
      BY <2>2, SMTT(20) DEF InStep, Synced
    <2> QED BY <1>1, <2>2, <2>3
  <1>2. CASE a.inbox # <<>>
    <2>1. Head(a.inbox) = a.reader_crypto + 1
      BY <1>0, <1>2, SMTT(20) DEF Synced
    <2>2. /\ SameWriter(a, b) /\ SameExchange(a, b) /\ b.live = a.live
          /\ b.socket_down_pending = a.socket_down_pending /\ b.pc = "deliver"
          /\ b.inbox = Tail(a.inbox) /\ b.reader_seq = a.reader_seq + 1
          /\ b.reader_crypto = a.reader_crypto + 1 /\ b.dead_sent = a.dead_sent
      BY <1>2, <2>1 DEF DeliverInbox, BackedActor, SameWriter, SameExchange
    <2>3. Len(b.inbox) = Len(a.inbox) - 1 /\ \A i \in 1 .. Len(b.inbox) : b.inbox[i] = a.inbox[i + 1]
      BY <1>0, <1>2, <2>2, SMTT(20)
    <2> HIDE DEF b
    <2>4. ASSUME NEW i \in 1 .. Len(b.inbox)
          PROVE  b.inbox[i] = b.reader_seq + i
      <3>1. i + 1 \in 1 .. Len(a.inbox)
        BY <1>0, <1>2, <2>3, SMTT(20)
      <3>2. a.inbox[i + 1] = a.reader_seq + (i + 1)
        BY <3>1 DEF Synced
      <3>3. a.reader_seq + (i + 1) = (a.reader_seq + 1) + i
        BY <1>0, SMTT(20)
      <3> QED BY <2>2, <2>3, <3>2, <3>3
    <2>6. b.reader_seq + Len(b.inbox) = a.reader_seq + Len(a.inbox)
      BY <1>0, <2>2, <2>3, SMTT(20)
    <2>7. /\ a.reader_crypto = a.reader_seq /\ ~a.dead_sent /\ a.reader_seq + Len(a.inbox) <= n
          /\ \A i \in 1 .. Len(d) : d[i] = i
          /\ Len(d) = a.reader_seq
      BY DEF Synced
    <2>8. Len(d) <= b.reader_seq /\ Len(d) + 1 = b.reader_seq
      BY <1>0, <2>2, <2>7, SMTT(20)
    <2>5. InStep(b, d, n)
      BY <2>2, <2>4, <2>6, <2>7, <2>8 DEF InStep
    <2> QED BY <1>2, <2>2, <2>5, <2>6 DEF b
  <1> QED BY <1>1, <1>2

\* The end of a handler: p's actor announces a loss, or delivers, or rests.
Resumed(a, b, d, n) ==
    /\ b \in BackedActor
    /\ SameWriter(a, b) /\ SameExchange(a, b) /\ b.live = a.live
    /\ InStep(b, d, n) /\ b.pc \in Running
    /\ b.pc = "select" => b.inbox = <<>>
    /\ b.reader_seq + Len(b.inbox) = a.reader_seq + Len(a.inbox)
    /\ a.pc # "select" =>
          b.pc = a.pc /\ b.inbox = a.inbox /\ b.socket_down_pending = a.socket_down_pending
    /\ a.pc = "select" => ~b.socket_down_pending
    /\ a.pc = "select" /\ a.socket_down_pending => b.pc = "sockdown" /\ b.inbox = a.inbox
    /\ a.pc = "select" /\ ~a.socket_down_pending =>
          b.pc # "sockdown" /\ (a.inbox = <<>> => b.inbox = <<>> /\ b.pc = "select")

\* The run loop goes on from a handler with the reader still in step.
LEMMA ResumeFacts ==
    ASSUME NEW p \in Peers, NEW a \in BackedActor, NEW d \in Seq(Nat), NEW n \in Nat,
           InStep(a, d, n), a.pc \in Running
    PROVE  Resumed(a, Resume(p, a), d, n)
  <1> DEFINE b == Resume(p, a)
  <1>0. b \in BackedActor
    BY ResumeType
  <1>1. CASE a.pc # "select"
    <2>1. b = a
      BY <1>1 DEF Resume
    <2>2. SameWriter(a, b) /\ SameExchange(a, b)
      BY <2>1 DEF SameWriter, SameExchange
    <2> QED BY <1>0, <1>1, <2>1, <2>2 DEF Resumed
  <1>2. CASE a.pc = "select" /\ a.socket_down_pending
    <2>1. b = [a EXCEPT !.socket_down_pending = FALSE, !.pc = "sockdown"]
      BY <1>2 DEF Resume
    <2>2. /\ SameWriter(a, b) /\ SameExchange(a, b) /\ b.live = a.live
          /\ ~b.socket_down_pending /\ b.pc = "sockdown"
          /\ b.inbox = a.inbox /\ b.reader_seq = a.reader_seq
          /\ b.reader_crypto = a.reader_crypto /\ b.dead_sent = a.dead_sent
      BY <2>1 DEF BackedActor, SameWriter, SameExchange
    <2>3. InStep(b, d, n)
      BY <1>2, <2>2 DEF InStep
    <2> HIDE DEF b
    <2> QED BY <1>0, <1>2, <2>2, <2>3 DEF Resumed, Running, b
  <1>3. CASE a.pc = "select" /\ ~a.socket_down_pending
    <2>1. b = DeliverInbox(p, a)
      BY <1>3 DEF Resume
    <2>2. Synced(a, d, n)
      BY <1>3 DEF InStep, Synced
    <2> HIDE DEF b
    <2> QED BY <1>0, <1>3, <2>1, <2>2, DeliverFacts, SMTT(20) DEF Resumed, Running, b
  <1> QED BY <1>1, <1>2, <1>3

\* The other updates of an actor: a frame read off the socket, a ping sent, the
\* four steps of the exchange, and the two of the end.
LEMMA InboxFacts ==
    ASSUME NEW a \in BackedActor, NEW i \in Seq(Nat)
    PROVE  LET b == [a EXCEPT !.inbox = i]
           IN  /\ b \in BackedActor
               /\ SameWriter(a, b) /\ SameExchange(a, b)
               /\ b.live = a.live /\ b.socket_down_pending = a.socket_down_pending
               /\ b.inbox = i /\ b.pc = a.pc /\ b.dead_sent = a.dead_sent
               /\ b.reader_seq = a.reader_seq /\ b.reader_crypto = a.reader_crypto
  BY DEF BackedActor, SameWriter, SameExchange

\* handle_recover sets the live socket aside and starts an exchange on s.
LEMMA StartFacts ==
    ASSUME NEW a \in BackedActor, NEW s \in Sockets
    PROVE  LET b == [a EXCEPT !.stage = "seq", !.stream = s, !.old = a.live, !.live = None]
           IN  /\ b \in BackedActor
               /\ SameWriter(a, b) /\ SameReader(a, b)
               /\ b.socket_down_pending = a.socket_down_pending
               /\ b.stage = "seq" /\ b.stream = s /\ b.old = a.live /\ b.live = None
  BY DEF BackedActor, Stage, SameWriter, SameReader

\* The peer's header was read: the exchange waits for the catch-up.
LEMMA SequenceFacts ==
    ASSUME NEW a \in BackedActor
    PROVE  LET b == [a EXCEPT !.stage = "catchup"]
           IN  /\ b \in BackedActor
               /\ SameWriter(a, b) /\ SameReader(a, b)
               /\ b.live = a.live /\ b.socket_down_pending = a.socket_down_pending
               /\ b.stage = "catchup" /\ b.stream = a.stream /\ b.old = a.old
  BY DEF BackedActor, Stage, SameWriter, SameReader

\* The two ends of the run loop change neither writer nor exchange.
LEMMA StopFacts ==
    ASSUME NEW a \in BackedActor
    PROVE  LET b == [a EXCEPT !.pc = "final", !.live = None]
               c == [a EXCEPT !.pc = "stopped"]
           IN  /\ b \in BackedActor /\ c \in BackedActor
               /\ SameWriter(a, b) /\ SameWriter(a, c)
               /\ SameExchange(a, b) /\ SameExchange(a, c)
               /\ b.live = None /\ c.live = a.live /\ b.pc = "final" /\ c.pc = "stopped"
               /\ b.inbox = a.inbox /\ c.inbox = a.inbox
               /\ b.dead_sent = a.dead_sent /\ c.dead_sent = a.dead_sent
               /\ b.reader_seq = a.reader_seq /\ c.reader_seq = a.reader_seq
               /\ b.reader_crypto = a.reader_crypto /\ c.reader_crypto = a.reader_crypto
               /\ b.socket_down_pending = a.socket_down_pending
               /\ c.socket_down_pending = a.socket_down_pending
  BY DEF BackedActor, PC, SameWriter, SameExchange

\* The kinds of update of what a socket carries towards q.
LEMMA PipeUpdates ==
    ASSUME TypeOK, NEW s \in Sockets, NEW q \in Peers
    PROVE  /\ pipe[s][q] \in Direction
           /\ \A f \in Seq(Nat) :
                 [pipe EXCEPT ![s][q].frames = f] \in [Sockets -> [Peers -> Direction]]
           /\ \A c \in Seq(Seq(Nat)) :
                 [pipe EXCEPT ![s][q].catchup = c] \in [Sockets -> [Peers -> Direction]]
           /\ \A h \in Seq(Int) :
                 [pipe EXCEPT ![s][q].seq = h] \in [Sockets -> [Peers -> Direction]]
  <1> DEFINE d == pipe[s][q]
  <1>1. d \in Direction
    BY SMTT(20) DEF TypeOK
  <1>2. ASSUME NEW e \in Direction
        PROVE  [pipe EXCEPT ![s][q] = e] \in [Sockets -> [Peers -> Direction]]
    BY DEF TypeOK
  <1>3. ASSUME NEW f \in Seq(Nat)
        PROVE  [pipe EXCEPT ![s][q].frames = f] \in [Sockets -> [Peers -> Direction]]
    <2>1. [d EXCEPT !.frames = f] \in Direction
      BY <1>1 DEF Direction
    <2> QED BY <1>2, <2>1
  <1>4. ASSUME NEW c \in Seq(Seq(Nat))
        PROVE  [pipe EXCEPT ![s][q].catchup = c] \in [Sockets -> [Peers -> Direction]]
    <2>1. [d EXCEPT !.catchup = c] \in Direction
      BY <1>1 DEF Direction
    <2> QED BY <1>2, <2>1
  <1>5. ASSUME NEW h \in Seq(Int)
        PROVE  [pipe EXCEPT ![s][q].seq = h] \in [Sockets -> [Peers -> Direction]]
    <2>1. [d EXCEPT !.seq = h] \in Direction
      BY <1>1 DEF Direction
    <2> QED BY <1>2, <2>1
  <1> QED BY <1>1, <1>3, <1>4, <1>5

\* What the rest of a handler that wrote one packet starts from: c differs from
\* a by the packet, which is in the backup, and by the loss of the socket.
Accepted(p, a, c) ==
    /\ c \in BackedActor
    /\ SameReader(a, c) /\ SameExchange(a, c)
    /\ c.writer_crypto = a.writer_crypto + 1
    /\ c.writer_seq = a.writer_seq + 1
    /\ \E k \in 0 .. Len(a.backup) + 1 :
         /\ Len(c.backup) = Len(a.backup) + 1 - k
         /\ \A i \in 1 .. Len(c.backup) :
               c.backup[i] = IF i + k <= Len(a.backup) THEN a.backup[i + k]
                             ELSE a.writer_crypto + 1
    /\ actor' = [actor EXCEPT ![p] = Resume(p, c)]
    /\ \/ /\ a.live = None /\ c.live = None
          /\ c.socket_down_pending = a.socket_down_pending
          /\ UNCHANGED <<pipe, broken>>
       \/ /\ a.live # None /\ c.live = a.live
          /\ c.socket_down_pending = a.socket_down_pending
          /\ pipe' = [pipe EXCEPT ![a.live][Other(p)].frames = Append(@, a.writer_crypto + 1)]
          /\ UNCHANGED broken
       \/ /\ a.live # None /\ c.live = None /\ c.socket_down_pending
          /\ broken' = Closing(a.live)
          /\ UNCHANGED pipe

\* What write() does: it skips the packet, or stores it and sends it, or finds
\* the socket gone.
Wrote(p, a, hdr, size) ==
    \/ /\ actor' = [actor EXCEPT ![p] = Resume(p, a)]
       /\ UNCHANGED <<sent, pipe, broken>>
    \/ /\ Len(sent[p]) < MaxWrites[p]
       /\ sent' = [sent EXCEPT ![p] = Append(@, [hdr |-> hdr, len |-> size + Overhead])]
       /\ \E c : Accepted(p, a, c)

\* An exchange has a socket.
StreamInv == \A p \in Peers : actor[p].stage # "none" => actor[p].stream # None

\* A step of p's actor to state b.
LEMMA Moves ==
    ASSUME TypeOK, NEW p \in Peers, NEW b \in BackedActor, actor' = [actor EXCEPT ![p] = b]
    PROVE  /\ actor' \in [Peers -> BackedActor]
           /\ actor'[p] = b /\ actor'[Other(p)] = actor[Other(p)]
           /\ StreamInv /\ (b.stage # "none" => b.stream # None) => StreamInv'
           /\ StreamInv /\ SameExchange(actor[p], b) => StreamInv'
  <1>1. actor' \in [Peers -> BackedActor] /\ actor'[p] = b
    BY DEF TypeOK
  <1>2. \A q \in Peers : q # p => actor'[q] = actor[q]
    BY DEF TypeOK
  <1>3. StreamInv /\ (b.stage # "none" => b.stream # None) => StreamInv'
    BY <1>1, <1>2 DEF StreamInv
  <1>4. StreamInv /\ SameExchange(actor[p], b) => (b.stage # "none" => b.stream # None)
    BY DEF StreamInv, SameExchange
  <1> QED BY <1>1, <1>2, <1>3, <1>4, OtherFacts

-----------------------------------------------------------------------------
(* The parts of the state the invariant is about. *)

\* What TypeOK says of the parts of the state the invariant is about.
LEMMA Types ==
    ASSUME TypeOK, NEW p \in Peers
    PROVE  /\ actor[p] \in BackedActor
           /\ actor[p].reader_seq \in Nat /\ actor[p].writer_seq \in Nat
           /\ actor[p].writer_crypto \in Nat
           /\ actor[p].inbox \in Seq(Nat) /\ actor[p].backup \in Seq(Nat)
           /\ actor[p].live \in {None} \cup Sockets
           /\ actor[p].old \in {None} \cup Sockets
           /\ actor[p].stream \in {None} \cup Sockets
           /\ W(p) \in Nat /\ Base(p) \in Nat
           /\ delivered[p] \in Seq(Nat) /\ offers[p] \in Seq(Sockets)
           /\ opened \in Nat
           /\ \A s \in Sockets :
                 /\ pipe[s][p].seq \in Seq(Int)
                 /\ pipe[s][p].catchup \in Seq(Seq(Nat))
                 /\ pipe[s][p].frames \in Seq(Nat)
  <1>1. actor[p] \in BackedActor /\ sent[p] \in Seq(Packet) /\ offers[p] \in Seq(Sockets)
        /\ opened \in Sockets /\ delivered[p] \in Seq(Nat)
    BY DEF TypeOK
  <1>2. /\ actor[p].reader_seq \in Nat /\ actor[p].writer_seq \in Nat
        /\ actor[p].writer_crypto \in Nat
        /\ actor[p].inbox \in Seq(Nat) /\ actor[p].backup \in Seq(Nat)
        /\ actor[p].live \in {None} \cup Sockets
        /\ actor[p].old \in {None} \cup Sockets
        /\ actor[p].stream \in {None} \cup Sockets
    BY <1>1, SMTT(30) DEF BackedActor
  <1>3. W(p) \in Nat /\ Base(p) \in Nat
    BY <1>1, <1>2, SeqLen, SMTT(30) DEF W, Base
  <1>4. \A s \in Sockets : pipe[s][p] \in Direction
    BY PipeUpdates
  <1> QED BY <1>1, <1>2, <1>3, <1>4, SocketFacts DEF Direction

\* A catch-up in flight is a sequence of packet numbers.
LEMMA CatchupTypes ==
    ASSUME TypeOK, NEW p \in Peers, NEW s \in Sockets, CatchupOK(p, s)
    PROVE  LET c == pipe[s][p].catchup[1]
           IN  /\ c \in Seq(Nat) /\ Len(c) \in Nat /\ Base(p) + Len(c) \in Nat
               /\ pipe[s][p].frames \in Seq(Nat)
  <1>1. /\ pipe[s][p].catchup \in Seq(Seq(Nat)) /\ Len(pipe[s][p].catchup) = 1
        /\ pipe[s][p].frames \in Seq(Nat) /\ Base(p) \in Nat
    BY Types DEF CatchupOK
  <1>2. pipe[s][p].catchup[1] \in Seq(Nat)
    BY <1>1, SeqLen, SMTT(20)
  <1>3. Len(pipe[s][p].catchup[1]) \in Nat
    BY <1>2, SeqLen
  <1>4. Base(p) + Len(pipe[s][p].catchup[1]) \in Nat
    <2>1. \A m, n \in Nat : m + n \in Nat
      BY SMTT(20)
    <2> QED BY <1>1, <1>3, <2>1
  <1> QED BY <1>1, <1>2, <1>3, <1>4

\* One part of one direction of a socket changes, and nothing else.
NewFrames(t, q, f) == pipe' = [pipe EXCEPT ![t][q].frames = f]

\* What the pipes hold after the frames of one direction changed.
LEMMA FramesSet ==
    ASSUME TypeOK, NEW t \in Sockets, NEW q \in Peers, NEW f,
           NewFrames(t, q, f)
    PROVE  \A s \in Sockets, r \in Peers :
              /\ pipe'[s][r].seq = pipe[s][r].seq
              /\ pipe'[s][r].catchup = pipe[s][r].catchup
              /\ pipe'[s][r].frames = IF s = t /\ r = q THEN f ELSE pipe[s][r].frames
  <1>1. \A s \in Sockets, r \in Peers : (s = t /\ r = q) \/ pipe'[s][r] = pipe[s][r]
    BY DEF TypeOK, NewFrames
  <1>2. pipe'[t][q] = [pipe[t][q] EXCEPT !.frames = f]
    BY DEF TypeOK, NewFrames
  <1>3. pipe[t][q] \in Direction
    BY PipeUpdates
  <1> QED BY <1>1, <1>2, <1>3 DEF Direction

\* A step of p's actor that writes nothing leaves the writers as they are.
LEMMA Keeps ==
    ASSUME LinkInv, NEW p \in Peers, actor'[Other(p)] = actor[Other(p)],
           SameWriter(actor[p], actor'[p]), UNCHANGED <<sent, delivered>>,
           InStep(actor'[p], delivered[p], W(Other(p))),
           actor'[p].pc = "select" => actor'[p].inbox = <<>>
    PROVE  /\ WriterInv' /\ ReaderInv'
           /\ \A r \in Peers : W(r)' = W(r) /\ W(Other(r))' = W(Other(r))
           /\ Base(Other(p))' = Base(Other(p))
  <1> DEFINE q == Other(p)
  <1>q. q \in Peers /\ Other(q) = p /\ \A r \in Peers : r = p \/ r = q
    BY OtherFacts
  <1>1. W(p)' = W(p) /\ W(q)' = W(q)
    BY DEF W
  <1>2. Base(q)' = Base(q)
    BY DEF Base
  <1>3. WriterOK(p, actor'[p], W(p)) /\ WriterOK(q, actor'[q], W(q))
    BY <1>q DEF LinkInv, WriterInv, WriterOK, SameWriter
  <1>4. WriterInv'
    BY <1>1, <1>3, <1>q DEF WriterInv
  <1>5. InStep(actor'[q], delivered'[q], W(p)') /\ (actor'[q].pc = "select" => actor'[q].inbox = <<>>)
    BY <1>1, <1>q DEF LinkInv, ReaderInv
  <1>6. InStep(actor'[p], delivered'[p], W(q)')
    BY <1>1
  <1> HIDE DEF q
  <1>7. Other(p) = q
    BY DEF q
  <1> QED BY <1>1, <1>2, <1>4, <1>5, <1>6, <1>7, <1>q DEF ReaderInv


-----------------------------------------------------------------------------


\* p's actor ends a handler without a socket to recover on: it took nothing off
\* a socket and wrote nothing, and is left with a socket it had, or with none.
Settles(p) ==
    LET a == actor[p]
        b == actor'[p]
    IN  /\ SameWriter(a, b)
        /\ b.reader_seq + Len(b.inbox) = a.reader_seq + Len(a.inbox)
        /\ InStep(b, delivered'[p], W(Other(p)))
        /\ b.pc = "select" => b.inbox = <<>>
        /\ b.stage = "none" /\ b.stream = None /\ b.old = None
        /\ b.live \in {a.live, a.old, None}
        /\ actor'[Other(p)] = actor[Other(p)]
        /\ delivered'[Other(p)] = delivered[Other(p)]
        /\ \A q \in Peers : offers'[q] \in {offers[q], <<>>}
        /\ UNCHANGED <<sent, pipe, opened>>

\* A step in which p settles keeps the link in order.
LEMMA StepSettles ==
    ASSUME TypeOK, LinkInv, TypeOK', NEW p \in Peers, Settles(p)
    PROVE  LinkInv'
  <1> DEFINE q == Other(p)
  <1>q. q \in Peers /\ Other(p) = q /\ Other(q) = p /\ q # p /\ \A r \in Peers : r = p \/ r = q
    BY OtherFacts
  <1>a. /\ actor'[q] = actor[q] /\ W(p)' = W(p) /\ W(q)' = W(q) /\ pipe' = pipe
        /\ opened' = opened
        /\ actor'[p].stage = "none" /\ actor'[p].stream = None /\ actor'[p].old = None
        /\ actor'[p].live \in {actor[p].live, actor[p].old, None}
    BY <1>q DEF Settles, W
  <1>b. Base(p)' = Base(p) /\ Base(q)' = Base(q)
    BY <1>a DEF Settles, Base
  <1>w. \A r \in Peers : Base(r)' = Base(r) /\ W(r)' = W(r) /\ W(Other(r))' = W(Other(r))
    BY <1>a, <1>b, <1>q
  <1>f. ASSUME NEW r \in Peers, NEW s \in Sockets
        PROVE  /\ Fresh(r, s)' => Fresh(r, s)
               /\ Feeding(r, s)' => Feeding(r, s)
               /\ s \in {actor'[r].live, actor'[r].old} => s \in {actor[r].live, actor[r].old}
               /\ actor'[r].stream = s => actor'[r] = actor[r]
    <2>1. Fresh(r, s)' => Fresh(r, s)
      BY <1>a, SMTT(20) DEF Settles, Fresh
    <2>2. CASE r = p
      BY <1>a, <2>1, <2>2, SocketFacts DEF Feeding
    <2>3. CASE r = q
      BY <1>a, <2>1, <2>3, SocketFacts DEF Feeding
    <2> QED BY <1>q, <2>2, <2>3
  <1> HIDE DEF q
  <1>1. WriterInv'
    <2>1. WriterOK(p, actor'[p], W(p)) /\ WriterOK(q, actor'[q], W(q))
      BY <1>a, <1>q, SMTT(20) DEF LinkInv, WriterInv, WriterOK, Settles, SameWriter
    <2> QED BY <1>a, <1>q, <2>1 DEF WriterInv
  <1>2. ReaderInv'
    <2>1. InStep(actor'[p], delivered'[p], W(q)') /\ (actor'[p].pc = "select" => actor'[p].inbox = <<>>)
      BY <1>a DEF Settles, q
    <2>2. InStep(actor'[q], delivered'[q], W(p)') /\ (actor'[q].pc = "select" => actor'[q].inbox = <<>>)
      BY <1>a, <1>q DEF LinkInv, ReaderInv, Settles, q
    <2> QED BY <1>q, <2>1, <2>2 DEF ReaderInv
  <1>3. StageInv'
    BY <1>a, <1>q, SMTT(20) DEF LinkInv, StageInv
  <1>4. FreshInv'
    <2> SUFFICES ASSUME NEW r \in Peers, NEW s \in Sockets, Fresh(r, s)'
                 PROVE  /\ pipe[s][Other(r)].seq = <<>>
                        /\ pipe[s][Other(r)].catchup = <<>>
                        /\ pipe[s][Other(r)].frames = <<>>
                        /\ pipe[s][r].catchup = <<>>
                        /\ pipe[s][r].frames = <<>>
                        /\ s \notin {actor'[r].live, actor'[r].old, actor'[r].stream}
                        /\ s \notin {actor'[Other(r)].live, actor'[Other(r)].old}
                        /\ actor'[Other(r)].stream = s => actor'[Other(r)].stage = "seq"
      BY <1>a, SMTT(20) DEF FreshInv
    <2>1. Fresh(r, s) /\ Other(r) \in Peers
      BY <1>f, OtherFacts
    <2> QED BY <1>f, <2>1, SMTT(20) DEF LinkInv, FreshInv
  <1>5. OffersInv'
    BY <1>a, SMTT(20) DEF LinkInv, OffersInv, Settles
  <1>6. HeaderInv'
    <2> SUFFICES ASSUME NEW r \in Peers, NEW s \in Sockets, actor'[r].stream = s
                 PROVE  /\ pipe[s][Other(r)].seq \in {<<>>, <<actor'[r].reader_seq>>}
                        /\ actor'[r].stage = "seq" =>
                              /\ pipe[s][Other(r)].catchup = <<>>
                              /\ pipe[s][Other(r)].frames = <<>>
                              /\ s \notin {actor'[Other(r)].live, actor'[Other(r)].old}
      BY <1>a DEF HeaderInv
    <2>1. actor'[r] = actor[r] /\ Other(r) \in Peers
      BY <1>f, OtherFacts
    <2> QED BY <1>f, <2>1 DEF LinkInv, HeaderInv
  <1>7. FramesInv'
    <2> SUFFICES ASSUME NEW r \in Peers, NEW s \in Sockets,
                        s \in {actor'[r].live, actor'[r].old}
                 PROVE  Continues(pipe[s][r].frames, Base(r), W(Other(r)), Feeding(Other(r), s)')
      BY <1>a, <1>w DEF FramesInv
    <2>1. s \in {actor[r].live, actor[r].old} /\ (Feeding(Other(r), s)' => Feeding(Other(r), s))
      BY <1>f, OtherFacts, SMTT(30)
    <2> QED BY <2>1 DEF LinkInv, FramesInv, Continues
  <1>8. CatchupInv'
    <2> SUFFICES ASSUME NEW r \in Peers, NEW s \in Sockets,
                        actor'[r].stream = s, pipe[s][r].catchup # <<>>
                 PROVE  CatchupOK(r, s)'
      BY <1>a DEF CatchupInv
    <2>1. actor[r].stream = s /\ (Feeding(Other(r), s)' => Feeding(Other(r), s))
      BY <1>f, OtherFacts
    <2>2. CatchupOK(r, s)
      BY <2>1 DEF LinkInv, CatchupInv
    <2> QED BY <1>a, <1>w, <2>1, <2>2 DEF CatchupOK, Continues
  <1> QED BY <1>1, <1>2, <1>3, <1>4, <1>5, <1>6, <1>7, <1>8 DEF LinkInv

\* Steps of the owners and the network leave the link alone.
LEMMA StepIdle ==
    ASSUME LinkInv, UNCHANGED <<actor, sent, delivered, offers, opened, pipe>>
    PROVE  LinkInv'
  <1>1. WriterInv' /\ ReaderInv' /\ StageInv' /\ HeaderInv' /\ OffersInv'
    BY DEF LinkInv, WriterInv, ReaderInv, StageInv, HeaderInv, OffersInv, W
  <1>2. FramesInv' /\ CatchupInv'
    BY SMTT(20) DEF LinkInv, FramesInv, CatchupInv, CatchupOK, W, Base, Feeding
  <1>3. FreshInv'
    BY SMTT(20) DEF LinkInv, FreshInv, Fresh
  <1> QED BY <1>1, <1>2, <1>3, SMTT(30) DEF LinkInv

\* The end of a handler that only let go of a socket.
LEMMA ResumeSettles ==
    ASSUME TypeOK, LinkInv, NEW p \in Peers, NEW c \in BackedActor,
           SameWriter(actor[p], c), SameReader(actor[p], c), actor[p].pc \in Running,
           c.stage = "none", c.stream = None, c.old = None,
           c.live \in {actor[p].live, actor[p].old, None},
           actor' = [actor EXCEPT ![p] = Resume(p, c)],
           UNCHANGED <<sent, delivered, offers, opened, pipe>>
    PROVE  Settles(p)
  <1> DEFINE q == Other(p)
             b == Resume(p, c)
  <1>q. q \in Peers
    BY OtherFacts
  <1>1. W(q) \in Nat /\ delivered[p] \in Seq(Nat)
    BY <1>q, Types
  <1>2. InStep(actor[p], delivered[p], W(q))
    BY DEF LinkInv, ReaderInv
  <1>3. InStep(c, delivered[p], W(q)) /\ c.pc \in Running
    BY <1>2 DEF InStep, SameReader
  <1> HIDE DEF q, b
  <1>4. Resumed(c, b, delivered[p], W(q))
    BY <1>1, <1>3, ResumeFacts DEF b
  <1>5. actor'[p] = b /\ actor'[Other(p)] = actor[Other(p)]
    BY <1>4, Moves DEF Resumed, b
  <1>6. SameWriter(actor[p], b) /\ b.stage = "none" /\ b.stream = None /\ b.old = None
    BY <1>4 DEF Resumed, SameWriter, SameExchange
  <1>7. b.reader_seq + Len(b.inbox) = actor[p].reader_seq + Len(actor[p].inbox)
    BY <1>4 DEF Resumed, SameReader
  <1>8. b.live = c.live /\ InStep(b, delivered[p], W(q)) /\ (b.pc = "select" => b.inbox = <<>>)
    BY <1>4 DEF Resumed
  <1> QED BY <1>5, <1>6, <1>7, <1>8 DEF Settles, q

\* The event p's actor was parked on went out, and the next packet is taken.
Sends(p) ==
    LET a == actor[p]
    IN  /\ a.pc \in {"sockdown", "deliver"} /\ a.stage = "none"
        /\ \/ /\ a.pc = "deliver"
              /\ delivered' = [delivered EXCEPT ![p] = Append(@, a.reader_crypto)]
           \/ a.pc = "sockdown" /\ UNCHANGED delivered
        /\ actor' = [actor EXCEPT ![p] = DeliverInbox(p, a)]
        /\ UNCHANGED <<sent, offers, opened, pipe>>

\* Sending an event is such a step.
LEMMA SendSettles ==
    ASSUME TypeOK, LinkInv, NEW p \in Peers, Sends(p)
    PROVE  Settles(p)
  <1> DEFINE q == Other(p)
             a == actor[p]
             b == DeliverInbox(p, a)
             d == delivered'[p]
  <1>q. q \in Peers /\ q # p
    BY OtherFacts
  <1>1. /\ W(q) \in Nat /\ delivered[p] \in Seq(Nat) /\ a \in BackedActor
        /\ a.reader_seq \in Nat /\ Len(delivered[p]) \in Nat
    BY <1>q, Types, SeqLen DEF TypeOK
  <1>2. InStep(a, delivered[p], W(q))
    BY DEF LinkInv, ReaderInv
  <1>3. a.stage = "none" /\ a.stream = None /\ a.old = None
    BY DEF Sends, LinkInv, StageInv
  <1>4. d \in Seq(Nat) /\ Synced(a, d, W(q)) /\ delivered'[q] = delivered[q]
    <2>1. CASE a.pc = "deliver"
      <3>1. d = Append(delivered[p], a.reader_seq) /\ delivered'[q] = delivered[q]
        BY <1>2, <1>q, <2>1 DEF Sends, InStep, TypeOK
      <3>2. Len(delivered[p]) + 1 = a.reader_seq /\ \A i \in 1 .. Len(delivered[p]) : delivered[p][i] = i
        BY <1>2, <2>1 DEF InStep
      <3> HIDE DEF d, a
      <3>3. /\ d \in Seq(Nat) /\ Len(d) = Len(delivered[p]) + 1
            /\ \A i \in 1 .. Len(delivered[p]) : d[i] = delivered[p][i]
            /\ d[Len(delivered[p]) + 1] = a.reader_seq
        BY <1>1, <3>1, SeqAppend, SMTT(20)
      <3>4. ASSUME NEW i \in 1 .. Len(d) PROVE d[i] = i
        <4>1. CASE i \in 1 .. Len(delivered[p])
          BY <3>2, <3>3, <4>1, SMTT(30)
        <4>2. CASE i = Len(delivered[p]) + 1
          BY <3>2, <3>3, <4>2
        <4> QED BY <1>1, <3>3, <4>1, <4>2, SMTT(20)
      <3> QED BY <1>2, <3>1, <3>2, <3>3, <3>4, SMTT(30) DEF InStep, Synced
    <2>2. CASE a.pc = "sockdown"
      BY <1>1, <1>2, <2>2 DEF Sends, InStep, Synced
    <2> QED BY <2>1, <2>2 DEF Sends
  <1>5. b \in BackedActor
    BY <1>1, DeliverType
  <1>6. actor' = [actor EXCEPT ![p] = b] /\ UNCHANGED <<sent, offers, opened, pipe>>
    BY DEF Sends
  <1> HIDE DEF a, b, q, d
  <1>7. /\ SameWriter(a, b) /\ SameExchange(a, b) /\ b.live = a.live
        /\ InStep(b, d, W(q)) /\ (b.pc = "select" => b.inbox = <<>>)
        /\ b.reader_seq + Len(b.inbox) = a.reader_seq + Len(a.inbox)
    BY <1>1, <1>4, DeliverFacts DEF b
  <1>8. actor'[p] = b /\ actor'[q] = actor[q]
    BY <1>5, <1>6, Moves, ZenonT(60) DEF q
  <1>9. b.stage = "none" /\ b.stream = None /\ b.old = None
    BY <1>3, <1>7 DEF SameExchange
  <1>10. Other(p) = q
    BY DEF q
  <1> QED BY <1>4, <1>6, <1>7, <1>8, <1>9, <1>10 DEF Settles, a, d

\* The actor is at the end of its life.
LEMMA StopSettles ==
    ASSUME TypeOK, LinkInv, NEW p \in Peers, actor[p].stage = "none",
           NEW b,
           \/ b = [actor[p] EXCEPT !.pc = "final", !.live = None]
           \/ b = [actor[p] EXCEPT !.pc = "stopped"],
           actor' = [actor EXCEPT ![p] = b],
           \A q \in Peers : offers'[q] \in {offers[q], <<>>},
           UNCHANGED <<sent, delivered, opened, pipe>>
    PROVE  Settles(p)
  <1> DEFINE a == actor[p]
  <1>1. a \in BackedActor /\ a.stream = None /\ a.old = None
    BY DEF TypeOK, LinkInv, StageInv
  <1> HIDE DEF a
  <1>2. /\ b \in BackedActor /\ SameWriter(a, b) /\ SameExchange(a, b)
        /\ b.live \in {a.live, None} /\ b.pc \in {"final", "stopped"}
        /\ b.inbox = a.inbox /\ b.dead_sent = a.dead_sent
        /\ b.reader_seq = a.reader_seq /\ b.reader_crypto = a.reader_crypto
    <2>1. CASE b = [a EXCEPT !.pc = "final", !.live = None]
      BY <1>1, <2>1, StopFacts, ZenonT(60)
    <2>2. CASE b = [a EXCEPT !.pc = "stopped"]
      BY <1>1, <2>2, StopFacts
    <2> QED BY <2>1, <2>2 DEF a
  <1>3. actor'[p] = b /\ actor'[Other(p)] = actor[Other(p)]
    BY <1>2, Moves
  <1>4. InStep(a, delivered[p], W(Other(p)))
    BY DEF LinkInv, ReaderInv, a
  <1>5. InStep(b, delivered[p], W(Other(p)))
    BY <1>2, <1>4 DEF InStep
  <1>6. b.stage = "none" /\ b.stream = None /\ b.old = None
    BY <1>1, <1>2 DEF SameExchange, a
  <1> QED BY <1>2, <1>3, <1>5, <1>6 DEF Settles, a

\* How the frames on a socket move: the writer is ahead by one, or adds its
\* packet; the reader takes one.
LEMMA ContinuesWrite ==
    ASSUME NEW in \in Seq(Nat), NEW base \in Nat, NEW n \in Nat, NEW fed,
           Continues(in, base, n, fed)
    PROVE  /\ Continues(in, base, n + 1, FALSE)
           /\ fed => Continues(Append(in, n + 1), base, n + 1, TRUE)
  <1>0. Len(in) \in Nat
    BY SeqLen
  <1>1. Continues(in, base, n + 1, FALSE)
    BY <1>0, SMTT(20) DEF Continues
  <1>2. ASSUME fed PROVE Continues(Append(in, n + 1), base, n + 1, TRUE)
    <2> DEFINE out == Append(in, n + 1)
    <2>1. /\ Len(out) = Len(in) + 1
          /\ \A i \in 1 .. Len(in) : out[i] = in[i]
          /\ out[Len(in) + 1] = n + 1
      BY SeqAppend, SMTT(20)
    <2> HIDE DEF out
    <2>2. base + Len(in) = n
      BY <1>2 DEF Continues
    <2>3. \A i \in 1 .. Len(out) : out[i] = base + i
      <3> TAKE i \in 1 .. Len(out)
      <3>1. CASE i \in 1 .. Len(in)
        BY <2>1, <3>1 DEF Continues
      <3>2. CASE i = Len(in) + 1
        BY <1>0, <2>1, <2>2, <3>2, SMTT(20)
      <3> QED BY <1>0, <2>1, <3>1, <3>2, SMTT(20)
    <2>4. base + Len(out) = n + 1
      BY <1>0, <2>1, <2>2, SMTT(30)
    <2> QED BY <2>3, <2>4, SMTT(20) DEF Continues, out
  <1> QED BY <1>1, <1>2

\* p's actor, in state a within its handler, takes packet x and goes on from c.
Takes(p, a, x, c) ==
    /\ SameWriter(actor[p], a) /\ SameReader(actor[p], a) /\ SameExchange(actor[p], a)
    /\ a.live = actor[p].live
    /\ Serving(p) /\ Len(sent[p]) < MaxWrites[p]
    /\ sent' = [sent EXCEPT ![p] = Append(@, x)]
    /\ Accepted(p, a, c)
    /\ UNCHANGED <<delivered, offers, opened>>

\* What changes, but for the sockets.
LEMMA TakesFacts ==
    ASSUME TypeOK, LinkInv, NEW p \in Peers, NEW a \in BackedActor, NEW x \in Packet, NEW c,
           Takes(p, a, x, c)
    PROVE  /\ Resumed(c, actor'[p], delivered[p], W(Other(p)))
           /\ actor'[Other(p)] = actor[Other(p)]
           /\ W(p)' = W(p) + 1 /\ W(Other(p))' = W(Other(p))
           /\ actor[p].stage = "none" /\ actor[p].stream = None /\ actor[p].old = None
           /\ actor'[p].stage = "none" /\ actor'[p].stream = None /\ actor'[p].old = None
           /\ actor'[p].live = c.live
           /\ Base(p)' = Base(p) /\ Base(Other(p))' = Base(Other(p))
  <1> DEFINE q == Other(p)
             b == actor'[p]
  <1>q. q \in Peers /\ q # p
    BY OtherFacts
  <1>t. W(q) \in Nat /\ delivered[p] \in Seq(Nat)
    BY <1>q, Types
  <1>0. /\ c \in BackedActor /\ SameReader(a, c) /\ SameExchange(a, c)
        /\ actor' = [actor EXCEPT ![p] = Resume(p, c)]
    BY DEF Takes, Accepted
  <1>1. Resumed(c, Resume(p, c), delivered[p], W(q))
    <2>1. InStep(c, delivered[p], W(q)) /\ c.pc \in Running
      BY <1>0, SMTT(20) DEF Takes, SameReader, Serving, Running, LinkInv, ReaderInv, InStep
    <2> HIDE DEF q
    <2> QED BY <1>0, <1>t, <2>1, ResumeFacts
  <1>2. b = Resume(p, c) /\ actor'[q] = actor[q]
    BY <1>0, <1>1, Moves DEF Resumed
  <1>3. W(p)' = W(p) + 1 /\ W(q)' = W(q)
    <2>1. sent[p] \in Seq(Packet) /\ sent'[p] = Append(sent[p], x) /\ sent'[q] = sent[q]
      BY <1>q DEF TypeOK, Takes
    <2>2. Len(sent'[p]) = Len(sent[p]) + 1
      BY <2>1, SeqAppend, SMTT(20)
    <2> HIDE DEF q
    <2> QED BY <2>1, <2>2 DEF W
  <1> HIDE DEF q, b
  <1>4. /\ b.stage = "none" /\ b.stream = None /\ b.old = None
        /\ b.live = c.live
        /\ actor[p].stage = "none" /\ actor[p].stream = None /\ actor[p].old = None
    BY <1>0, <1>1, <1>2, ZenonT(60) DEF Takes, Serving, Resumed, SameExchange, LinkInv, StageInv
  <1>5. Base(p)' = Base(p) /\ Base(q)' = Base(q)
    BY <1>0, <1>1, <1>2 DEF Takes, Base, Resumed, SameReader, b
  <1> QED BY <1>1, <1>2, <1>3, <1>4, <1>5 DEF q, b

\* The packet is the newest of the backup.
LEMMA TakesWriter ==
    ASSUME TypeOK, LinkInv, NEW p \in Peers, NEW a \in BackedActor, NEW x \in Packet, NEW c,
           Takes(p, a, x, c)
    PROVE  WriterInv'
  <1> DEFINE n == W(p)
             m == Len(a.backup)
             l == Len(c.backup)
  <1>1. /\ a.writer_crypto = n /\ a.writer_seq = n /\ m <= n
        /\ \A i \in 1 .. m : a.backup[i] = n - m + i
    BY DEF LinkInv, WriterInv, WriterOK, SameWriter, Takes
  <1>2. PICK k \in 0 .. m + 1 :
           /\ l = m + 1 - k
           /\ \A i \in 1 .. l : c.backup[i] = IF i + k <= m THEN a.backup[i + k] ELSE n + 1
    BY <1>1 DEF Takes, Accepted
  <1>3. m \in Nat /\ n \in Nat /\ n + 1 <= MaxWrites[p] /\ k \in Nat /\ k <= m + 1
    <2>1. m \in Nat
      BY SMTT(20) DEF BackedActor
    <2>2. n \in Nat /\ MaxWrites[p] \in Nat
      BY Types, BoundsAssumption
    <2> QED BY <2>1, <2>2, SMTT(20) DEF W, Takes
  <1>4. c.writer_crypto = n + 1 /\ c.writer_seq = n + 1
    BY <1>1 DEF Takes, Accepted
  <1> HIDE DEF n, m, l
  <1>5. ASSUME NEW i \in 1 .. l
        PROVE  c.backup[i] = n + 1 - l + i
    <2>1. CASE i + k <= m
      <3>1. i + k \in 1 .. m
        BY <1>2, <1>3, <2>1, SMTT(20)
      <3>2. a.backup[i + k] = n - m + (i + k)
        BY <1>1, <3>1
      <3>3. n + 1 - l + i = n - m + (i + k)
        BY <1>2, <1>3, SMTT(20)
      <3> QED BY <1>2, <2>1, <3>2, <3>3
    <2>2. CASE i + k > m
      <3>1. c.backup[i] = n + 1
        BY <1>2, <1>3, <2>2, SMTT(20)
      <3>2. i = l
        BY <1>2, <1>3, <2>2, SMTT(20)
      <3> QED BY <1>2, <1>3, <3>1, <3>2, SMTT(20)
    <2> QED BY <1>2, <1>3, <2>1, <2>2, SMTT(20)
  <1>6. WriterOK(p, c, n + 1)
    <2>1. l <= n + 1
      BY <1>1, <1>2, <1>3, SMTT(20)
    <2>2. \A i \in 1 .. Len(c.backup) : c.backup[i] = (n + 1) - Len(c.backup) + i
      BY <1>2, <1>3, <1>5, SMTT(20) DEF l
    <2> QED BY <1>3, <1>4, <2>1, <2>2 DEF WriterOK, l
  <1>7. WriterOK(p, actor'[p], W(p)')
    <2>1. Resumed(c, actor'[p], delivered[p], W(Other(p))) /\ W(p)' = n + 1
      BY TakesFacts, ZenonT(60) DEF n
    <2>2. SameWriter(c, actor'[p])
      BY <2>1, ZenonT(60) DEF Resumed
    <2> QED BY <1>6, <2>1, <2>2, ZenonT(60) DEF WriterOK, SameWriter
  <1>8. WriterOK(Other(p), actor'[Other(p)], W(Other(p))')
    BY TakesFacts, OtherFacts DEF LinkInv, WriterInv
  <1> QED BY <1>7, <1>8, OtherFacts DEF WriterInv

\* The other end is one packet further behind.
LEMMA TakesReader ==
    ASSUME TypeOK, LinkInv, NEW p \in Peers, NEW a \in BackedActor, NEW x \in Packet, NEW c,
           Takes(p, a, x, c)
    PROVE  ReaderInv'
  <1> DEFINE q == Other(p)
  <1>q. q \in Peers /\ Other(q) = p /\ \A r \in Peers : r = p \/ r = q
    BY OtherFacts
  <1>1. /\ InStep(actor'[p], delivered'[p], W(q)')
        /\ actor'[p].pc = "select" => actor'[p].inbox = <<>>
    BY TakesFacts DEF Resumed, Takes
  <1>2. /\ InStep(actor[q], delivered[q], W(p))
        /\ actor[q].pc = "select" => actor[q].inbox = <<>>
    BY <1>q DEF LinkInv, ReaderInv
  <1>3. actor[q].reader_seq + Len(actor[q].inbox) \in Nat /\ W(p) \in Nat
    BY <1>q, Types DEF Base
  <1> HIDE DEF q
  <1>4. InStep(actor[q], delivered[q], W(p) + 1)
    <2>1. actor[q].reader_seq + Len(actor[q].inbox) <= W(p) + 1
      <3>1. actor[q].reader_seq + Len(actor[q].inbox) <= W(p)
        BY <1>2, ZenonT(60) DEF InStep
      <3> QED BY <1>3, <3>1, SMTT(20)
    <2> QED BY <1>2, <2>1 DEF InStep
  <1>5. InStep(actor'[q], delivered'[q], W(p)') /\ (actor'[q].pc = "select" => actor'[q].inbox = <<>>)
    BY <1>2, <1>4, TakesFacts DEF q, Takes
  <1>6. Other(p) = q
    BY DEF q
  <1> QED BY <1>1, <1>5, <1>6, <1>q DEF ReaderInv

\* What the peer of q finds of the header q sent on the socket it recovers on.
LEMMA HeaderOf ==
    ASSUME LinkInv, NEW q \in Peers, NEW p, p = Other(q), NEW s \in Sockets, actor[q].stream = s
    PROVE  /\ pipe[s][p].seq \in {<<>>, <<actor[q].reader_seq>>}
           /\ actor[q].stage = "seq" =>
                 /\ pipe[s][p].catchup = <<>>
                 /\ pipe[s][p].frames = <<>>
                 /\ s \notin {actor[p].live, actor[p].old}
  BY DEF LinkInv, HeaderInv

\* The packet stays in the backup, as p's actor has no socket or loses it.
LEMMA TakesOffline ==
    ASSUME TypeOK, LinkInv, NEW p \in Peers, NEW a \in BackedActor, NEW x \in Packet, NEW c,
           Takes(p, a, x, c), c.live = None, UNCHANGED pipe
    PROVE  FreshInv' /\ HeaderInv' /\ FramesInv' /\ CatchupInv'
  <1> DEFINE q == Other(p)
  <1>q. q \in Peers /\ Other(p) = q /\ Other(q) = p /\ q # p /\ \A r \in Peers : r = p \/ r = q
    BY OtherFacts
  <1>2. /\ actor'[q] = actor[q] /\ W(p)' = W(p) + 1 /\ Base(q)' = Base(q)
        /\ actor'[p].stage = "none" /\ actor'[p].stream = None /\ actor'[p].old = None
        /\ actor'[p].live = None
    BY TakesFacts
  <1>t. W(p) \in Nat /\ Base(q) \in Nat
    BY <1>q, Types
  <1> HIDE DEF q
  <1>f. ASSUME NEW r \in Peers, NEW s \in Sockets
        PROVE  /\ Fresh(r, s)' = Fresh(r, s)
               /\ actor'[r].stream = s => r = q
    BY <1>2, <1>q, SocketFacts DEF Fresh, Takes
  <1>1. ASSUME NEW s \in Sockets
        PROVE  ~Feeding(p, s)' /\ s \notin {actor'[p].live, actor'[p].old, actor'[p].stream}
    BY <1>2, SocketFacts DEF Feeding
  <1>3. FreshInv'
    <2> SUFFICES ASSUME NEW r \in Peers, NEW s \in Sockets, Fresh(r, s)
                 PROVE  /\ pipe[s][Other(r)].seq = <<>>
                        /\ pipe[s][Other(r)].catchup = <<>>
                        /\ pipe[s][Other(r)].frames = <<>>
                        /\ pipe[s][r].catchup = <<>>
                        /\ pipe[s][r].frames = <<>>
                        /\ s \notin {actor'[r].live, actor'[r].old, actor'[r].stream}
                        /\ s \notin {actor'[Other(r)].live, actor'[Other(r)].old}
                        /\ actor'[Other(r)].stream = s => actor'[Other(r)].stage = "seq"
      BY <1>f, SMTT(20) DEF FreshInv
    <2>1. /\ pipe[s][Other(r)].seq = <<>>
          /\ pipe[s][Other(r)].catchup = <<>>
          /\ pipe[s][Other(r)].frames = <<>>
          /\ pipe[s][r].catchup = <<>>
          /\ pipe[s][r].frames = <<>>
          /\ s \notin {actor[r].live, actor[r].old, actor[r].stream}
          /\ s \notin {actor[Other(r)].live, actor[Other(r)].old}
          /\ actor[Other(r)].stream = s => actor[Other(r)].stage = "seq"
      BY DEF LinkInv, FreshInv
    <2>2. CASE r = p
      BY <1>1, <1>2, <1>q, <2>1, <2>2
    <2>3. CASE r = q
      <3>1. Other(r) = p /\ actor'[r] = actor[r]
        BY <1>2, <1>q, <2>3
      <3>2. s \notin {actor'[p].live, actor'[p].old, actor'[p].stream}
        BY <1>1
      <3> QED BY <2>1, <3>1, <3>2
    <2> QED BY <1>q, <2>2, <2>3
  <1>4. HeaderInv'
    <2> SUFFICES ASSUME NEW r \in Peers, NEW s \in Sockets, actor'[r].stream = s
                 PROVE  /\ pipe[s][Other(r)].seq \in {<<>>, <<actor'[r].reader_seq>>}
                        /\ actor'[r].stage = "seq" =>
                              /\ pipe[s][Other(r)].catchup = <<>>
                              /\ pipe[s][Other(r)].frames = <<>>
                              /\ s \notin {actor'[Other(r)].live, actor'[Other(r)].old}
      BY DEF HeaderInv
    <2>1. r = q /\ actor[q].stream = s
      BY <1>2, <1>f
    <2>2. /\ pipe[s][p].seq \in {<<>>, <<actor[q].reader_seq>>}
          /\ actor[q].stage = "seq" => pipe[s][p].catchup = <<>> /\ pipe[s][p].frames = <<>>
      <3>1. actor[q].stream = s /\ q \in Peers /\ p = Other(q)
        BY <1>q, <2>1
      <3> QED BY <3>1, HeaderOf
    <2> QED BY <1>1, <1>2, <1>q, <2>1, <2>2
  <1>5. FramesInv'
    <2> SUFFICES ASSUME NEW r \in Peers, NEW s \in Sockets, s \in {actor'[r].live, actor'[r].old}
                 PROVE  Continues(pipe[s][r].frames, Base(r)', W(Other(r))', Feeding(Other(r), s)')
      BY DEF FramesInv
    <2>1. r = q /\ s \in {actor[q].live, actor[q].old}
      BY <1>1, <1>2, <1>q
    <2>2. Continues(pipe[s][q].frames, Base(q), W(p), Feeding(p, s))
      BY <1>q, <2>1 DEF LinkInv, FramesInv
    <2>3. Continues(pipe[s][q].frames, Base(q), W(p) + 1, FALSE)
      BY <1>q, <1>t, <2>2, Types, ContinuesWrite
    <2> QED BY <1>1, <1>2, <1>q, <2>1, <2>3, ZenonT(60) DEF Continues
  <1>6. CatchupInv'
    <2> SUFFICES ASSUME NEW r \in Peers, NEW s \in Sockets,
                        actor'[r].stream = s, pipe[s][r].catchup # <<>>
                 PROVE  CatchupOK(r, s)'
      BY DEF CatchupInv
    <2>1. r = q /\ actor[q].stream = s
      BY <1>2, <1>f
    <2> DEFINE k == Base(q) + Len(pipe[s][q].catchup[1])
    <2>2. CatchupOK(q, s) /\ Continues(pipe[s][q].frames, k, W(p), Feeding(p, s))
      BY <1>q, <2>1 DEF LinkInv, CatchupInv, CatchupOK
    <2>3. k \in Nat /\ pipe[s][q].frames \in Seq(Nat)
      BY <1>q, <2>2, CatchupTypes
    <2>4. Continues(pipe[s][q].frames, k, W(p) + 1, FALSE)
      <3> HIDE DEF k
      <3> QED BY <1>t, <2>2, <2>3, ContinuesWrite
    <2>5. Feeding(p, s)' = FALSE
      BY <1>1, SMTT(20)
    <2> QED BY <1>2, <1>q, <2>1, <2>2, <2>4, <2>5 DEF CatchupOK
  <1> QED BY <1>3, <1>4, <1>5, <1>6

\* The packet follows the others on p's live socket.
LEMMA TakesOnline ==
    ASSUME TypeOK, LinkInv, NEW p \in Peers, NEW a \in BackedActor, NEW x \in Packet, NEW c,
           Takes(p, a, x, c), a.live # None, c.live = a.live,
           NewFrames(a.live, Other(p), Append(pipe[a.live][Other(p)].frames, a.writer_crypto + 1))
    PROVE  FreshInv' /\ HeaderInv' /\ FramesInv' /\ CatchupInv'
  <1> DEFINE q == Other(p)
             t == actor[p].live
  <1>q. q \in Peers /\ Other(p) = q /\ Other(q) = p /\ q # p /\ \A r \in Peers : r = p \/ r = q
    BY OtherFacts
  <1>2. /\ actor'[q] = actor[q] /\ W(p)' = W(p) + 1 /\ W(q)' = W(q)
        /\ Base(p)' = Base(p) /\ Base(q)' = Base(q)
        /\ actor'[p].stage = "none" /\ actor'[p].stream = None /\ actor'[p].old = None
        /\ actor[p].stage = "none" /\ actor[p].stream = None /\ actor[p].old = None
        /\ actor'[p].live = t
    BY TakesFacts DEF Takes
  <1>t. W(p) \in Nat /\ Base(q) \in Nat /\ t \in Sockets /\ Feeding(p, t)
    BY <1>q, Types DEF Takes, Feeding
  <1>p. ASSUME NEW r \in Peers, NEW s \in Sockets
        PROVE  /\ pipe'[s][r].seq = pipe[s][r].seq
               /\ pipe'[s][r].catchup = pipe[s][r].catchup
               /\ r = q /\ s = t => pipe'[s][r].frames = Append(pipe[s][r].frames, W(p) + 1)
               /\ r # q \/ s # t => pipe'[s][r].frames = pipe[s][r].frames
    <2>1. a.writer_crypto = W(p) /\ a.live = t
      BY DEF LinkInv, WriterInv, WriterOK, SameWriter, Takes
    <2>2. PICK f : f = Append(pipe[t][q].frames, W(p) + 1)
      OBVIOUS
    <2>3. NewFrames(t, q, f)
      BY <2>1, <2>2
    <2> HIDE DEF q, t
    <2>4. /\ pipe'[s][r].seq = pipe[s][r].seq
          /\ pipe'[s][r].catchup = pipe[s][r].catchup
          /\ pipe'[s][r].frames = IF s = t /\ r = q THEN f ELSE pipe[s][r].frames
      BY <1>q, <1>t, <2>3, FramesSet, SMTT(20)
    <2> QED BY <2>2, <2>4
  <1> HIDE DEF q
  <1>e. ASSUME NEW r \in Peers, NEW s \in Sockets
        PROVE  /\ actor'[r].live = actor[r].live /\ actor'[r].old = actor[r].old
               /\ actor'[r].stream = actor[r].stream /\ actor'[r].stage = actor[r].stage
               /\ Feeding(r, s)' = Feeding(r, s) /\ Fresh(r, s)' = Fresh(r, s)
               /\ actor'[r].stream = s => r = q
    <2>1. /\ actor'[r].live = actor[r].live /\ actor'[r].old = actor[r].old
          /\ actor'[r].stream = actor[r].stream /\ actor'[r].stage = actor[r].stage
      BY <1>2, <1>q
    <2>2. actor'[r].stream = s => r = q
      BY <1>2, <1>q, SocketFacts
    <2> QED BY <2>1, <2>2 DEF Feeding, Fresh, Takes
  <1>c. ASSUME NEW s \in Sockets, NEW k \in Nat, pipe[s][q].frames \in Seq(Nat),
               Continues(pipe[s][q].frames, k, W(p), Feeding(p, s))
        PROVE  Continues(pipe'[s][q].frames, k, W(p) + 1, Feeding(p, s))
    <2>1. CASE s = t
      <3>1. pipe'[s][q].frames = Append(pipe[s][q].frames, W(p) + 1)
        BY <1>p, <1>q, <2>1
      <3>2. Continues(Append(pipe[s][q].frames, W(p) + 1), k, W(p) + 1, TRUE)
        BY <1>c, <1>t, <2>1, ContinuesWrite
      <3> QED BY <3>1, <3>2 DEF Continues
    <2>2. CASE s # t
      <3>1. pipe'[s][q].frames = pipe[s][q].frames
        BY <1>p, <1>q, <2>2
      <3>2. ~Feeding(p, s)
        BY <1>2, <2>2, SocketFacts DEF Feeding, t
      <3>3. Continues(pipe[s][q].frames, k, W(p) + 1, FALSE)
        BY <1>c, <1>t, ContinuesWrite
      <3> QED BY <3>1, <3>2, <3>3 DEF Continues
    <2> QED BY <2>1, <2>2
  <1>3. FreshInv'
    <2> SUFFICES ASSUME NEW r \in Peers, NEW s \in Sockets, Fresh(r, s)'
                 PROVE  /\ pipe'[s][Other(r)].seq = <<>>
                        /\ pipe'[s][Other(r)].catchup = <<>>
                        /\ pipe'[s][Other(r)].frames = <<>>
                        /\ pipe'[s][r].catchup = <<>>
                        /\ pipe'[s][r].frames = <<>>
                        /\ s \notin {actor'[r].live, actor'[r].old, actor'[r].stream}
                        /\ s \notin {actor'[Other(r)].live, actor'[Other(r)].old}
                        /\ actor'[Other(r)].stream = s => actor'[Other(r)].stage = "seq"
      BY DEF FreshInv
    <2>0. Fresh(r, s)
      BY <1>e
    <2>1. /\ pipe[s][Other(r)].seq = <<>>
          /\ pipe[s][Other(r)].catchup = <<>>
          /\ pipe[s][Other(r)].frames = <<>>
          /\ pipe[s][r].catchup = <<>>
          /\ pipe[s][r].frames = <<>>
          /\ s \notin {actor[r].live, actor[r].old, actor[r].stream}
          /\ s \notin {actor[Other(r)].live, actor[Other(r)].old}
          /\ actor[Other(r)].stream = s => actor[Other(r)].stage = "seq"
      BY <2>0 DEF LinkInv, FreshInv
    <2>2. s # t
      BY <1>q, <2>1
    <2>3. Other(r) \in Peers
      BY <1>q
    <2>4. /\ pipe'[s][Other(r)].seq = <<>>
          /\ pipe'[s][Other(r)].catchup = <<>>
          /\ pipe'[s][Other(r)].frames = <<>>
          /\ pipe'[s][r].catchup = <<>>
          /\ pipe'[s][r].frames = <<>>
      BY <1>p, <2>1, <2>2, <2>3
    <2> QED BY <1>e, <2>1, <2>3, <2>4
  <1>4. HeaderInv'
    <2> SUFFICES ASSUME NEW r \in Peers, NEW s \in Sockets, actor'[r].stream = s
                 PROVE  /\ pipe'[s][Other(r)].seq \in {<<>>, <<actor'[r].reader_seq>>}
                        /\ actor'[r].stage = "seq" =>
                              /\ pipe'[s][Other(r)].catchup = <<>>
                              /\ pipe'[s][Other(r)].frames = <<>>
                              /\ s \notin {actor'[Other(r)].live, actor'[Other(r)].old}
      BY DEF HeaderInv
    <2>1. r = q /\ actor[q].stream = s
      BY <1>e
    <2>2. /\ pipe[s][p].seq \in {<<>>, <<actor[q].reader_seq>>}
          /\ actor[q].stage = "seq" =>
                /\ pipe[s][p].catchup = <<>>
                /\ pipe[s][p].frames = <<>>
                /\ s \notin {actor[p].live, actor[p].old}
      <3>1. /\ pipe[s][Other(q)].seq \in {<<>>, <<actor[q].reader_seq>>}
            /\ actor[q].stage = "seq" =>
                  /\ pipe[s][Other(q)].catchup = <<>>
                  /\ pipe[s][Other(q)].frames = <<>>
                  /\ s \notin {actor[Other(q)].live, actor[Other(q)].old}
        BY <1>q, <2>1 DEF LinkInv, HeaderInv
      <3> QED BY <1>q, <3>1
    <2>3. /\ pipe'[s][p].seq = pipe[s][p].seq /\ pipe'[s][p].catchup = pipe[s][p].catchup
          /\ pipe'[s][p].frames = pipe[s][p].frames
          /\ actor'[p].live = actor[p].live /\ actor'[p].old = actor[p].old
      BY <1>e, <1>p, <1>q
    <2> QED BY <1>2, <1>q, <2>1, <2>2, <2>3
  <1>5. FramesInv'
    <2> SUFFICES ASSUME NEW r \in Peers, NEW s \in Sockets, s \in {actor'[r].live, actor'[r].old}
                 PROVE  Continues(pipe'[s][r].frames, Base(r)', W(Other(r))', Feeding(Other(r), s)')
      BY DEF FramesInv
    <2>1. Continues(pipe[s][r].frames, Base(r), W(Other(r)), Feeding(Other(r), s))
      BY <1>e DEF LinkInv, FramesInv
    <2>2. CASE r = p
      <3>1. pipe'[s][p].frames = pipe[s][p].frames /\ Feeding(q, s)' = Feeding(q, s)
        BY <1>e, <1>p, <1>q
      <3> QED BY <1>2, <1>q, <2>1, <2>2, <3>1
    <2>3. CASE r = q
      <3>1. pipe[s][q].frames \in Seq(Nat)
        BY <1>q, Types
      <3>2. Continues(pipe'[s][q].frames, Base(q), W(p) + 1, Feeding(p, s))
        BY <1>c, <1>q, <1>t, <2>1, <2>3, <3>1
      <3> QED BY <1>2, <1>e, <1>q, <2>3, <3>2
    <2> QED BY <1>q, <2>2, <2>3
  <1>6. CatchupInv'
    <2> SUFFICES ASSUME NEW r \in Peers, NEW s \in Sockets,
                        actor'[r].stream = s, pipe'[s][r].catchup # <<>>
                 PROVE  CatchupOK(r, s)'
      BY DEF CatchupInv
    <2>1. r = q /\ actor[q].stream = s
      BY <1>e
    <2> DEFINE k == Base(q) + Len(pipe[s][q].catchup[1])
    <2>2. CatchupOK(q, s) /\ Continues(pipe[s][q].frames, k, W(p), Feeding(p, s))
      <3>1. pipe[s][q].catchup # <<>>
        BY <1>p, <2>1
      <3>2. CatchupOK(q, s)
        BY <1>q, <2>1, <3>1 DEF LinkInv, CatchupInv
      <3> QED BY <1>q, <3>2 DEF CatchupOK
    <2>3. k \in Nat /\ pipe[s][q].frames \in Seq(Nat)
      BY <1>q, <2>2, CatchupTypes
    <2>4. Continues(pipe'[s][q].frames, k, W(p) + 1, Feeding(p, s))
      <3> HIDE DEF k
      <3> QED BY <1>c, <2>2, <2>3
    <2>5. pipe'[s][q].catchup = pipe[s][q].catchup /\ Feeding(p, s)' = Feeding(p, s)
      BY <1>e, <1>p, <1>q
    <2> QED BY <1>2, <1>q, <2>1, <2>2, <2>4, <2>5 DEF CatchupOK
  <1> QED BY <1>3, <1>4, <1>5, <1>6

\* A packet accepted by write() joins the backup, and the frames if p has a socket.
LEMMA StepAccepted ==
    ASSUME TypeOK, LinkInv, NEW p \in Peers, NEW a \in BackedActor, NEW x \in Packet, NEW c,
           Takes(p, a, x, c)
    PROVE  LinkInv'
  <1>1. WriterInv' /\ ReaderInv'
    BY TakesWriter, TakesReader
  <1>2. StageInv' /\ OffersInv'
    <2>1. /\ \A r \in Peers : r = p \/ r = Other(p)
          /\ actor'[Other(p)] = actor[Other(p)]
          /\ actor'[p].stage = "none" /\ actor'[p].stream = None /\ actor'[p].old = None
      BY OtherFacts, TakesFacts
    <2>2. UNCHANGED <<offers, opened>>
      BY DEF Takes
    <2>3. StageInv'
      BY <2>1 DEF LinkInv, StageInv
    <2> QED BY <2>2, <2>3 DEF LinkInv, OffersInv
  <1>3. CASE c.live = None /\ UNCHANGED pipe
    <2>1. FreshInv' /\ HeaderInv' /\ FramesInv' /\ CatchupInv'
      BY <1>3, TakesOffline
    <2> QED BY <1>1, <1>2, <2>1 DEF LinkInv
  <1>4. CASE /\ a.live # None /\ c.live = a.live
             /\ pipe' = [pipe EXCEPT ![a.live][Other(p)].frames = Append(@, a.writer_crypto + 1)]
    <2>1. NewFrames(a.live, Other(p), Append(pipe[a.live][Other(p)].frames, a.writer_crypto + 1))
      BY <1>4 DEF NewFrames
    <2>2. FreshInv' /\ HeaderInv' /\ FramesInv' /\ CatchupInv'
      BY <1>4, <2>1, TakesOnline
    <2> QED BY <1>1, <1>2, <2>2 DEF LinkInv
  <1> QED BY <1>3, <1>4 DEF Takes, Accepted

\* A handler that writes a packet from actor state a.
LEMMA StepWrites ==
    ASSUME TypeOK, LinkInv, TypeOK', NEW p \in Peers, NEW a \in BackedActor,
           SameWriter(actor[p], a), SameReader(actor[p], a), SameExchange(actor[p], a),
           a.live = actor[p].live, Serving(p),
           NEW hdr \in {KEEP_ALIVE, DATA}, NEW size \in Sizes \cup {0},
           Wrote(p, a, hdr, size),
           UNCHANGED <<delivered, offers, opened>>
    PROVE  LinkInv'
  <1>1. CASE /\ actor' = [actor EXCEPT ![p] = Resume(p, a)]
             /\ UNCHANGED <<sent, pipe, broken>>
    <2>1. a.stage = "none" /\ a.stream = None /\ a.old = None /\ actor[p].pc \in Running
      BY ZenonT(60) DEF Serving, Running, SameExchange, LinkInv, StageInv
    <2> QED BY <1>1, <2>1, ResumeSettles, StepSettles
  <1>2. CASE /\ Len(sent[p]) < MaxWrites[p]
             /\ sent' = [sent EXCEPT ![p] = Append(@, [hdr |-> hdr, len |-> size + Overhead])]
             /\ \E c : Accepted(p, a, c)
    <2>1. PICK x \in Packet : x = [hdr |-> hdr, len |-> size + Overhead]
      BY DEF Packet
    <2>2. PICK c : Accepted(p, a, c)
      BY <1>2
    <2>3. sent' = [sent EXCEPT ![p] = Append(@, x)]
      BY <1>2, <2>1
    <2>4. Takes(p, a, x, c)
      BY <1>2, <2>2, <2>3 DEF Takes
    <2> QED BY <2>4, StepAccepted
  <1> QED BY <1>1, <1>2 DEF Wrote

-----------------------------------------------------------------------------
(* Reading a frame, the offer of a socket, the start of a recover exchange *)
(* and its two reads: the header is answered by exactly the packets the    *)
(* peer lacks.                                                             *)

\* Frames that continue after base still do when the first is read.
LEMMA ContinuesRead ==
    ASSUME NEW in \in Seq(Nat), NEW base \in Nat, NEW n \in Nat, NEW fed,
           Continues(in, base, n, fed), in # <<>>
    PROVE  /\ Head(in) = base + 1 /\ base + 1 <= n
           /\ Continues(Tail(in), base + 1, n, fed)
  <1> DEFINE out == Tail(in)
  <1>0. Len(in) \in Nat /\ Len(in) >= 1
    BY SeqLen, SMTT(20)
  <1>1. Len(out) = Len(in) - 1 /\ \A i \in 1 .. Len(out) : out[i] = in[i + 1]
    BY SeqHead
  <1>2. Head(in) = in[1]
    BY SMTT(20)
  <1> HIDE DEF out
  <1>3. ASSUME NEW i \in 1 .. Len(out) PROVE out[i] = (base + 1) + i
    <2>1. i + 1 \in 1 .. Len(in)
      BY <1>0, <1>1, SMTT(20)
    <2>2. in[i + 1] = base + (i + 1)
      BY <2>1 DEF Continues
    <2> QED BY <1>0, <1>1, <2>2, SMTT(20)
  <1>4. Head(in) = base + 1 /\ base + 1 <= n
    BY <1>0, <1>2, SMTT(20) DEF Continues
  <1>5. (base + 1) + Len(out) = base + Len(in)
    BY <1>0, <1>1, SMTT(20)
  <1> QED BY <1>3, <1>4, <1>5 DEF Continues, out

\* p's actor takes a frame off its live socket.
Reads(p) ==
    LET a == actor[p]
        in == pipe[a.live][p].frames
    IN  /\ a.pc = "select" /\ a.stage = "none" /\ a.live # None /\ in # <<>>
        /\ actor' = [actor EXCEPT ![p] = Resume(p, [a EXCEPT !.inbox = Append(@, Head(in))])]
        /\ NewFrames(a.live, p, Tail(in))
        /\ UNCHANGED <<sent, delivered, offers, opened>>

\* A frame read off the live socket moves on to the inbox.
LEMMA StepReads ==
    ASSUME TypeOK, LinkInv, NEW p \in Peers, Reads(p)
    PROVE  LinkInv'
  <1> DEFINE q == Other(p)
             a == actor[p]
             b == actor'[p]
             t == actor[p].live
             in == pipe[t][p].frames
             c == [a EXCEPT !.inbox = Append(@, Head(in))]
  <1>q. q \in Peers /\ Other(p) = q /\ Other(q) = p /\ q # p /\ \A r \in Peers : r = p \/ r = q
    BY OtherFacts, SMTT(30)
  <1>1. /\ a.pc = "select" /\ a.stage = "none" /\ t # None /\ in # <<>>
        /\ actor' = [actor EXCEPT ![p] = Resume(p, c)]
        /\ NewFrames(t, p, Tail(in))
        /\ UNCHANGED <<sent, delivered, offers, opened>>
    BY DEF Reads
  <1>2. /\ a \in BackedActor /\ t \in Sockets /\ in \in Seq(Nat) /\ a.inbox \in Seq(Nat)
        /\ Base(p) \in Nat /\ W(q) \in Nat /\ delivered[p] \in Seq(Nat) /\ a.reader_seq \in Nat
    BY <1>1, <1>q, Types DEF TypeOK
  <1>3. a.inbox = <<>> /\ Base(p) = a.reader_seq /\ a.stream = None /\ a.old = None
    BY <1>1, <1>2, SMTT(20) DEF LinkInv, ReaderInv, StageInv, Base
  <1>4. Continues(in, Base(p), W(q), Feeding(q, t))
    BY <1>2 DEF LinkInv, FramesInv
  <1> HIDE DEF in
  <1>5. /\ Head(in) = Base(p) + 1 /\ Base(p) + 1 <= W(q)
        /\ Continues(Tail(in), Base(p) + 1, W(q), Feeding(q, t))
    BY <1>1, <1>2, <1>4, ContinuesRead
  <1>6. PICK i : i = Append(a.inbox, Head(in))
    OBVIOUS
  <1>7. i \in Seq(Nat) /\ Len(i) = 1 /\ i[1] = a.reader_seq + 1
    BY <1>2, <1>3, <1>5, <1>6, SMTT(20)
  <1>8. c = [a EXCEPT !.inbox = i]
    BY <1>6
  <1> HIDE DEF c, a, t, q, b
  <1>9. /\ c \in BackedActor /\ SameWriter(a, c) /\ SameExchange(a, c) /\ c.live = t
        /\ c.inbox = i /\ c.pc = "select" /\ c.dead_sent = a.dead_sent
        /\ c.reader_seq = a.reader_seq /\ c.reader_crypto = a.reader_crypto
    BY <1>1, <1>2, <1>7, <1>8, InboxFacts, SMTT(20) DEF a, t
  <1>10. Resumed(c, Resume(p, c), delivered[p], W(q))
    <2>1. InStep(a, delivered[p], W(q))
      BY DEF LinkInv, ReaderInv, a, q
    <2>2. InStep(c, delivered[p], W(q))
      <3>1. \A j \in 1 .. Len(c.inbox) : c.inbox[j] = c.reader_seq + j
        <4> SUFFICES ASSUME NEW j \in 1 .. Len(i) PROVE i[j] = a.reader_seq + j
          BY <1>9
        <4>1. j = 1
          BY <1>7, SMTT(20)
        <4> QED BY <1>7, <4>1
      <3>2. c.reader_seq + Len(c.inbox) <= W(q)
        BY <1>3, <1>5, <1>7, <1>9
      <3> QED BY <1>1, <1>9, <2>1, <3>1, <3>2 DEF InStep
    <2> QED BY <1>2, <1>9, <2>2, ResumeFacts DEF Running
  <1>11. b = Resume(p, c) /\ actor'[q] = actor[q]
    BY <1>1, <1>10, Moves DEF Resumed, b, q
  <1>12. /\ b.stage = "none" /\ b.stream = None /\ b.old = None /\ b.live = t
         /\ SameWriter(a, b) /\ InStep(b, delivered[p], W(q))
         /\ b.pc = "select" => b.inbox = <<>>
    BY <1>1, <1>3, <1>9, <1>10, <1>11 DEF Resumed, SameExchange, SameWriter
  <1>13. Base(p)' = Base(p) + 1
    BY <1>2, <1>3, <1>7, <1>9, <1>10, <1>11 DEF Resumed, Base, b
  <1>14. /\ WriterInv' /\ ReaderInv' /\ Base(q)' = Base(q)
         /\ \A r \in Peers : W(r)' = W(r) /\ W(Other(r))' = W(Other(r))
    BY <1>1, <1>11, <1>12, <1>q, Keeps DEF a, b
  <1>15. StageInv' /\ OffersInv'
    BY <1>1, <1>11, <1>12, <1>q, SMTT(20) DEF LinkInv, StageInv, OffersInv, b
  <1>f. ASSUME NEW r \in Peers, NEW s \in Sockets
        PROVE  /\ Fresh(r, s)' = Fresh(r, s) /\ Feeding(r, s)' = Feeding(r, s)
               /\ actor'[r].live = actor[r].live /\ actor'[r].old = actor[r].old
               /\ actor'[r].stream = actor[r].stream /\ actor'[r].stage = actor[r].stage
    <2>1. /\ actor'[r].live = actor[r].live /\ actor'[r].old = actor[r].old
          /\ actor'[r].stream = actor[r].stream /\ actor'[r].stage = actor[r].stage
      BY <1>1, <1>3, <1>11, <1>12, <1>q DEF a, b, t
    <2> QED BY <1>1, <2>1 DEF Fresh, Feeding
  <1>p. ASSUME NEW r \in Peers, NEW s \in Sockets
        PROVE  /\ pipe'[s][r].seq = pipe[s][r].seq
               /\ pipe'[s][r].catchup = pipe[s][r].catchup
               /\ pipe'[s][r].frames = IF s = t /\ r = p THEN Tail(in) ELSE pipe[s][r].frames
    BY <1>1, <1>2, FramesSet, SMTT(20)
  <1>16. FreshInv'
    <2> SUFFICES ASSUME NEW r \in Peers, NEW s \in Sockets, Fresh(r, s)
                 PROVE  /\ pipe'[s][Other(r)].seq = <<>>
                        /\ pipe'[s][Other(r)].catchup = <<>>
                        /\ pipe'[s][Other(r)].frames = <<>>
                        /\ pipe'[s][r].catchup = <<>>
                        /\ pipe'[s][r].frames = <<>>
                        /\ s \notin {actor'[r].live, actor'[r].old, actor'[r].stream}
                        /\ s \notin {actor'[Other(r)].live, actor'[Other(r)].old}
                        /\ actor'[Other(r)].stream = s => actor'[Other(r)].stage = "seq"
      BY <1>f DEF FreshInv
    <2>1. /\ pipe[s][Other(r)].seq = <<>>
          /\ pipe[s][Other(r)].catchup = <<>>
          /\ pipe[s][Other(r)].frames = <<>>
          /\ pipe[s][r].catchup = <<>>
          /\ pipe[s][r].frames = <<>>
          /\ s \notin {actor[r].live, actor[r].old, actor[r].stream}
          /\ s \notin {actor[Other(r)].live, actor[Other(r)].old}
          /\ actor[Other(r)].stream = s => actor[Other(r)].stage = "seq"
      BY DEF LinkInv, FreshInv
    <2>2. s # t
      BY <1>q, <2>1 DEF t
    <2> QED BY <1>f, <1>p, <1>q, <2>1, <2>2, SMTT(20)
  <1>17. HeaderInv'
    <2> SUFFICES ASSUME NEW r \in Peers, NEW s \in Sockets, actor'[r].stream = s
                 PROVE  /\ pipe'[s][Other(r)].seq \in {<<>>, <<actor'[r].reader_seq>>}
                        /\ actor'[r].stage = "seq" =>
                              /\ pipe'[s][Other(r)].catchup = <<>>
                              /\ pipe'[s][Other(r)].frames = <<>>
                              /\ s \notin {actor'[Other(r)].live, actor'[Other(r)].old}
      BY DEF HeaderInv
    <2>1. r = q /\ Other(r) = p
      BY <1>12, <1>q, SocketFacts DEF b
    <2>2. /\ pipe[s][p].seq \in {<<>>, <<actor[q].reader_seq>>}
          /\ actor[q].stage = "seq" =>
                /\ pipe[s][p].catchup = <<>>
                /\ pipe[s][p].frames = <<>>
                /\ s \notin {actor[p].live, actor[p].old}
      BY <1>f, <1>q, <2>1, SMTT(20) DEF LinkInv, HeaderInv
    <2> QED BY <1>f, <1>p, <1>q, <1>11, <2>1, <2>2, SMTT(20) DEF t
  <1>18. FramesInv'
    <2> SUFFICES ASSUME NEW r \in Peers, NEW s \in Sockets, s \in {actor'[r].live, actor'[r].old}
                 PROVE  Continues(pipe'[s][r].frames, Base(r)', W(Other(r))', Feeding(Other(r), s)')
      BY DEF FramesInv
    <2>1. CASE r = p
      <3>1. s = t
        BY <1>12, <2>1, SocketFacts, SMTT(30) DEF b
      <3> QED BY <1>2, <1>5, <1>13, <1>14, <1>f, <1>p, <1>q, <2>1, <3>1
    <2>2. CASE r = q
      <3>1. Continues(pipe[s][q].frames, Base(q), W(p), Feeding(p, s))
        BY <1>f, <1>q, <2>2 DEF LinkInv, FramesInv
      <3> QED BY <1>14, <1>f, <1>p, <1>q, <2>2, <3>1, SMTT(30)
    <2> QED BY <1>q, <2>1, <2>2
  <1>19. CatchupInv'
    <2> SUFFICES ASSUME NEW r \in Peers, NEW s \in Sockets,
                        actor'[r].stream = s, pipe'[s][r].catchup # <<>>
                 PROVE  CatchupOK(r, s)'
      BY DEF CatchupInv
    <2>1. r = q
      BY <1>12, <1>q, SocketFacts DEF b
    <2>2. CatchupOK(q, s)
      BY <1>f, <1>p, <1>q, <2>1, SMTT(30) DEF LinkInv, CatchupInv
    <2>3. /\ pipe'[s][q].catchup = pipe[s][q].catchup /\ pipe'[s][q].frames = pipe[s][q].frames
          /\ Feeding(p, s)' = Feeding(p, s) /\ W(p)' = W(p)
      BY <1>14, <1>f, <1>p, <1>q, ZenonT(60)
    <2> QED BY <1>14, <1>q, <2>1, <2>2, <2>3 DEF CatchupOK
  <1> QED BY <1>14, <1>15, <1>16, <1>17, <1>18, <1>19 DEF LinkInv

\* The next socket is offered to both ends.
Opens ==
    /\ opened + 1 \in Sockets
    /\ opened' = opened + 1
    /\ \A r \in Peers : offers'[r] = Append(offers[r], opened + 1)
    /\ UNCHANGED <<actor, sent, delivered, pipe>>

\* A socket offered to both ends is one that neither has touched.
LEMMA StepConnect ==
    ASSUME TypeOK, LinkInv, Opens
    PROVE  LinkInv'
  <1> DEFINE t == opened + 1
  <1>1. /\ opened \in Nat /\ t \in Nat /\ opened' = t
        /\ \A r \in Peers : offers'[r] = Append(offers[r], t)
        /\ t \in Sockets
        /\ UNCHANGED <<actor, sent, delivered, pipe>>
    BY SocketFacts DEF Opens, TypeOK
  <1> HIDE DEF t
  <1>2. ASSUME NEW r \in Peers
        PROVE  /\ Len(offers[r]) \in Nat /\ Len(offers'[r]) = Len(offers[r]) + 1
               /\ \A i \in 1 .. Len(offers[r]) : offers'[r][i] = offers[r][i] /\ offers[r][i] \in Nat
               /\ offers'[r][Len(offers[r]) + 1] = t
    <2>1. offers[r] \in Seq(Sockets)
      BY DEF TypeOK
    <2>2. Len(offers[r]) \in Nat /\ \A i \in 1 .. Len(offers[r]) : offers[r][i] \in Sockets
      BY <2>1, SeqLen
    <2>4. /\ Len(offers'[r]) = Len(offers[r]) + 1
          /\ \A i \in 1 .. Len(offers[r]) : offers'[r][i] = offers[r][i]
          /\ offers'[r][Len(offers[r]) + 1] = t
      BY <1>1, <2>1, <2>2, SeqAppend, SMTT(20)
    <2> QED BY <2>2, <2>4, SocketFacts
  <1>3. ASSUME NEW r \in Peers, NEW s \in Sockets, Fresh(r, s)'
        PROVE  Fresh(r, s)
    <2>1. CASE t < s
      BY <1>1, <2>1, SocketFacts, SMTT(20) DEF Fresh, t
    <2>2. CASE \E i \in 1 .. Len(offers'[r]) : offers'[r][i] = s
      <3>1. PICK i \in 1 .. Len(offers'[r]) : offers'[r][i] = s
        BY <2>2
      <3>2. CASE i \in 1 .. Len(offers[r])
        BY <1>2, <3>1, <3>2 DEF Fresh
      <3>3. CASE i = Len(offers[r]) + 1
        BY <1>1, <1>2, <3>1, <3>3, SMTT(20) DEF Fresh, t
      <3> QED BY <1>2, <3>2, <3>3, SMTT(20)
    <2> QED BY <1>1, <1>3, <2>1, <2>2 DEF Fresh
  <1>4. OffersInv'
    <2> SUFFICES ASSUME NEW r \in Peers
                 PROVE  /\ \A i \in 1 .. Len(offers'[r]) : offers'[r][i] <= opened'
                        /\ \A i, j \in 1 .. Len(offers'[r]) :
                              offers'[r][i] = offers'[r][j] => i = j
      BY DEF OffersInv
    <2> DEFINE n == Len(offers[r])
    <2>1. /\ \A i \in 1 .. n : offers[r][i] <= opened
          /\ \A i, j \in 1 .. n : offers[r][i] = offers[r][j] => i = j
      BY DEF LinkInv, OffersInv
    <2>2. /\ n \in Nat /\ Len(offers'[r]) = n + 1
          /\ \A i \in 1 .. n : offers'[r][i] = offers[r][i] /\ offers[r][i] \in Nat
          /\ offers'[r][n + 1] = t
      BY <1>2
    <2> HIDE DEF n
    <2>3. \A i \in 1 .. n : offers'[r][i] < t
      BY <1>1, <2>1, <2>2, SMTT(20) DEF t
    <2>4. \A i \in 1 .. n + 1 : i \in 1 .. n \/ i = n + 1
      BY <2>2, SMTT(20)
    <2>5. ASSUME NEW i \in 1 .. n + 1 PROVE offers'[r][i] <= t
      <3>1. CASE i = n + 1
        BY <1>1, <2>2, <3>1, SMTT(20)
      <3>2. CASE i \in 1 .. n
        BY <1>1, <2>2, <2>3, <3>2, SMTT(20)
      <3> QED BY <2>4, <3>1, <3>2
    <2>6. ASSUME NEW i \in 1 .. n + 1, NEW j \in 1 .. n + 1, offers'[r][i] = offers'[r][j]
          PROVE  i = j
      BY <1>1, <2>1, <2>2, <2>3, <2>4, <2>6, SMTT(30)
    <2> QED BY <1>1, <2>2, <2>5, <2>6
  <1>5. WriterInv' /\ ReaderInv' /\ StageInv' /\ HeaderInv'
    BY <1>1 DEF LinkInv, WriterInv, ReaderInv, StageInv, HeaderInv, W
  <1>6. FramesInv' /\ CatchupInv'
    <2>1. \A r : W(r)' = W(r) /\ Base(r)' = Base(r)
      BY <1>1 DEF W, Base
    <2>2. \A r, s : Feeding(r, s)' = Feeding(r, s)
      BY <1>1 DEF Feeding
    <2>3. FramesInv'
      BY <1>1, <2>1, <2>2 DEF LinkInv, FramesInv
    <2>4. \A r, s : CatchupOK(r, s)' = CatchupOK(r, s)
      BY <1>1, <2>1, <2>2 DEF CatchupOK
    <2>5. CatchupInv'
      BY <1>1, <2>4 DEF LinkInv, CatchupInv
    <2> QED BY <2>3, <2>5
  <1>7. FreshInv'
    BY <1>1, <1>3, SMTT(20) DEF LinkInv, FreshInv
  <1> QED BY <1>4, <1>5, <1>6, <1>7 DEF LinkInv

NewSeq(t, q, f) == pipe' = [pipe EXCEPT ![t][q].seq = f]

\* What the pipes hold after the header of one direction changed.
LEMMA SeqSet ==
    ASSUME TypeOK, NEW t \in Sockets, NEW q \in Peers, NEW f,
           NewSeq(t, q, f)
    PROVE  \A s \in Sockets, r \in Peers :
              /\ pipe'[s][r].seq = IF s = t /\ r = q THEN f ELSE pipe[s][r].seq
              /\ pipe'[s][r].catchup = pipe[s][r].catchup
              /\ pipe'[s][r].frames = pipe[s][r].frames
  <1>1. \A s \in Sockets, r \in Peers : (s = t /\ r = q) \/ pipe'[s][r] = pipe[s][r]
    BY DEF TypeOK, NewSeq
  <1>2. pipe'[t][q] = [pipe[t][q] EXCEPT !.seq = f]
    BY ZenonT(60) DEF TypeOK, NewSeq
  <1>3. pipe[t][q] \in Direction
    BY PipeUpdates
  <1> QED BY <1>1, <1>2, <1>3, SMTT(20) DEF Direction

\* p's actor opens an exchange on the socket it is offered.
Starts(p) ==
    LET a == actor[p]
        t == Head(offers[p])
    IN  /\ a.pc \in Running /\ a.stage = "none" /\ a.inbox = <<>> /\ offers[p] # <<>>
        /\ offers' = [offers EXCEPT ![p] = Tail(@)]
        /\ actor' = [actor EXCEPT ![p] =
              [a EXCEPT !.stage = "seq", !.stream = t, !.old = a.live, !.live = None]]
        /\ NewSeq(t, Other(p), Append(pipe[t][Other(p)].seq, a.reader_seq))
        /\ UNCHANGED <<sent, delivered, opened>>

\* An exchange opens on a socket nobody has used in p's direction.
LEMMA StepStart ==
    ASSUME TypeOK, LinkInv, NEW p \in Peers, Starts(p)
    PROVE  LinkInv'
  <1> DEFINE q == Other(p)
             a == actor[p]
             b == actor'[p]
             t == Head(offers[p])
  <1>q. q \in Peers /\ Other(p) = q /\ Other(q) = p /\ q # p /\ \A r \in Peers : r = p \/ r = q
    BY OtherFacts
  <1>1. /\ a.pc \in Running /\ a.stage = "none" /\ a.inbox = <<>> /\ offers[p] # <<>>
        /\ offers' = [offers EXCEPT ![p] = Tail(@)]
        /\ actor' = [actor EXCEPT ![p] =
              [a EXCEPT !.stage = "seq", !.stream = t, !.old = a.live, !.live = None]]
        /\ NewSeq(t, q, Append(pipe[t][q].seq, a.reader_seq))
        /\ UNCHANGED <<sent, delivered, opened>>
    BY DEF Starts
  <1>2. /\ offers[p] \in Seq(Sockets) /\ Len(offers[p]) >= 1 /\ Len(offers[p]) \in Nat
        /\ t = offers[p][1] /\ t \in Sockets /\ opened \in Sockets
        /\ Len(Tail(offers[p])) = Len(offers[p]) - 1
        /\ \A i \in 1 .. Len(Tail(offers[p])) : Tail(offers[p])[i] = offers[p][i + 1]
    <2>1. offers[p] \in Seq(Sockets) /\ opened \in Sockets
      BY DEF TypeOK
    <2>2. Len(offers[p]) >= 1 /\ Len(offers[p]) \in Nat
      BY <1>1, <2>1, SeqLen, SMTT(20)
    <2>3. t = offers[p][1] /\ t \in Sockets
      BY <1>1, <2>1, SeqHead, SMTT(20)
    <2> QED BY <1>1, <2>1, <2>2, <2>3, SeqHead, SMTT(30)
  <1>3. offers'[p] = Tail(offers[p]) /\ offers'[q] = offers[q]
    BY <1>1, <1>q DEF TypeOK
  <1>4. a \in BackedActor /\ a.stream = None /\ a.old = None
    BY <1>1, SMTT(30) DEF LinkInv, StageInv, TypeOK
  <1>t. t <= opened /\ Fresh(p, t)
    BY <1>2, SMTT(20) DEF LinkInv, OffersInv, Fresh
  <1> HIDE DEF a, t, q, b
  <1>5. /\ actor'[q] = actor[q] /\ SameWriter(a, b) /\ SameReader(a, b)
        /\ b.stage = "seq" /\ b.stream = t /\ b.old = a.live /\ b.live = None
    <2>1. PICK c : c = [a EXCEPT !.stage = "seq", !.stream = t, !.old = a.live, !.live = None]
      OBVIOUS
    <2>2. /\ c \in BackedActor /\ SameWriter(a, c) /\ SameReader(a, c)
          /\ c.stage = "seq" /\ c.stream = t /\ c.old = a.live /\ c.live = None
      BY <1>2, <1>4, <2>1, StartFacts
    <2>3. actor' = [actor EXCEPT ![p] = c]
      BY <1>1, <2>1
    <2> QED BY <2>2, <2>3, Moves DEF b, q
  <1>6. /\ WriterInv' /\ ReaderInv' /\ Base(q)' = Base(q) /\ Base(p)' = Base(p)
        /\ \A r \in Peers : W(r)' = W(r) /\ W(Other(r))' = W(Other(r))
    <2>1. InStep(b, delivered[p], W(q)) /\ (b.pc = "select" => b.inbox = <<>>)
      <3>1. InStep(a, delivered[p], W(q)) /\ (a.pc = "select" => a.inbox = <<>>)
        BY DEF LinkInv, ReaderInv, a, q
      <3>2. SameReader(a, b)
        BY <1>5
      <3> QED BY <3>1, <3>2 DEF SameReader, InStep
    <2>2. Base(p)' = Base(p)
      BY <1>5 DEF Base, SameReader, a, b
    <2> QED BY <1>1, <1>5, <1>q, <2>1, <2>2, Keeps DEF a, b
  <1>7. StageInv'
    <2>1. b.inbox = <<>> /\ b.pc \in Running /\ t # None
      BY <1>1, <1>2, <1>5, SocketFacts DEF SameReader, a
    <2> QED BY <1>5, <1>q, <2>1 DEF LinkInv, StageInv, b, Running
  <1>8. OffersInv'
    <2>1. \A i \in 1 .. Len(offers'[p]) : i + 1 \in 1 .. Len(offers[p]) /\ offers'[p][i] = offers[p][i + 1]
      BY <1>2, <1>3, SMTT(20)
    <2>2. \A i \in 1 .. Len(offers'[p]) : offers'[p][i] <= opened
      BY <2>1 DEF LinkInv, OffersInv
    <2>3. ASSUME NEW i \in 1 .. Len(offers'[p]), NEW j \in 1 .. Len(offers'[p]),
                 offers'[p][i] = offers'[p][j]
          PROVE  i = j
      <3>1. i + 1 = j + 1
        BY <2>1, <2>3 DEF LinkInv, OffersInv
      <3> QED BY <1>2, <1>3, <3>1, SMTT(20)
    <2> QED BY <1>1, <1>3, <1>q, <2>2, <2>3, SMTT(30) DEF LinkInv, OffersInv
  <1>f. ASSUME NEW r \in Peers, NEW s \in Sockets, Fresh(r, s)'
        PROVE  Fresh(r, s) /\ (s = t => r = q)
    <2>1. CASE r = q
      BY <1>1, <1>3, <1>f, <2>1 DEF Fresh
    <2>2. CASE r = p
      <3>1. CASE opened < s
        <4>1. ~(opened < t)
          BY <1>2, <1>t, SocketFacts, SMTT(20)
        <4> QED BY <2>2, <3>1, <4>1 DEF Fresh
      <3>2. CASE \E i \in 1 .. Len(offers'[p]) : offers'[p][i] = s
        <4>1. PICK i \in 1 .. Len(offers'[p]) : offers'[p][i] = s
          BY <3>2
        <4>2. i + 1 \in 1 .. Len(offers[p]) /\ offers[p][i + 1] = s /\ i + 1 # 1
          BY <1>2, <1>3, <4>1, SMTT(20)
        <4>3. 1 \in 1 .. Len(offers[p])
          BY <1>2, SMTT(20)
        <4>4. s # t
          BY <1>2, <4>2, <4>3, SMTT(30) DEF LinkInv, OffersInv
        <4> QED BY <2>2, <4>2, <4>4 DEF Fresh
      <3> QED BY <1>1, <1>f, <2>2, <3>1, <3>2 DEF Fresh
    <2> QED BY <1>q, <2>1, <2>2
  <1>h. pipe[t][q].seq = <<>>
    BY <1>2, <1>t, <1>q, SMTT(30) DEF LinkInv, FreshInv
  <1>p. ASSUME NEW r \in Peers, NEW s \in Sockets
        PROVE  /\ s = t /\ r = q => pipe'[s][r].seq = <<a.reader_seq>>
               /\ s # t \/ r # q => pipe'[s][r].seq = pipe[s][r].seq
               /\ pipe'[s][r].catchup = pipe[s][r].catchup
               /\ pipe'[s][r].frames = pipe[s][r].frames
    <2>1. NewSeq(t, q, <<a.reader_seq>>)
      BY <1>1, <1>h, SMTT(20)
    <2>2. pipe'[s][r].seq = IF s = t /\ r = q THEN <<a.reader_seq>> ELSE pipe[s][r].seq
      BY <1>2, <1>q, <2>1, SeqSet, SMTT(20)
    <2>3. pipe'[s][r].catchup = pipe[s][r].catchup /\ pipe'[s][r].frames = pipe[s][r].frames
      BY <1>2, <1>q, <2>1, SeqSet, SMTT(20)
    <2> QED BY <2>2, <2>3
  <1>g. \A r \in Peers, s \in Sockets : Feeding(r, s)' = Feeding(r, s)
    <2>1. \A s \in Sockets : Feeding(p, s)' = Feeding(p, s)
      BY <1>4, <1>5, SocketFacts DEF Feeding, a, b
    <2>2. \A s \in Sockets : Feeding(q, s)' = Feeding(q, s)
      BY <1>5, SMTT(30) DEF Feeding
    <2> QED BY <1>q, <2>1, <2>2, SMTT(30)
  <1>9. FreshInv'
    <2> SUFFICES ASSUME NEW r \in Peers, NEW s \in Sockets, Fresh(r, s)'
                 PROVE  /\ pipe'[s][Other(r)].seq = <<>>
                        /\ pipe'[s][Other(r)].catchup = <<>>
                        /\ pipe'[s][Other(r)].frames = <<>>
                        /\ pipe'[s][r].catchup = <<>>
                        /\ pipe'[s][r].frames = <<>>
                        /\ s \notin {actor'[r].live, actor'[r].old, actor'[r].stream}
                        /\ s \notin {actor'[Other(r)].live, actor'[Other(r)].old}
                        /\ actor'[Other(r)].stream = s => actor'[Other(r)].stage = "seq"
      BY SMTT(30) DEF FreshInv
    <2>1. /\ pipe[s][Other(r)].seq = <<>>
          /\ pipe[s][Other(r)].catchup = <<>>
          /\ pipe[s][Other(r)].frames = <<>>
          /\ pipe[s][r].catchup = <<>>
          /\ pipe[s][r].frames = <<>>
          /\ s \notin {actor[r].live, actor[r].old, actor[r].stream}
          /\ s \notin {actor[Other(r)].live, actor[Other(r)].old}
          /\ actor[Other(r)].stream = s => actor[Other(r)].stage = "seq"
      BY <1>f, SMTT(30) DEF LinkInv, FreshInv
    <2>2. CASE r = p
      <3>1. s # t /\ Other(r) = q
        BY <1>f, <1>q, <2>2
      <3>2. /\ pipe'[s][q].seq = <<>> /\ pipe'[s][q].catchup = <<>> /\ pipe'[s][q].frames = <<>>
            /\ pipe'[s][p].catchup = <<>> /\ pipe'[s][p].frames = <<>>
        BY <1>p, <1>q, <2>1, <2>2, <3>1, SMTT(20)
      <3>3. s \notin {b.live, b.old, b.stream}
        BY <1>5, <2>1, <2>2, <3>1, SocketFacts DEF a
      <3> QED BY <1>5, <2>1, <2>2, <3>1, <3>2, <3>3 DEF b
    <2>3. CASE r = q
      <3>1. /\ pipe'[s][p].seq = <<>> /\ pipe'[s][p].catchup = <<>> /\ pipe'[s][p].frames = <<>>
            /\ pipe'[s][q].catchup = <<>> /\ pipe'[s][q].frames = <<>>
        BY <1>p, <1>q, <2>1, <2>3, SMTT(20)
      <3>2. s \notin {b.live, b.old}
        BY <1>5, <1>q, <2>1, <2>3, SocketFacts DEF a
      <3> QED BY <1>5, <1>q, <2>1, <2>3, <3>1, <3>2 DEF b
    <2> QED BY <1>q, <2>2, <2>3
  <1>10. HeaderInv'
    <2> SUFFICES ASSUME NEW r \in Peers, NEW s \in Sockets, actor'[r].stream = s
                 PROVE  /\ pipe'[s][Other(r)].seq \in {<<>>, <<actor'[r].reader_seq>>}
                        /\ actor'[r].stage = "seq" =>
                              /\ pipe'[s][Other(r)].catchup = <<>>
                              /\ pipe'[s][Other(r)].frames = <<>>
                              /\ s \notin {actor'[Other(r)].live, actor'[Other(r)].old}
      BY SMTT(30) DEF HeaderInv
    <2>1. CASE r = p
      <3>1. s = t /\ Other(r) = q /\ actor'[p].reader_seq = a.reader_seq
        BY <1>5, <1>q, <2>1 DEF SameReader, b
      <3>2. /\ pipe[t][q].catchup = <<>> /\ pipe[t][q].frames = <<>>
            /\ t \notin {actor[q].live, actor[q].old}
        BY <1>2, <1>t, <1>q DEF LinkInv, FreshInv
      <3>3. /\ pipe'[t][q].seq = <<a.reader_seq>>
            /\ pipe'[t][q].catchup = <<>> /\ pipe'[t][q].frames = <<>>
        BY <1>2, <1>p, <1>q, <3>2, ZenonT(60)
      <3> QED BY <1>5, <1>q, <2>1, <3>1, <3>2, <3>3
    <2>2. CASE r = q
      <3>1. /\ pipe[s][p].seq \in {<<>>, <<actor[q].reader_seq>>}
            /\ actor[q].stage = "seq" =>
                  /\ pipe[s][p].catchup = <<>>
                  /\ pipe[s][p].frames = <<>>
                  /\ s \notin {actor[p].live, actor[p].old}
        <4>1. actor[q].stream = s
          BY <1>5, <2>2
        <4> QED BY <1>q, <4>1, HeaderOf
      <3>2. /\ pipe'[s][p].seq = pipe[s][p].seq /\ pipe'[s][p].catchup = pipe[s][p].catchup
            /\ pipe'[s][p].frames = pipe[s][p].frames
        BY <1>p, <1>q
      <3> QED BY <1>5, <1>q, <2>2, <3>1, <3>2, SocketFacts DEF a, b
    <2> QED BY <1>q, <2>1, <2>2
  <1>11. FramesInv'
    <2> SUFFICES ASSUME NEW r \in Peers, NEW s \in Sockets, s \in {actor'[r].live, actor'[r].old}
                 PROVE  Continues(pipe'[s][r].frames, Base(r)', W(Other(r))', Feeding(Other(r), s)')
      BY DEF FramesInv
    <2>1. s \in {actor[r].live, actor[r].old} /\ Other(r) \in Peers
      BY <1>5, <1>q, SocketFacts, SMTT(30) DEF a, b
    <2>2. Continues(pipe[s][r].frames, Base(r), W(Other(r)), Feeding(Other(r), s))
      BY <2>1 DEF LinkInv, FramesInv
    <2>3. Base(r)' = Base(r)
      BY <1>6, <1>q
    <2> QED BY <1>6, <1>g, <1>p, <2>1, <2>2, <2>3
  <1>12. CatchupInv'
    <2> SUFFICES ASSUME NEW r \in Peers, NEW s \in Sockets,
                        actor'[r].stream = s, pipe'[s][r].catchup # <<>>
                 PROVE  CatchupOK(r, s)'
      BY DEF CatchupInv
    <2>1. r = q
      <3>1. pipe[t][p].catchup = <<>>
        BY <1>2, <1>t DEF LinkInv, FreshInv
      <3> QED BY <1>5, <1>p, <1>q, <3>1, SMTT(20) DEF b
    <2>2. CatchupOK(q, s)
      BY <1>5, <1>p, <1>q, <2>1, SMTT(20) DEF LinkInv, CatchupInv
    <2>3. /\ pipe'[s][q].catchup = pipe[s][q].catchup /\ pipe'[s][q].frames = pipe[s][q].frames
          /\ Feeding(Other(q), s)' = Feeding(Other(q), s) /\ W(Other(q))' = W(Other(q))
          /\ Base(q)' = Base(q)
      BY <1>6, <1>g, <1>p, <1>q
    <2> QED BY <2>1, <2>2, <2>3, ZenonT(60) DEF CatchupOK
  <1> QED BY <1>6, <1>7, <1>8, <1>9, <1>10, <1>11, <1>12 DEF LinkInv


-----------------------------------------------------------------------------


\* The newest n packets of the backup are the last n written.
LEMMA CatchupFacts ==
    ASSUME NEW p \in Peers, NEW a \in BackedActor, NEW w \in Nat, WriterOK(p, a, w),
           NEW h \in Nat, CanRecover(a, h)
    PROVE  LET c == Catchup(a, ToRecover(a, h))
           IN  c \in Seq(Nat) /\ h + Len(c) = w /\ \A i \in 1 .. Len(c) : c[i] = h + i
  <1> DEFINE n == ToRecover(a, h)
             l == Len(a.backup)
             c == SubSeq(a.backup, l - n + 1, l)
  <1>1. a.backup \in Seq(Nat) /\ l \in Nat
    BY SeqLen DEF BackedActor
  <1>2. n \in Int /\ n = w - h /\ n >= 0 /\ n <= l
    BY <1>1, SMTT(20) DEF WriterOK, CanRecover, ToRecover
  <1>3. \A i \in 1 .. l : a.backup[i] = w - l + i
    BY DEF WriterOK
  <1> HIDE DEF n, l
  <1>4. c \in Seq(Nat) /\ Len(c) = n /\ \A i \in 1 .. n : c[i] = a.backup[l - n + i]
    <2>1. PICK k \in 0 .. l : k + 1 = l - n + 1 /\ k = l - n /\ l - k = n
      BY <1>1, <1>2, SMTT(20)
    <2>2. /\ SubSeq(a.backup, k + 1, l) \in Seq(Nat) /\ Len(SubSeq(a.backup, k + 1, l)) = l - k
          /\ \A i \in 1 .. l - k : SubSeq(a.backup, k + 1, l)[i] = a.backup[k + i]
      <3>1. PICK x \in Seq(Nat) : x = a.backup /\ l = Len(x)
        BY <1>1 DEF l
      <3> QED BY <3>1, SeqSuffix
    <2> QED BY <2>1, <2>2
  <1>5. c = Catchup(a, ToRecover(a, h))
    BY DEF Catchup, n, l
  <1> HIDE DEF c
  <1>6. h + Len(c) = w
    BY <1>2, <1>4, SMTT(20)
  <1>7. ASSUME NEW i \in 1 .. Len(c) PROVE c[i] = h + i
    <2>1. l - n + i \in 1 .. l
      BY <1>1, <1>2, <1>4, SMTT(20)
    <2>2. a.backup[l - n + i] = w - l + (l - n + i)
      BY <1>3, <2>1
    <2>3. w - l + (l - n + i) = h + i
      BY <1>1, <1>2, <1>4, SMTT(30)
    <2> QED BY <1>4, <2>2, <2>3
  <1> QED BY <1>4, <1>5, <1>6, <1>7

NewSeqCatchup(t, p, f, q, g) ==
    pipe' = [pipe EXCEPT ![t][p].seq = f, ![t][q].catchup = g]

\* What the pipes hold after a header was read and a catch-up written.
LEMMA SeqCatchupSet ==
    ASSUME TypeOK, NEW t \in Sockets, NEW p \in Peers, NEW q \in Peers, p # q, NEW f, NEW g,
           NewSeqCatchup(t, p, f, q, g)
    PROVE  \A s \in Sockets, r \in Peers :
              /\ pipe'[s][r].seq = IF s = t /\ r = p THEN f ELSE pipe[s][r].seq
              /\ pipe'[s][r].catchup = IF s = t /\ r = q THEN g ELSE pipe[s][r].catchup
              /\ pipe'[s][r].frames = pipe[s][r].frames
  <1>1. \A s \in Sockets, r \in Peers : (s = t /\ r \in {p, q}) \/ pipe'[s][r] = pipe[s][r]
    BY DEF TypeOK, NewSeqCatchup
  <1>2. /\ pipe'[t][p] = [pipe[t][p] EXCEPT !.seq = f]
        /\ pipe'[t][q] = [pipe[t][q] EXCEPT !.catchup = g]
    BY DEF TypeOK, NewSeqCatchup
  <1>3. pipe[t][p] \in Direction /\ pipe[t][q] \in Direction
    BY PipeUpdates
  <1>4. PICK d, d1 : d = pipe[t][p] /\ d1 = pipe'[t][p]
    OBVIOUS
  <1>5. PICK e, e1 : e = pipe[t][q] /\ e1 = pipe'[t][q]
    OBVIOUS
  <1>6. d \in Direction /\ d1 = [d EXCEPT !.seq = f]
    BY <1>2, <1>3, <1>4
  <1>7. e \in Direction /\ e1 = [e EXCEPT !.catchup = g]
    BY <1>2, <1>3, <1>5
  <1>8. d1.seq = f /\ d1.catchup = d.catchup /\ d1.frames = d.frames
    BY <1>6 DEF Direction
  <1>9. e1.seq = e.seq /\ e1.catchup = g /\ e1.frames = e.frames
    BY <1>7 DEF Direction
  <1> SUFFICES ASSUME NEW s \in Sockets, NEW r \in Peers
               PROVE  /\ pipe'[s][r].seq = IF s = t /\ r = p THEN f ELSE pipe[s][r].seq
                      /\ pipe'[s][r].catchup = IF s = t /\ r = q THEN g ELSE pipe[s][r].catchup
                      /\ pipe'[s][r].frames = pipe[s][r].frames
    OBVIOUS
  <1>10. CASE s = t /\ r = p
    BY <1>4, <1>8, <1>10, SMTT(30)
  <1>11. CASE s = t /\ r = q
    BY <1>5, <1>9, <1>11, SMTT(30)
  <1>12. CASE pipe'[s][r] = pipe[s][r] /\ ~(s = t /\ r \in {p, q})
    BY <1>12
  <1> QED BY <1>1, <1>10, <1>11, <1>12

\* p's actor reads the header of its peer.
Answers(p) ==
    LET a == actor[p]
        t == actor[p].stream
        in == pipe[t][p].seq
    IN  /\ a.stage = "seq" /\ in # <<>> /\ CanRecover(a, Head(in))
        /\ actor' = [actor EXCEPT ![p] = [a EXCEPT !.stage = "catchup"]]
        /\ NewSeqCatchup(t, p, Tail(in), Other(p),
                         Append(pipe[t][Other(p)].catchup, Catchup(a, ToRecover(a, Head(in)))))
        /\ UNCHANGED <<sent, delivered, offers, opened>>

\* The peer's header is answered by the packets it lacks.
LEMMA StepSequence ==
    ASSUME TypeOK, LinkInv, NEW p \in Peers, Answers(p)
    PROVE  LinkInv'
  <1> DEFINE q == Other(p)
             a == actor[p]
             b == actor'[p]
             t == actor[p].stream
             in == pipe[t][p].seq
             c == Catchup(a, ToRecover(a, Head(in)))
  <1>q. q \in Peers /\ Other(p) = q /\ Other(q) = p /\ q # p /\ \A r \in Peers : r = p \/ r = q
    BY OtherFacts
  <1>1. /\ a.stage = "seq" /\ in # <<>> /\ CanRecover(a, Head(in))
        /\ actor' = [actor EXCEPT ![p] = [a EXCEPT !.stage = "catchup"]]
        /\ NewSeqCatchup(t, p, Tail(in), q, Append(pipe[t][q].catchup, c))
        /\ UNCHANGED <<sent, delivered, offers, opened>>
    BY DEF Answers
  <1>2. a \in BackedActor /\ a.live = None /\ t \in Sockets
    BY <1>1, Types, ZenonT(60) DEF LinkInv, StageInv, TypeOK
  <1>3. /\ pipe[t][q].catchup = <<>> /\ pipe[t][q].frames = <<>>
        /\ t \notin {actor[q].live, actor[q].old}
    BY <1>1, <1>2 DEF LinkInv, HeaderInv
  <1> HIDE DEF a, t, q, b, in, c
  <1>5. /\ actor'[q] = actor[q] /\ SameWriter(a, b) /\ SameReader(a, b)
        /\ b.stage = "catchup" /\ b.stream = t /\ b.old = a.old /\ b.live = a.live
    <2>1. PICK e : e = [a EXCEPT !.stage = "catchup"]
      OBVIOUS
    <2>2. /\ e \in BackedActor /\ SameWriter(a, e) /\ SameReader(a, e)
          /\ e.stage = "catchup" /\ e.stream = t /\ e.old = a.old /\ e.live = a.live
      BY <1>2, <2>1, SequenceFacts DEF a, t
    <2>3. actor' = [actor EXCEPT ![p] = e]
      BY <1>1, <2>1
    <2> QED BY <2>2, <2>3, Moves DEF b, q
  <1>6. /\ WriterInv' /\ ReaderInv' /\ Base(q)' = Base(q) /\ Base(p)' = Base(p)
        /\ \A r \in Peers : W(r)' = W(r) /\ W(Other(r))' = W(Other(r))
    <2>1. InStep(b, delivered[p], W(q)) /\ (b.pc = "select" => b.inbox = <<>>)
      <3>1. InStep(a, delivered[p], W(q)) /\ (a.pc = "select" => a.inbox = <<>>)
        BY DEF LinkInv, ReaderInv, a, q
      <3>2. SameReader(a, b)
        BY <1>5
      <3> QED BY <3>1, <3>2 DEF SameReader, InStep
    <2>2. Base(p)' = Base(p)
      BY <1>5 DEF Base, SameReader, a, b
    <2> QED BY <1>1, <1>5, <1>q, <2>1, <2>2, Keeps, SMTT(30) DEF a, b
  <1>7. StageInv' /\ OffersInv'
    <2>1. b.inbox = <<>> /\ b.pc \in Running /\ t # None /\ b.live = None
      BY <1>1, <1>2, <1>5, SocketFacts DEF SameReader, a, LinkInv, StageInv, Running
    <2> QED BY <1>1, <1>5, <1>q, <2>1, SMTT(20) DEF LinkInv, StageInv, OffersInv, b, Running
  <1>f. ASSUME NEW r \in Peers, NEW s \in Sockets, Fresh(r, s)'
        PROVE  Fresh(r, s)
    BY <1>1, <1>f, SMTT(30) DEF Fresh
  <1>p. ASSUME NEW r \in Peers, NEW s \in Sockets
        PROVE  /\ pipe'[s][r].seq = IF s = t /\ r = p THEN Tail(in) ELSE pipe[s][r].seq
               /\ pipe'[s][r].catchup = IF s = t /\ r = q THEN <<c>> ELSE pipe[s][r].catchup
               /\ pipe'[s][r].frames = pipe[s][r].frames
    <2>1. NewSeqCatchup(t, p, Tail(in), q, <<c>>)
      BY <1>1, <1>3, SMTT(20)
    <2> QED BY <1>2, <1>q, <2>1, SeqCatchupSet, SMTT(20)
  <1>g. /\ \A s \in Sockets : s # t => Feeding(p, s)' = Feeding(p, s)
        /\ \A s \in Sockets : Feeding(q, s)' = Feeding(q, s)
        /\ \A s \in Sockets : s = t => Feeding(p, s)'
    <2>1. \A s \in Sockets : s # t => Feeding(p, s)' = Feeding(p, s)
      BY <1>5 DEF Feeding, a, b, t
    <2>2. \A s \in Sockets : Feeding(q, s)' = Feeding(q, s)
      BY <1>5 DEF Feeding
    <2>3. \A s \in Sockets : s = t => Feeding(p, s)'
      BY <1>5 DEF Feeding, b
    <2> QED BY <2>1, <2>2, <2>3, SMTT(30)
  <1>9. FreshInv'
    <2> SUFFICES ASSUME NEW r \in Peers, NEW s \in Sockets, Fresh(r, s)'
                 PROVE  /\ pipe'[s][Other(r)].seq = <<>>
                        /\ pipe'[s][Other(r)].catchup = <<>>
                        /\ pipe'[s][Other(r)].frames = <<>>
                        /\ pipe'[s][r].catchup = <<>>
                        /\ pipe'[s][r].frames = <<>>
                        /\ s \notin {actor'[r].live, actor'[r].old, actor'[r].stream}
                        /\ s \notin {actor'[Other(r)].live, actor'[Other(r)].old}
                        /\ actor'[Other(r)].stream = s => actor'[Other(r)].stage = "seq"
      BY SMTT(30) DEF FreshInv
    <2>1. /\ pipe[s][Other(r)].seq = <<>>
          /\ pipe[s][Other(r)].catchup = <<>>
          /\ pipe[s][Other(r)].frames = <<>>
          /\ pipe[s][r].catchup = <<>>
          /\ pipe[s][r].frames = <<>>
          /\ s \notin {actor[r].live, actor[r].old, actor[r].stream}
          /\ s \notin {actor[Other(r)].live, actor[Other(r)].old}
          /\ actor[Other(r)].stream = s => actor[Other(r)].stage = "seq"
      BY <1>f DEF LinkInv, FreshInv
    <2>2. s # t
      <3>1. CASE r = p
        BY <2>1, <3>1 DEF t
      <3>2. CASE r = q
        BY <1>1, <1>q, <2>1, <3>2, SMTT(30) DEF in
      <3> QED BY <1>q, <3>1, <3>2, SMTT(30)
    <2>3. CASE r = p
      BY <1>5, <1>p, <1>q, <2>1, <2>2, <2>3, SocketFacts, ZenonT(60) DEF a, b
    <2>4. CASE r = q
      <3>1. /\ pipe'[s][q].seq = pipe[s][q].seq
            /\ pipe'[s][q].catchup = pipe[s][q].catchup
            /\ pipe'[s][q].frames = pipe[s][q].frames
        BY <1>p, <1>q, <2>2, ZenonT(60)
      <3>2. /\ pipe'[s][p].seq = pipe[s][p].seq /\ pipe'[s][p].catchup = pipe[s][p].catchup
            /\ pipe'[s][p].frames = pipe[s][p].frames
        BY <1>p, <2>2, ZenonT(60)
      <3>3. Other(r) = p /\ actor'[r] = actor[r]
        BY <1>5, <1>q, <2>4, ZenonT(60)
      <3> QED BY <1>5, <2>1, <2>2, <2>4, <3>1, <3>2, <3>3, SocketFacts DEF a, b
    <2> QED BY <1>q, <2>3, <2>4, SMTT(30)
  <1>h. actor[q].stream = t => in = <<actor[q].reader_seq>> /\ Tail(in) = <<>> /\ Head(in) = actor[q].reader_seq
    <2>1. actor[q].stream = t => in = <<actor[q].reader_seq>>
      BY <1>1, <1>2, <1>q, SMTT(20) DEF LinkInv, HeaderInv, in
    <2>2. ASSUME NEW n PROVE Tail(<<n>>) = <<>> /\ Head(<<n>>) = n
      BY SMTT(30)
    <2> QED BY <2>1, <2>2
  <1>10. HeaderInv'
    <2> SUFFICES ASSUME NEW r \in Peers, NEW s \in Sockets, actor'[r].stream = s
                 PROVE  /\ pipe'[s][Other(r)].seq \in {<<>>, <<actor'[r].reader_seq>>}
                        /\ actor'[r].stage = "seq" =>
                              /\ pipe'[s][Other(r)].catchup = <<>>
                              /\ pipe'[s][Other(r)].frames = <<>>
                              /\ s \notin {actor'[Other(r)].live, actor'[Other(r)].old}
      BY DEF HeaderInv
    <2>1. CASE r = p
      <3>1. s = t /\ Other(r) = q /\ actor'[p].reader_seq = a.reader_seq
        BY <1>5, <1>q, <2>1 DEF SameReader, b
      <3>2. pipe[t][q].seq \in {<<>>, <<a.reader_seq>>}
        BY <1>2, <1>q, ZenonT(60) DEF LinkInv, HeaderInv, a, t
      <3> QED BY <1>2, <1>5, <1>p, <1>q, <2>1, <3>1, <3>2, ZenonT(60) DEF b
    <2>2. CASE r = q
      <3>1. /\ pipe[s][p].seq \in {<<>>, <<actor[q].reader_seq>>}
            /\ actor[q].stage = "seq" =>
                  /\ pipe[s][p].catchup = <<>>
                  /\ pipe[s][p].frames = <<>>
                  /\ s \notin {actor[p].live, actor[p].old}
        <4>1. actor[q].stream = s
          BY <1>5, <2>2
        <4> QED BY <1>q, <4>1, HeaderOf
      <3>2. s = t => Tail(in) = <<>>
        BY <1>5, <1>h, <2>2
      <3>3. pipe'[s][p].seq \in {pipe[s][p].seq, <<>>}
        BY <1>p, <3>2, ZenonT(60)
      <3>4. pipe'[s][p].catchup = pipe[s][p].catchup /\ pipe'[s][p].frames = pipe[s][p].frames
        BY <1>p, <1>q
      <3> QED BY <1>5, <1>q, <2>2, <3>1, <3>3, <3>4, ZenonT(60) DEF a, b
    <2> QED BY <1>q, <2>1, <2>2, ZenonT(60)
  <1>11. FramesInv'
    <2> SUFFICES ASSUME NEW r \in Peers, NEW s \in Sockets, s \in {actor'[r].live, actor'[r].old}
                 PROVE  Continues(pipe'[s][r].frames, Base(r)', W(Other(r))', Feeding(Other(r), s)')
      BY DEF FramesInv
    <2>1. s \in {actor[r].live, actor[r].old} /\ Other(r) \in Peers
      BY <1>5, <1>q, ZenonT(60) DEF a, b
    <2>2. Continues(pipe[s][r].frames, Base(r), W(Other(r)), Feeding(Other(r), s))
      BY <2>1 DEF LinkInv, FramesInv
    <2>3. Base(r)' = Base(r)
      BY <1>6, <1>q, SMTT(30)
    <2>4. Feeding(Other(r), s)' = Feeding(Other(r), s)
      BY <1>3, <1>g, <1>q, <2>1
    <2> QED BY <1>6, <1>p, <2>1, <2>2, <2>3, <2>4, ZenonT(60)
  <1>12. CatchupInv'
    <2> SUFFICES ASSUME NEW r \in Peers, NEW s \in Sockets,
                        actor'[r].stream = s, pipe'[s][r].catchup # <<>>
                 PROVE  CatchupOK(r, s)'
      BY DEF CatchupInv
    <2>1. CASE r = p \/ s # t
      <3>1. /\ pipe'[s][r].catchup = pipe[s][r].catchup /\ pipe'[s][r].frames = pipe[s][r].frames
            /\ Feeding(Other(r), s)' = Feeding(Other(r), s) /\ W(Other(r))' = W(Other(r))
            /\ Base(r)' = Base(r)
        BY <1>6, <1>g, <1>p, <1>q, <2>1, SMTT(20)
      <3>2. CatchupOK(r, s)
        BY <1>5, <1>q, <3>1 DEF LinkInv, CatchupInv, b, t
      <3> QED BY <3>1, <3>2, ZenonT(60) DEF CatchupOK
    <2>2. CASE r = q /\ s = t
      <3>1. actor[q].stream = t /\ actor[q].inbox = <<>>
        BY <1>2, <1>5, <1>q, <2>2, SocketFacts DEF LinkInv, StageInv
      <3>2. /\ actor[q].reader_seq \in Nat /\ Base(q) = actor[q].reader_seq
            /\ W(p) \in Nat
        <4>1. actor[q].reader_seq \in Nat /\ W(p) \in Nat
          BY <1>q, Types
        <4>2. Base(q) = actor[q].reader_seq + Len(<<>>)
          BY <3>1 DEF Base
        <4>3. \A n \in Nat : n + Len(<<>>) = n
          BY SMTT(20)
        <4> QED BY <4>1, <4>2, <4>3
      <3>3. WriterOK(p, a, W(p)) /\ Head(in) = Base(q)
        BY <1>h, <3>1, <3>2 DEF LinkInv, WriterInv, a
      <3>4. c \in Seq(Nat) /\ Base(q) + Len(c) = W(p) /\ \A i \in 1 .. Len(c) : c[i] = Base(q) + i
        BY <1>1, <1>2, <3>2, <3>3, CatchupFacts, SMTT(30) DEF c
      <3>5. Continues(<<>>, Base(q) + Len(c), W(p), TRUE)
        BY <3>2, <3>4, SMTT(30) DEF Continues
      <3>6. pipe'[t][q].catchup = <<c>> /\ pipe'[t][q].frames = <<>> /\ <<c>>[1] = c /\ Len(<<c>>) = 1
        BY <1>2, <1>3, <1>p, <1>q
      <3>7. Base(q)' = Base(q) /\ W(p)' = W(p) /\ Feeding(p, s)' /\ Other(q) = p
        BY <1>6, <1>g, <1>q, <2>2
      <3> QED BY <1>q, <2>2, <3>4, <3>5, <3>6, <3>7 DEF CatchupOK
    <2> QED BY <1>q, <2>1, <2>2, SMTT(30)
  <1> QED BY <1>6, <1>7, <1>9, <1>10, <1>11, <1>12, SMTT(30) DEF LinkInv

NewCatchup(t, q, f) == pipe' = [pipe EXCEPT ![t][q].catchup = f]

\* What the pipes hold after the catch-up of one direction changed.
LEMMA CatchupSet ==
    ASSUME TypeOK, NEW t \in Sockets, NEW q \in Peers, NEW f,
           NewCatchup(t, q, f)
    PROVE  \A s \in Sockets, r \in Peers :
              /\ pipe'[s][r].seq = pipe[s][r].seq
              /\ pipe'[s][r].catchup = IF s = t /\ r = q THEN f ELSE pipe[s][r].catchup
              /\ pipe'[s][r].frames = pipe[s][r].frames
  <1>1. \A s \in Sockets, r \in Peers : (s = t /\ r = q) \/ pipe'[s][r] = pipe[s][r]
    BY DEF TypeOK, NewCatchup
  <1>2. pipe'[t][q] = [pipe[t][q] EXCEPT !.catchup = f]
    BY DEF TypeOK, NewCatchup
  <1>3. pipe[t][q] \in Direction
    BY PipeUpdates
  <1> QED BY <1>1, <1>2, <1>3 DEF Direction

\* p's actor reads the catch-up of its peer.
Recovers(p) ==
    LET a == actor[p]
        in == pipe[a.stream][p].catchup
    IN  /\ a.stage = "catchup" /\ in # <<>>
        /\ actor' = [actor EXCEPT ![p] = Resume(p,
               [a EXCEPT !.inbox = @ \o Head(in),
                         !.disconnected_bytes = NoLedger,
                         !.live = a.stream,
                         !.stage = "none", !.stream = None, !.old = None])]
        /\ NewCatchup(a.stream, p, Tail(in))
        /\ UNCHANGED <<sent, delivered, offers, opened>>

\* The catch-up becomes the inbox, and the socket of the exchange goes live.
LEMMA StepDone ==
    ASSUME TypeOK, LinkInv, NEW p \in Peers, Recovers(p)
    PROVE  LinkInv'
  <1> DEFINE q == Other(p)
             a == actor[p]
             b == actor'[p]
             t == actor[p].stream
             in == pipe[t][p].catchup
             c == in[1]
             e == [a EXCEPT !.inbox = @ \o Head(in),
                            !.disconnected_bytes = NoLedger,
                            !.live = a.stream,
                            !.stage = "none", !.stream = None, !.old = None]
  <1>q. q \in Peers /\ Other(p) = q /\ Other(q) = p /\ q # p /\ \A r \in Peers : r = p \/ r = q
    BY OtherFacts
  <1>1. /\ a.stage = "catchup" /\ in # <<>>
        /\ actor' = [actor EXCEPT ![p] = Resume(p, e)]
        /\ NewCatchup(t, p, Tail(in))
        /\ UNCHANGED <<sent, delivered, offers, opened>>
    BY DEF Recovers
  <1>2. /\ a \in BackedActor /\ a.live = None /\ t \in Sockets /\ a.inbox = <<>>
        /\ a.pc \in Running
        /\ W(q) \in Nat /\ delivered[p] \in Seq(Nat) /\ a.reader_seq \in Nat
    BY <1>1, <1>q, Types DEF LinkInv, StageInv, TypeOK, Running
  <1>3. CatchupOK(p, t)
    BY <1>1, <1>2 DEF LinkInv, CatchupInv
  <1>4. c \in Seq(Nat) /\ Len(c) \in Nat /\ pipe[t][p].frames \in Seq(Nat)
    BY <1>2, <1>3, CatchupTypes
  <1>5. Base(p) = a.reader_seq
    BY <1>2, SMTT(30) DEF Base
  <1>6. /\ Len(in) = 1 /\ \A i \in 1 .. Len(c) : c[i] = a.reader_seq + i
        /\ Continues(pipe[t][p].frames, a.reader_seq + Len(c), W(q), Feeding(q, t))
    BY <1>3, <1>5, ZenonT(60) DEF CatchupOK
  <1>7. Head(in) = c /\ Tail(in) = <<>> /\ a.inbox \o Head(in) = c
    <2>1. in \in Seq(Seq(Nat))
      BY <1>2, Types
    <2>2. Head(in) = c /\ Tail(in) = <<>>
      BY <1>6, <2>1, OneTail
    <2>5. <<>> \o c = c
      BY <1>4, SeqConcat
    <2> QED BY <1>2, <2>2, <2>5
  <1>8. e = [a EXCEPT !.inbox = c, !.disconnected_bytes = NoLedger, !.live = a.stream,
                      !.stage = "none", !.stream = None, !.old = None]
    BY <1>7
  <1> HIDE DEF a, t, q, b, in, c, e
  <1>9. /\ e \in BackedActor /\ SameWriter(a, e)
        /\ e.inbox = c /\ e.pc = a.pc /\ e.dead_sent = a.dead_sent
        /\ e.reader_seq = a.reader_seq /\ e.reader_crypto = a.reader_crypto
        /\ e.stage = "none" /\ e.stream = None /\ e.old = None /\ e.live = t
    <2>1. a.stream = t
      BY DEF a, t
    <2>2. /\ e \in BackedActor /\ SameWriter(a, e)
          /\ e.inbox = c /\ e.pc = a.pc /\ e.dead_sent = a.dead_sent
          /\ e.reader_seq = a.reader_seq /\ e.reader_crypto = a.reader_crypto
          /\ e.stage = "none" /\ e.stream = None /\ e.old = None /\ e.live = a.stream
      <3>1. PICK i \in Seq(Nat) : i = c
        BY <1>4
      <3>2. e = [a EXCEPT !.inbox = i, !.disconnected_bytes = NoLedger, !.live = a.stream,
                          !.stage = "none", !.stream = None, !.old = None]
        BY <1>8, <3>1
      <3> QED BY <1>2, <3>1, <3>2 DEF BackedActor, Stage, SameWriter
    <2> QED BY <2>1, <2>2
  <1>10. Resumed(e, Resume(p, e), delivered[p], W(q))
    <2>1. InStep(a, delivered[p], W(q))
      BY DEF LinkInv, ReaderInv, a, q
    <2>2. a.reader_seq + Len(c) <= W(q)
      <3>1. Len(pipe[t][p].frames) \in Nat
        BY <1>4, SeqLen
      <3>2. (a.reader_seq + Len(c)) + Len(pipe[t][p].frames) <= W(q)
        BY <1>6 DEF Continues
      <3> QED BY <1>2, <1>4, <3>1, <3>2, SMTT(30)
    <2>3. InStep(e, delivered[p], W(q))
      BY <1>6, <1>9, <2>1, <2>2 DEF InStep
    <2> QED BY <1>2, <1>9, <2>3, ResumeFacts DEF Running
  <1>11. b = Resume(p, e) /\ actor'[q] = actor[q]
    BY <1>1, <1>10, Moves, ZenonT(60) DEF Resumed, b, q
  <1>12. /\ b.stage = "none" /\ b.stream = None /\ b.old = None /\ b.live = t
         /\ SameWriter(a, b) /\ InStep(b, delivered[p], W(q))
         /\ b.pc = "select" => b.inbox = <<>>
    BY <1>9, <1>10, <1>11, ZenonT(60) DEF Resumed, SameExchange, SameWriter
  <1>13. Base(p)' = a.reader_seq + Len(c)
    BY <1>9, <1>10, <1>11, ZenonT(60) DEF Resumed, Base, b
  <1>14. /\ WriterInv' /\ ReaderInv' /\ Base(q)' = Base(q)
         /\ \A r \in Peers : W(r)' = W(r) /\ W(Other(r))' = W(Other(r))
    BY <1>1, <1>11, <1>12, <1>q, Keeps, ZenonT(60) DEF a, b
  <1>15. StageInv' /\ OffersInv'
    <2>1. StageInv /\ OffersInv
      BY <1>1, ZenonT(60) DEF LinkInv
    <2>2. StageInv'
      BY <1>1, <1>11, <1>12, <1>q, <2>1, ZenonT(60) DEF StageInv, b
    <2>3. OffersInv'
      BY <1>1, <1>11, <1>12, <1>q, <2>1, ZenonT(60) DEF OffersInv, b
    <2> QED BY <2>2, <2>3
  <1>f. ASSUME NEW r \in Peers, NEW s \in Sockets, Fresh(r, s)'
        PROVE  Fresh(r, s)
    BY <1>1, <1>f DEF Fresh
  <1>p. ASSUME NEW r \in Peers, NEW s \in Sockets
        PROVE  /\ pipe'[s][r].seq = pipe[s][r].seq
               /\ pipe'[s][r].catchup = IF s = t /\ r = p THEN <<>> ELSE pipe[s][r].catchup
               /\ pipe'[s][r].frames = pipe[s][r].frames
    <2>1. NewCatchup(t, p, <<>>)
      BY <1>1, <1>7
    <2>2. \A v \in Sockets, w \in Peers :
             /\ pipe'[v][w].seq = pipe[v][w].seq
             /\ pipe'[v][w].catchup = IF v = t /\ w = p THEN <<>> ELSE pipe[v][w].catchup
             /\ pipe'[v][w].frames = pipe[v][w].frames
      <3>1. TypeOK /\ t \in Sockets /\ p \in Peers
        BY <1>2
      <3> HIDE DEF t
      <3> QED BY <2>1, <3>1, CatchupSet, SMTT(30)
    <2> QED BY <2>2
  <1>g. /\ \A s \in Sockets : Feeding(p, s)' => Feeding(p, s)
        /\ \A s \in Sockets : Feeding(q, s)' = Feeding(q, s)
    <2>1. \A s \in Sockets : Feeding(p, s)' => Feeding(p, s)
      BY <1>1, <1>12, SocketFacts DEF Feeding, a, b, t
    <2>2. \A s \in Sockets : Feeding(q, s)' = Feeding(q, s)
      BY <1>11 DEF Feeding
    <2> QED BY <2>1, <2>2
  <1>16. FreshInv'
    <2> SUFFICES ASSUME NEW r \in Peers, NEW s \in Sockets, Fresh(r, s)'
                 PROVE  /\ pipe'[s][Other(r)].seq = <<>>
                        /\ pipe'[s][Other(r)].catchup = <<>>
                        /\ pipe'[s][Other(r)].frames = <<>>
                        /\ pipe'[s][r].catchup = <<>>
                        /\ pipe'[s][r].frames = <<>>
                        /\ s \notin {actor'[r].live, actor'[r].old, actor'[r].stream}
                        /\ s \notin {actor'[Other(r)].live, actor'[Other(r)].old}
                        /\ actor'[Other(r)].stream = s => actor'[Other(r)].stage = "seq"
      BY DEF FreshInv
    <2>1. /\ pipe[s][Other(r)].seq = <<>>
          /\ pipe[s][Other(r)].catchup = <<>>
          /\ pipe[s][Other(r)].frames = <<>>
          /\ pipe[s][r].catchup = <<>>
          /\ pipe[s][r].frames = <<>>
          /\ s \notin {actor[r].live, actor[r].old, actor[r].stream}
          /\ s \notin {actor[Other(r)].live, actor[Other(r)].old}
          /\ actor[Other(r)].stream = s => actor[Other(r)].stage = "seq"
      BY <1>f DEF LinkInv, FreshInv
    <2>2. s # t
      <3>1. CASE r = p
        BY <2>1, <3>1 DEF t
      <3>2. CASE r = q
        BY <1>1, <1>q, <2>1, <3>2, ZenonT(60) DEF a, t
      <3> QED BY <1>q, <3>1, <3>2
    <2>5. Other(r) \in Peers
      BY <1>q
    <2>6. /\ pipe'[s][Other(r)].seq = <<>>
          /\ pipe'[s][Other(r)].catchup = <<>>
          /\ pipe'[s][Other(r)].frames = <<>>
          /\ pipe'[s][r].catchup = <<>>
          /\ pipe'[s][r].frames = <<>>
      BY <1>p, <2>1, <2>2, <2>5
    <2>7. s \notin {b.live, b.old, b.stream}
      BY <1>12, <2>2, SocketFacts
    <2>3. CASE r = p
      BY <1>11, <1>q, <2>1, <2>3, <2>6, <2>7 DEF b
    <2>4. CASE r = q
      BY <1>11, <1>q, <2>1, <2>4, <2>6, <2>7 DEF b
    <2> QED BY <1>q, <2>3, <2>4
  <1>17. HeaderInv'
    <2> SUFFICES ASSUME NEW r \in Peers, NEW s \in Sockets, actor'[r].stream = s
                 PROVE  /\ pipe'[s][Other(r)].seq \in {<<>>, <<actor'[r].reader_seq>>}
                        /\ actor'[r].stage = "seq" =>
                              /\ pipe'[s][Other(r)].catchup = <<>>
                              /\ pipe'[s][Other(r)].frames = <<>>
                              /\ s \notin {actor'[Other(r)].live, actor'[Other(r)].old}
      BY DEF HeaderInv
    <2>1. r = q /\ Other(r) = p
      BY <1>12, <1>q, SocketFacts DEF b
    <2>2. /\ pipe[s][p].seq \in {<<>>, <<actor[q].reader_seq>>}
          /\ actor[q].stage = "seq" =>
                /\ pipe[s][p].catchup = <<>>
                /\ pipe[s][p].frames = <<>>
                /\ s \notin {actor[p].live, actor[p].old}
      <3>1. actor[q].stream = s
        BY <1>11, <2>1
      <3> QED BY <1>q, <3>1, HeaderOf
    <2>3. actor[q].stage = "seq" => s # t
      BY <1>1, <2>2 DEF in
    <2>4. /\ pipe'[s][p].seq = pipe[s][p].seq
          /\ pipe'[s][p].frames = pipe[s][p].frames
          /\ s # t => pipe'[s][p].catchup = pipe[s][p].catchup
      BY <1>p
    <2>5. actor'[q] = actor[q]
      BY <1>11
    <2>6. actor[q].stage = "seq" => s \notin {actor'[p].live, actor'[p].old}
      BY <1>12, <2>2, <2>3, SocketFacts, SMTT(20) DEF b
    <2> QED BY <2>1, <2>2, <2>3, <2>4, <2>5, <2>6
  <1>18. FramesInv'
    <2> SUFFICES ASSUME NEW r \in Peers, NEW s \in Sockets, s \in {actor'[r].live, actor'[r].old}
                 PROVE  Continues(pipe'[s][r].frames, Base(r)', W(Other(r))', Feeding(Other(r), s)')
      BY DEF FramesInv
    <2>1. CASE r = p
      <3>1. s = t
        BY <1>12, <2>1, SocketFacts DEF b
      <3> QED BY <1>6, <1>13, <1>14, <1>g, <1>p, <1>q, <2>1, <3>1
    <2>2. CASE r = q
      <3>1. Continues(pipe[s][q].frames, Base(q), W(p), Feeding(p, s))
        BY <1>11, <1>q, <2>2, ZenonT(60) DEF LinkInv, FramesInv
      <3>2. Continues(pipe[s][q].frames, Base(q), W(p), Feeding(p, s)')
        BY <1>g, <3>1, ZenonT(60) DEF Continues
      <3> QED BY <1>14, <1>p, <1>q, <2>2, <3>2, ZenonT(60)
    <2> QED BY <1>q, <2>1, <2>2
  <1>19. CatchupInv'
    <2> SUFFICES ASSUME NEW r \in Peers, NEW s \in Sockets,
                        actor'[r].stream = s, pipe'[s][r].catchup # <<>>
                 PROVE  CatchupOK(r, s)'
      BY DEF CatchupInv
    <2>1. r = q
      BY <1>12, <1>q, SocketFacts DEF b
    <2>2. /\ pipe'[s][q].catchup = pipe[s][q].catchup /\ pipe'[s][q].frames = pipe[s][q].frames
          /\ (Feeding(p, s)' => Feeding(p, s)) /\ W(p)' = W(p) /\ Base(q)' = Base(q)
      BY <1>14, <1>g, <1>p, <1>q
    <2>3. CatchupOK(q, s)
      BY <1>11, <1>q, <2>1, <2>2 DEF LinkInv, CatchupInv
    <2>4. CatchupOK(q, s)'
      BY <1>q, <2>2, <2>3, ZenonT(60) DEF CatchupOK, Continues
    <2> QED BY <2>1, <2>4, ZenonT(60)
  <1> QED BY <1>14, <1>15, <1>16, <1>17, <1>18, <1>19 DEF LinkInv

-----------------------------------------------------------------------------
(* What closing, charging, writing and resuming do to an actor. *)

\* close_current_socket keeps the actor well typed.
LEMMA CloseType ==
    ASSUME NEW a \in BackedActor
    PROVE  CloseCurrentSocket(a) \in BackedActor
  BY DEF CloseCurrentSocket, Ledger, BackedActor, NoLedger

\* close_current_socket lets go of the socket and notes the loss.
LEMMA CloseFacts ==
    ASSUME NEW a \in BackedActor
    PROVE  LET b == CloseCurrentSocket(a)
           IN  /\ SameWriter(a, b) /\ SameReader(a, b) /\ SameExchange(a, b)
               /\ b.live = None
               /\ b.socket_down_pending <=> a.socket_down_pending \/ a.live # None
  BY DEF CloseCurrentSocket, BackedActor, SameWriter, SameReader, SameExchange

\* Charging the ledger changes nothing else.
LEMMA ChargeFacts ==
    ASSUME NEW a \in BackedActor, NEW len \in Nat
    PROVE  LET b == Charged(a, len)
           IN  /\ b \in BackedActor
               /\ SameWriter(a, b) /\ SameReader(a, b) /\ SameExchange(a, b)
               /\ b.live = a.live
               /\ b.socket_down_pending = a.socket_down_pending
  BY SMTT(30) DEF Charged, Ledger, NoLedger, BackedActor, SameWriter, SameReader, SameExchange

\* What write() stores: the packet goes to the end of the backup, of which the
\* oldest k are dropped.
LEMMA StoredFacts ==
    ASSUME NEW a \in BackedActor, NEW k \in 0 .. Len(a.backup) + 1
    PROVE  LET b == [Stored(a) EXCEPT !.backup = DropOldest(@, k)]
           IN  /\ b \in BackedActor
               /\ SameReader(a, b) /\ SameExchange(a, b)
               /\ b.live = a.live /\ b.socket_down_pending = a.socket_down_pending
               /\ b.writer_crypto = a.writer_crypto + 1
               /\ b.writer_seq = a.writer_seq + 1
               /\ Len(b.backup) = Len(a.backup) + 1 - k
               /\ \A i \in 1 .. Len(b.backup) :
                     b.backup[i] = IF i + k <= Len(a.backup) THEN a.backup[i + k]
                                   ELSE a.writer_crypto + 1
  <1> DEFINE full == Append(a.backup, a.writer_crypto + 1)
             b == [Stored(a) EXCEPT !.backup = DropOldest(@, k)]
             m == Len(a.backup) + 1
  <1>0. a.backup \in Seq(Nat) /\ a.writer_crypto + 1 \in Nat /\ a.writer_seq + 1 \in Nat
        /\ Len(a.backup) \in Nat /\ k \in Nat
    BY SMTT(20) DEF BackedActor
  <1>1. full \in Seq(Nat) /\ Len(full) = m
    BY <1>0, SMTT(20)
  <1>2. /\ DropOldest(full, k) \in Seq(Nat)
        /\ Len(DropOldest(full, k)) = m - k
        /\ \A i \in 1 .. m - k : DropOldest(full, k)[i] = full[k + i]
    <2>1. DropOldest(full, k) = SubSeq(full, k + 1, Len(full)) /\ k \in 0 .. Len(full)
      BY <1>0, <1>1 DEF DropOldest
    <2> HIDE DEF full, m
    <2> QED BY <1>1, <2>1, SeqSuffix
  <1>3. b = [a EXCEPT !.writer_crypto = a.writer_crypto + 1, !.backup = DropOldest(full, k),
                      !.writer_seq = a.writer_seq + 1]
    BY DEF Stored, BackedActor
  <1>4. /\ b \in BackedActor
        /\ SameReader(a, b) /\ SameExchange(a, b)
        /\ b.live = a.live /\ b.socket_down_pending = a.socket_down_pending
        /\ b.writer_crypto = a.writer_crypto + 1 /\ b.writer_seq = a.writer_seq + 1
        /\ b.backup = DropOldest(full, k)
    <2>1. DropOldest(full, k) \in Seq(Nat)
      BY <1>2
    <2> HIDE DEF b, full
    <2>2. PICK c \in Seq(Nat), x \in Nat, y \in Nat :
             c = DropOldest(full, k) /\ x = a.writer_crypto + 1 /\ y = a.writer_seq + 1
      BY <1>0, <2>1
    <2>3. b = [a EXCEPT !.writer_crypto = x, !.backup = c, !.writer_seq = y]
      BY <1>3, <2>2
    <2>4. /\ b \in BackedActor
          /\ SameReader(a, b) /\ SameExchange(a, b)
          /\ b.live = a.live /\ b.socket_down_pending = a.socket_down_pending
          /\ b.writer_crypto = x /\ b.writer_seq = y /\ b.backup = c
      BY <2>3 DEF BackedActor, SameReader, SameExchange
    <2> QED BY <2>2, <2>4
  <1>5. \A i \in 1 .. m - k : full[k + i] = IF i + k <= Len(a.backup) THEN a.backup[i + k]
                                            ELSE a.writer_crypto + 1
    <2> TAKE i \in 1 .. m - k
    <2>1. CASE k + i <= Len(a.backup)
      <3>1. k + i \in 1 .. Len(a.backup) /\ k + i = i + k
        BY <1>0, <2>1, SMTT(20)
      <3>2. full[k + i] = a.backup[k + i]
        BY <1>0, <3>1, SeqAppend, SMTT(20)
      <3> QED BY <2>1, <3>1, <3>2
    <2>2. CASE k + i = Len(a.backup) + 1
      BY <1>0, <2>2, SeqAppend, SMTT(20)
    <2> QED BY <1>0, <2>1, <2>2, SMTT(20)
  <1> HIDE DEF b, full
  <1> QED BY <1>2, <1>4, <1>5, SMTT(20) DEF b

\* A keepalive sent changes only what the actor waits for.
LEMMA PingFacts ==
    ASSUME NEW a \in BackedActor
    PROVE  LET b == [a EXCEPT !.waiting_on_keepalive = TRUE]
           IN  /\ b \in BackedActor
               /\ SameWriter(a, b) /\ SameReader(a, b) /\ SameExchange(a, b)
               /\ b.live = a.live /\ b.socket_down_pending = a.socket_down_pending
  BY DEF BackedActor, SameWriter, SameReader, SameExchange

\* A completed exchange makes its socket the live one, without a ledger.
LEMMA DoneFacts ==
    ASSUME NEW a \in BackedActor, NEW i \in Seq(Nat)
    PROVE  LET b == [a EXCEPT !.inbox = i, !.disconnected_bytes = NoLedger, !.live = a.stream,
                              !.stage = "none", !.stream = None, !.old = None]
           IN  /\ b \in BackedActor
               /\ SameWriter(a, b)
               /\ b.inbox = i /\ b.pc = a.pc /\ b.dead_sent = a.dead_sent
               /\ b.reader_seq = a.reader_seq /\ b.reader_crypto = a.reader_crypto
               /\ b.socket_down_pending = a.socket_down_pending
               /\ b.stage = "none" /\ b.stream = None /\ b.old = None /\ b.live = a.stream
  BY DEF BackedActor, Stage, SameWriter

\* A failed exchange puts the superseded socket back.
LEMMA FailFacts ==
    ASSUME NEW a \in BackedActor
    PROVE  LET b == [a EXCEPT !.live = a.old, !.stage = "none", !.stream = None, !.old = None]
           IN  /\ b \in BackedActor
               /\ SameWriter(a, b) /\ SameReader(a, b)
               /\ b.socket_down_pending = a.socket_down_pending
               /\ b.stage = "none" /\ b.stream = None /\ b.old = None /\ b.live = a.old
  BY DEF BackedActor, Stage, SameWriter, SameReader

\* The end of a handler leaves the exchange alone.
LEMMA ResumeExchange ==
    ASSUME NEW p \in Peers, NEW a \in BackedActor
    PROVE  SameExchange(a, Resume(p, a)) /\ SameExchange(a, DeliverInbox(p, a))
  <1>1. SameExchange(a, DeliverInbox(p, a))
    <2>1. CASE a.inbox = <<>>
      BY <2>1 DEF DeliverInbox, SameExchange, BackedActor
    <2>2. CASE a.inbox # <<>> /\ Head(a.inbox) # a.reader_crypto + 1
      BY <2>2 DEF DeliverInbox, SameExchange, BackedActor
    <2>3. CASE a.inbox # <<>> /\ Head(a.inbox) = a.reader_crypto + 1
      BY <2>3 DEF DeliverInbox, SameExchange, BackedActor
    <2> QED BY <2>1, <2>2, <2>3
  <1>2. SameExchange(a, [a EXCEPT !.socket_down_pending = FALSE, !.pc = "sockdown"])
    BY DEF SameExchange, BackedActor
  <1>3. SameExchange(a, a)
    BY DEF SameExchange
  <1> QED BY <1>1, <1>2, <1>3 DEF Resume

\* write() skips the packet, or stores it and sends it, or finds the socket gone.
LEMMA WriteEffect ==
    ASSUME NEW p \in Peers, NEW a \in BackedActor, NEW hdr, NEW size \in Sizes \cup {0},
           WriteFrom(p, a, hdr, size)
    PROVE  Wrote(p, a, hdr, size)
  <1>1. CASE ~Fits(a, size)
    BY <1>1 DEF WriteFrom, Wrote
  <1>2. CASE Fits(a, size)
    <2>1. PICK k \in 0 .. Len(a.backup) + 1 :
             LET b == [Stored(a) EXCEPT !.backup = DropOldest(@, k)]
             IN  \/ /\ b.live = None
                    /\ actor' = [actor EXCEPT ![p] = Resume(p, Charged(b, size + Overhead))]
                    /\ UNCHANGED <<pipe, broken>>
                 \/ /\ b.live # None
                    /\ Transmit(p, b)
                    /\ actor' = [actor EXCEPT ![p] = Resume(p, b)]
                    /\ UNCHANGED broken
                 \/ /\ b.live # None
                    /\ actor' = [actor EXCEPT ![p] =
                          Resume(p, CloseCurrentSocket(Charged(b, size + Overhead)))]
                    /\ broken' = Closing(b.live)
                    /\ UNCHANGED pipe
      BY <1>2 DEF WriteFrom
    <2> DEFINE b == [Stored(a) EXCEPT !.backup = DropOldest(@, k)]
               e == Charged(b, size + Overhead)
               f == CloseCurrentSocket(e)
    <2>2. /\ b \in BackedActor
          /\ SameReader(a, b) /\ SameExchange(a, b)
          /\ b.live = a.live /\ b.socket_down_pending = a.socket_down_pending
          /\ b.writer_crypto = a.writer_crypto + 1
          /\ b.writer_seq = a.writer_seq + 1
          /\ Len(b.backup) = Len(a.backup) + 1 - k
          /\ \A i \in 1 .. Len(b.backup) :
                b.backup[i] = IF i + k <= Len(a.backup) THEN a.backup[i + k]
                              ELSE a.writer_crypto + 1
      BY StoredFacts
    <2>3. \/ b.live = None /\ actor' = [actor EXCEPT ![p] = Resume(p, e)] /\ UNCHANGED <<pipe, broken>>
          \/ b.live # None /\ Transmit(p, b) /\ actor' = [actor EXCEPT ![p] = Resume(p, b)]
             /\ UNCHANGED broken
          \/ b.live # None /\ actor' = [actor EXCEPT ![p] = Resume(p, f)]
             /\ broken' = Closing(b.live) /\ UNCHANGED pipe
      BY <2>1
    <2> HIDE DEF b
    <2>4. size + Overhead \in Nat
      BY SizesAssumption, SMTT(20)
    <2>5. /\ e \in BackedActor
          /\ SameWriter(b, e) /\ SameReader(b, e) /\ SameExchange(b, e)
          /\ e.live = b.live /\ e.socket_down_pending = b.socket_down_pending
      BY <2>2, <2>4, ChargeFacts
    <2> HIDE DEF e
    <2>6. /\ f \in BackedActor
          /\ SameWriter(e, f) /\ SameReader(e, f) /\ SameExchange(e, f)
          /\ f.live = None /\ (f.socket_down_pending <=> e.socket_down_pending \/ e.live # None)
      BY <2>5, CloseFacts, CloseType
    <2> HIDE DEF f
    <2>7. ASSUME NEW c \in {b, e, f}
          PROVE  /\ c \in BackedActor
                 /\ SameReader(a, c) /\ SameExchange(a, c)
                 /\ c.writer_crypto = a.writer_crypto + 1
                 /\ c.writer_seq = a.writer_seq + 1
                 /\ c.backup = b.backup
      BY <2>2, <2>5, <2>6 DEF SameWriter, SameReader, SameExchange
    <2>8. ASSUME NEW c \in {b, e, f}
          PROVE  \E j \in 0 .. Len(a.backup) + 1 :
                    /\ Len(c.backup) = Len(a.backup) + 1 - j
                    /\ \A i \in 1 .. Len(c.backup) :
                          c.backup[i] = IF i + j <= Len(a.backup) THEN a.backup[i + j]
                                        ELSE a.writer_crypto + 1
      <3>1. c.backup = b.backup
        BY <2>7
      <3> WITNESS k \in 0 .. Len(a.backup) + 1
      <3> QED BY <2>2, <3>1
    <2>9. \E c : Accepted(p, a, c)
      <3>1. CASE /\ b.live = None
                 /\ actor' = [actor EXCEPT ![p] = Resume(p, e)]
                 /\ UNCHANGED <<pipe, broken>>
        <4>1. Accepted(p, a, e)
          BY <2>2, <2>5, <2>7, <2>8, <3>1 DEF Accepted
        <4> QED BY <4>1
      <3>2. CASE /\ b.live # None /\ Transmit(p, b)
                 /\ actor' = [actor EXCEPT ![p] = Resume(p, b)]
                 /\ UNCHANGED broken
        <4>1. pipe' = [pipe EXCEPT ![a.live][Other(p)].frames = Append(@, a.writer_crypto + 1)]
          BY <2>2, <3>2 DEF Transmit
        <4>2. Accepted(p, a, b)
          BY <2>2, <2>7, <2>8, <3>2, <4>1 DEF Accepted
        <4> QED BY <4>2
      <3>3. CASE /\ b.live # None
                 /\ actor' = [actor EXCEPT ![p] = Resume(p, f)]
                 /\ broken' = Closing(b.live)
                 /\ UNCHANGED pipe
        <4>1. Accepted(p, a, f)
          BY <2>2, <2>5, <2>6, <2>7, <2>8, <3>3 DEF Accepted
        <4> QED BY <4>1
      <3> QED BY <2>3, <3>1, <3>2, <3>3
    <2> QED BY <1>2, <2>9 DEF WriteFrom, Wrote
  <1> QED BY <1>1, <1>2

-----------------------------------------------------------------------------
(* Types. *)

\* The initial state is well typed.
LEMMA InitType == Init => TypeOK
  <1> SUFFICES ASSUME Init PROVE TypeOK
    OBVIOUS
  <1>1. NewActor \in BackedActor
    BY SocketFacts, SMTT(20) DEF NewActor, BackedActor, PC, Stage, None, NoLedger
  <1>2. EmptyDirection \in Direction
    BY SMTT(20) DEF EmptyDirection, Direction
  <1> QED BY <1>1, <1>2, SocketFacts, SMTT(20) DEF Init, TypeOK

\* A write keeps the types.
LEMMA WriteType ==
    ASSUME TypeOK, StreamInv, NEW p \in Peers, NEW a \in BackedActor, SameExchange(actor[p], a),
           NEW hdr \in {KEEP_ALIVE, DATA}, NEW size \in Sizes \cup {0},
           WriteFrom(p, a, hdr, size)
    PROVE  /\ actor' \in [Peers -> BackedActor] /\ StreamInv'
           /\ sent' \in [Peers -> Seq(Packet)]
           /\ broken' \in SUBSET Sockets
           /\ pipe' \in [Sockets -> [Peers -> Direction]]
  <1>1. CASE /\ actor' = [actor EXCEPT ![p] = Resume(p, a)]
             /\ UNCHANGED <<sent, pipe, broken>>
    <2>1. Resume(p, a) \in BackedActor /\ SameExchange(actor[p], Resume(p, a))
      BY ResumeType, ResumeExchange DEF SameExchange
    <2> QED BY <1>1, <2>1, Moves DEF TypeOK
  <1>2. ASSUME sent' = [sent EXCEPT ![p] = Append(@, [hdr |-> hdr, len |-> size + Overhead])],
               NEW c, Accepted(p, a, c)
        PROVE  /\ actor' \in [Peers -> BackedActor] /\ StreamInv'
               /\ sent' \in [Peers -> Seq(Packet)]
               /\ broken' \in SUBSET Sockets
               /\ pipe' \in [Sockets -> [Peers -> Direction]]
    <2>1. [hdr |-> hdr, len |-> size + Overhead] \in Packet
      BY DEF Packet
    <2>2. sent' \in [Peers -> Seq(Packet)]
      BY <1>2, <2>1, SMTT(20) DEF TypeOK
    <2>3. c \in BackedActor /\ SameExchange(actor[p], c)
      BY <1>2 DEF Accepted, SameExchange
    <2>4. Resume(p, c) \in BackedActor /\ SameExchange(actor[p], Resume(p, c))
      BY <2>3, ResumeType, ResumeExchange DEF SameExchange
    <2>5. actor' \in [Peers -> BackedActor] /\ StreamInv'
      BY <1>2, <2>4, Moves DEF Accepted
    <2>6. Closing(a.live) \in SUBSET Sockets
      BY DEF Closing, BackedActor, TypeOK
    <2>7. CASE UNCHANGED pipe /\ (UNCHANGED broken \/ broken' = Closing(a.live))
      BY <2>2, <2>5, <2>6, <2>7 DEF TypeOK
    <2>8. CASE /\ a.live # None /\ UNCHANGED broken
               /\ pipe' = [pipe EXCEPT ![a.live][Other(p)].frames = Append(@, a.writer_crypto + 1)]
      <3>1. a.live \in Sockets /\ a.writer_crypto + 1 \in Nat /\ Other(p) \in Peers
        BY <2>8, OtherFacts, SMTT(20) DEF BackedActor
      <3>2. pipe[a.live][Other(p)].frames \in Seq(Nat)
        BY <3>1, PipeUpdates DEF Direction
      <3>3. Append(pipe[a.live][Other(p)].frames, a.writer_crypto + 1) \in Seq(Nat)
        BY <3>1, <3>2, SMTT(20)
      <3>4. pipe' = [pipe EXCEPT ![a.live][Other(p)].frames =
                        Append(pipe[a.live][Other(p)].frames, a.writer_crypto + 1)]
        BY <2>8, <3>1, SMTT(30) DEF TypeOK
      <3>5. pipe' \in [Sockets -> [Peers -> Direction]]
        BY <3>1, <3>3, <3>4, PipeUpdates
      <3> QED BY <2>2, <2>5, <2>8, <3>5 DEF TypeOK
    <2> QED BY <1>2, <2>7, <2>8 DEF Accepted
  <1> QED BY <1>1, <1>2, WriteEffect, SMTT(20) DEF Wrote

\* Every step keeps the state well typed.
TypeInv == TypeOK /\ StreamInv

\* Every step keeps the types.
LEMMA NextType == TypeInv /\ [Next]_vars => TypeInv'
  <1> SUFFICES ASSUME TypeOK, StreamInv, [Next]_vars PROVE TypeInv'
    BY DEF TypeInv
  <1>0. ASSUME NEW p \in Peers
        PROVE  /\ actor[p] \in BackedActor
               /\ actor[p].live \in {None} \cup Sockets
               /\ actor[p].old \in {None} \cup Sockets
               /\ actor[p].stream \in {None} \cup Sockets
               /\ SameExchange(actor[p], actor[p])
    BY DEF TypeOK, BackedActor, SameExchange
  <1>c. ASSUME NEW s \in {None} \cup Sockets PROVE Closing(s) \in SUBSET Sockets
    BY DEF Closing, TypeOK
  <1>r. ASSUME NEW p \in Peers, NEW ok \in BOOLEAN, Reply(p, ok)
        PROVE  owner' \in [Peers -> {"run", "reconnect", "await", "ended"}]
    BY <1>r DEF Reply, TypeOK
  <1>s. ASSUME NEW p \in Peers, NEW e \in Event
        PROVE  [events EXCEPT ![p] = Append(@, e)] \in [Peers -> Seq(Event)]
    <2>1. Append(events[p], e) \in Seq(Event)
      BY SeqAppend DEF TypeOK
    <2> QED BY <2>1 DEF TypeOK
  <1>d. ASSUME NEW p \in Peers, NEW e \in Event, SendDead(p, e)
        PROVE  events' \in [Peers -> Seq(Event)]
    <2>1. CASE events' = [events EXCEPT ![p] = Append(@, e)]
      BY <1>s, <2>1
    <2>2. CASE UNCHANGED events
      BY <2>2, SMTT(30) DEF TypeOK
    <2> QED BY <1>d, <2>1, <2>2 DEF SendDead
  <1>k. ASSUME NEW p \in Peers
        PROVE  LET c == CloseCurrentSocket(actor[p])
               IN  /\ Resume(p, c) \in BackedActor
                   /\ SameExchange(actor[p], Resume(p, c))
    <2>1. PICK c : c = CloseCurrentSocket(actor[p])
      OBVIOUS
    <2>2. c \in BackedActor /\ SameExchange(actor[p], c)
      BY <1>0, <2>1, CloseType, CloseFacts
    <2>3. Resume(p, c) \in BackedActor /\ SameExchange(c, Resume(p, c))
      BY <2>2, ResumeType, ResumeExchange
    <2>4. SameExchange(actor[p], Resume(p, c))
      BY <2>2, <2>3 DEF SameExchange
    <2> QED BY <2>1, <2>3, <2>4
  <1>1. ASSUME NEW p \in Peers, Write(p) PROVE TypeInv'
    BY <1>1, <1>0, WriteType DEF Write, TypeInv, TypeOK
  <1>2. ASSUME NEW p \in Peers, Echo(p) PROVE TypeInv'
    BY <1>2, <1>0, WriteType DEF Echo, TypeInv, TypeOK
  <1>3. ASSUME NEW p \in Peers, ReadFrame(p) PROVE TypeInv'
    <2> DEFINE a == actor[p]
               in == pipe[a.live][p].frames
               i == Append(a.inbox, Head(in))
               b == [a EXCEPT !.inbox = i]
    <2>1. a.live \in Sockets
      BY <1>0, <1>3 DEF ReadFrame
    <2>2. in \in Seq(Nat) /\ in # <<>>
      BY <1>3, <2>1, PipeUpdates DEF Direction, ReadFrame
    <2>3. a.inbox \in Seq(Nat) /\ Head(in) \in Nat /\ Tail(in) \in Seq(Nat)
      BY <1>0, <2>2, SeqHead DEF BackedActor
    <2>4. i \in Seq(Nat)
      BY <2>3, SeqAppend
    <2>5. actor' = [actor EXCEPT ![p] = Resume(p, b)]
      BY <1>3 DEF ReadFrame
    <2>6. pipe' = [pipe EXCEPT ![a.live][p].frames = Tail(in)]
      BY <1>3, <2>1 DEF ReadFrame, TypeOK
    <2>7. pipe' \in [Sockets -> [Peers -> Direction]]
      <3> HIDE DEF in
      <3> QED BY <2>1, <2>3, <2>6, PipeUpdates
    <2> HIDE DEF i
    <2>8. b \in BackedActor /\ SameExchange(a, b)
      BY <1>0, <2>4, InboxFacts
    <2> HIDE DEF b
    <2>9. Resume(p, b) \in BackedActor /\ SameExchange(a, Resume(p, b))
      BY <2>8, ResumeType, ResumeExchange DEF SameExchange
    <2>10. actor' \in [Peers -> BackedActor] /\ StreamInv'
      BY <2>5, <2>9, Moves
    <2> QED BY <1>3, <2>7, <2>10 DEF ReadFrame, TypeInv, TypeOK
  <1>4. ASSUME NEW p \in Peers, ReadError(p) PROVE TypeInv'
    <2>1. actor' \in [Peers -> BackedActor] /\ StreamInv'
      BY <1>4, <1>k, Moves DEF ReadError
    <2> QED BY <1>4, <2>1 DEF ReadError, TypeInv, TypeOK
  <1>5. ASSUME NEW p \in Peers, IdleTick(p) PROVE TypeInv'
    <2>1. Resume(p, actor[p]) \in BackedActor /\ SameExchange(actor[p], Resume(p, actor[p]))
      BY <1>0, ResumeType, ResumeExchange
    <2>2. actor' \in [Peers -> BackedActor] /\ StreamInv'
      BY <1>5, <2>1, Moves DEF IdleTick
    <2> QED BY <1>5, <2>2 DEF IdleTick, TypeInv, TypeOK
  <1>6. ASSUME NEW p \in Peers, KeepalivePing(p) PROVE TypeInv'
    <2> DEFINE b == [actor[p] EXCEPT !.waiting_on_keepalive = TRUE]
    <2>1. b \in BackedActor /\ SameExchange(actor[p], b)
      BY <1>0, PingFacts
    <2>2. WriteFrom(p, b, KEEP_ALIVE, 0)
      BY <1>6 DEF KeepalivePing
    <2> HIDE DEF b
    <2> QED BY <1>6, <2>1, <2>2, WriteType DEF KeepalivePing, TypeInv, TypeOK
  <1>7. ASSUME NEW p \in Peers, KeepaliveExpire(p) PROVE TypeInv'
    <2>1. actor' \in [Peers -> BackedActor] /\ StreamInv' /\ broken' \in SUBSET Sockets
      BY <1>7, <1>0, <1>c, <1>k, Moves DEF KeepaliveExpire
    <2> QED BY <1>7, <2>1 DEF KeepaliveExpire, TypeInv, TypeOK
  <1>8. ASSUME NEW p \in Peers, KillSocket(p) PROVE TypeInv'
    <2>1. actor' \in [Peers -> BackedActor] /\ StreamInv' /\ broken' \in SUBSET Sockets
      BY <1>8, <1>0, <1>c, <1>k, Moves DEF KillSocket
    <2> QED BY <1>8, <2>1 DEF KillSocket, TypeInv, TypeOK
  <1>9. ASSUME NEW p \in Peers, SendEvent(p) PROVE TypeInv'
    <2>1. DeliverInbox(p, actor[p]) \in BackedActor /\ SameExchange(actor[p], DeliverInbox(p, actor[p]))
      BY <1>0, DeliverType, ResumeExchange
    <2>2. actor' \in [Peers -> BackedActor] /\ StreamInv'
      BY <1>9, <2>1, Moves DEF SendEvent
    <2>3. Append(delivered[p], actor[p].reader_crypto) \in Seq(Nat)
      <3>1. delivered[p] \in Seq(Nat) /\ actor[p].reader_crypto \in Nat
        BY DEF TypeOK, BackedActor
      <3> QED BY <3>1, SeqAppend
    <2>4. delivered' \in [Peers -> Seq(Nat)]
      BY <1>9, <2>3 DEF SendEvent, TypeOK
    <2>5. events' \in [Peers -> Seq(Event)]
      BY <1>9, <1>s, ZenonT(60) DEF SendEvent, Event
    <2> QED BY <1>9, <2>2, <2>4, <2>5 DEF SendEvent, TypeInv, TypeOK
  <1>10. ASSUME NEW p \in Peers, RecoverStart(p) PROVE TypeInv'
    <2> DEFINE a == actor[p]
               s == Head(offers[p])
               b == [a EXCEPT !.stage = "seq", !.stream = s, !.old = a.live, !.live = None]
               h == Append(pipe[s][Other(p)].seq, AsI32(a.reader_seq))
    <2>1. s \in Sockets /\ Other(p) \in Peers
      BY <1>10, OtherFacts, SMTT(30) DEF RecoverStart, TypeOK
    <2>2. offers' \in [Peers -> Seq(Sockets)]
      BY <1>10, SMTT(30) DEF RecoverStart, TypeOK
    <2>3. AsI32(a.reader_seq) \in Int
      BY <1>0, LimitsAssumption, SMTT(30) DEF BackedActor, AsI32
    <2>4. actor' = [actor EXCEPT ![p] = b]
      BY <1>10 DEF RecoverStart, TypeOK
    <2>5. pipe' = [pipe EXCEPT ![s][Other(p)].seq = h]
      BY <1>10, <2>1 DEF RecoverStart, TypeOK
    <2>6. pipe[s][Other(p)].seq \in Seq(Int)
      BY <2>1, PipeUpdates DEF Direction
    <2>7. h \in Seq(Int)
      BY <2>3, <2>6, SeqAppend
    <2> HIDE DEF s, h
    <2>8. pipe' \in [Sockets -> [Peers -> Direction]]
      BY <2>1, <2>5, <2>7, PipeUpdates, SMTT(30)
    <2>9. b \in BackedActor /\ b.stream = s
      BY <1>0, <2>1, StartFacts
    <2> HIDE DEF b
    <2>10. actor' \in [Peers -> BackedActor] /\ StreamInv'
      BY <2>1, <2>4, <2>9, Moves, SocketFacts, ZenonT(60)
    <2> QED BY <1>10, <2>2, <2>8, <2>10 DEF RecoverStart, TypeInv, TypeOK
  <1>11. ASSUME NEW p \in Peers, RecoverSequence(p) PROVE TypeInv'
    <2> DEFINE a == actor[p]
               t == a.stream
               in == pipe[t][p].seq
               n == ToRecover(a, Head(in))
               c == Catchup(a, n)
               out == Append(pipe[t][Other(p)].catchup, c)
               mid == [pipe EXCEPT ![t][p].seq = Tail(in)]
    <2>1. a \in BackedActor /\ t \in Sockets /\ Other(p) \in Peers /\ Other(p) # p
      BY <1>0, <1>11, OtherFacts, ZenonT(60) DEF RecoverSequence, StreamInv
    <2>2. in \in Seq(Int) /\ in # <<>> /\ pipe[t][Other(p)].catchup \in Seq(Seq(Nat))
      BY <1>11, <2>1, PipeUpdates DEF Direction, RecoverSequence
    <2>3. c \in Seq(Nat)
      <3>1. a.backup \in Seq(Nat) /\ a.writer_seq \in Nat /\ Head(in) \in Int
        BY <2>1, <2>2, SeqHead DEF BackedActor
      <3>2. n \in Int /\ n >= 0 /\ n <= Len(a.backup)
        <4>1. CanRecover(a, Head(in))
          BY <1>11 DEF RecoverSequence
        <4> HIDE DEF a, in
        <4> QED BY <3>1, <4>1, SMTT(30) DEF CanRecover, ToRecover
      <3> HIDE DEF n
      <3> DEFINE m == Len(a.backup)
                 k == m - n
      <3>3. m \in Nat
        BY <3>1, SeqLen
      <3> HIDE DEF m
      <3>4. k \in 0 .. m /\ k + 1 = m - n + 1
        BY <3>2, <3>3, SMTT(20) DEF m
      <3>5. SubSeq(a.backup, k + 1, m) \in Seq(Nat)
        <4> HIDE DEF k
        <4> QED BY <3>1, <3>4, SeqSuffix DEF m
      <3> QED BY <3>4, <3>5 DEF Catchup, m
    <2>4. Tail(in) \in Seq(Int)
      BY <2>2, SeqHead
    <2> HIDE DEF c
    <2>5. out \in Seq(Seq(Nat))
      BY <2>2, <2>3, SeqAppend
    <2>6. pipe' = [mid EXCEPT ![t][Other(p)].catchup = out]
      BY <1>11, <2>1 DEF RecoverSequence, TypeOK, c
    <2> HIDE DEF in, out
    <2>7. mid \in [Sockets -> [Peers -> Direction]]
      BY <2>1, <2>4, PipeUpdates
    <2> HIDE DEF mid
    <2>8. [mid[t][Other(p)] EXCEPT !.catchup = out] \in Direction
      <3>1. mid[t][Other(p)] \in Direction
        BY <2>1, <2>7
      <3> QED BY <2>5, <3>1, ZenonT(60) DEF Direction
    <2>9. pipe' \in [Sockets -> [Peers -> Direction]]
      BY <2>1, <2>6, <2>7, <2>8
    <2>10. actor' = [actor EXCEPT ![p] = [a EXCEPT !.stage = "catchup"]]
      BY <1>11 DEF RecoverSequence, TypeOK
    <2>11. /\ [a EXCEPT !.stage = "catchup"] \in BackedActor
           /\ [a EXCEPT !.stage = "catchup"].stream = t
      BY <2>1, SequenceFacts
    <2>12. actor' \in [Peers -> BackedActor] /\ StreamInv'
      BY <2>1, <2>10, <2>11, Moves, SocketFacts, ZenonT(60)
    <2> QED BY <1>11, <2>9, <2>12 DEF RecoverSequence, TypeInv, TypeOK
  <1>12. ASSUME NEW p \in Peers, RecoverDone(p) PROVE TypeInv'
    <2> DEFINE a == actor[p]
               t == a.stream
               in == pipe[t][p].catchup
               i == a.inbox \o Head(in)
               b == [a EXCEPT !.inbox = i, !.disconnected_bytes = NoLedger, !.live = a.stream,
                              !.stage = "none", !.stream = None, !.old = None]
    <2>1. a \in BackedActor /\ t \in Sockets
      <3>1. a.stage = "catchup"
        BY <1>12 DEF RecoverDone
      <3> QED BY <1>0, <3>1 DEF StreamInv
    <2>2. in \in Seq(Seq(Nat)) /\ in # <<>>
      BY <1>12, <2>1, PipeUpdates DEF Direction, RecoverDone
    <2>3. a.inbox \in Seq(Nat) /\ Head(in) \in Seq(Nat) /\ Tail(in) \in Seq(Seq(Nat))
      BY <2>1, <2>2, SeqHead DEF BackedActor
    <2>4. i \in Seq(Nat)
      BY <2>3, SeqConcat
    <2>5. actor' = [actor EXCEPT ![p] = Resume(p, b)]
      BY <1>12 DEF RecoverDone
    <2>6. pipe' = [pipe EXCEPT ![t][p].catchup = Tail(in)]
      BY <1>12, <2>1 DEF RecoverDone, TypeOK
    <2>7. pipe' \in [Sockets -> [Peers -> Direction]]
      <3> HIDE DEF in
      <3> QED BY <2>1, <2>3, <2>6, PipeUpdates
    <2> HIDE DEF i
    <2>8. b \in BackedActor /\ b.stage = "none"
      BY <2>1, <2>4, DoneFacts
    <2> HIDE DEF b
    <2>9. Resume(p, b) \in BackedActor /\ Resume(p, b).stage = "none"
      BY <2>8, ResumeType, ResumeExchange DEF SameExchange
    <2>10. actor' \in [Peers -> BackedActor] /\ StreamInv'
      BY <2>5, <2>9, Moves
    <2>11. owner' \in [Peers -> {"run", "reconnect", "await", "ended"}] /\ broken' \in SUBSET Sockets
      BY <1>12, <1>0, <1>c, <1>r DEF RecoverDone
    <2> QED BY <1>12, <2>7, <2>10, <2>11 DEF RecoverDone, TypeInv, TypeOK
  <1>13. ASSUME NEW p \in Peers, RecoverFail(p) PROVE TypeInv'
    <2> DEFINE a == actor[p]
               b == [a EXCEPT !.live = a.old, !.stage = "none", !.stream = None, !.old = None]
    <2>1. actor' = [actor EXCEPT ![p] = Resume(p, b)]
      BY <1>13 DEF RecoverFail
    <2>2. b \in BackedActor /\ b.stage = "none"
      BY <1>0, FailFacts, ZenonT(60)
    <2> HIDE DEF b
    <2>3. Resume(p, b) \in BackedActor /\ Resume(p, b).stage = "none"
      BY <2>2, ResumeType, ResumeExchange DEF SameExchange
    <2>4. actor' \in [Peers -> BackedActor] /\ StreamInv'
      BY <2>1, <2>3, Moves
    <2>5. owner' \in [Peers -> {"run", "reconnect", "await", "ended"}] /\ broken' \in SUBSET Sockets
      BY <1>13, <1>0, <1>c, <1>r DEF RecoverFail
    <2> QED BY <1>13, <2>4, <2>5 DEF RecoverFail, TypeInv, TypeOK
  <1>e. ASSUME NEW p \in Peers, NEW b, 
               \/ b = [actor[p] EXCEPT !.pc = "final", !.live = None]
               \/ b = [actor[p] EXCEPT !.pc = "stopped"],
               actor' = [actor EXCEPT ![p] = b]
        PROVE  actor' \in [Peers -> BackedActor] /\ StreamInv'
    <2>1. b \in BackedActor /\ SameExchange(actor[p], b)
      <3>1. CASE b = [actor[p] EXCEPT !.pc = "final", !.live = None]
        BY <3>1, <1>0, StopFacts, ZenonT(60)
      <3>2. CASE b = [actor[p] EXCEPT !.pc = "stopped"]
        BY <3>2, <1>0, StopFacts
      <3> QED BY <1>e, <3>1, <3>2
    <2> QED BY <1>e, <2>1, Moves, ZenonT(60)
  <1>14. ASSUME NEW p \in Peers, Shutdown(p) PROVE TypeInv'
    <2>1. actor' = [actor EXCEPT ![p] = [actor[p] EXCEPT !.pc = "final", !.live = None]]
      BY <1>14 DEF Shutdown, TypeOK
    <2>2. actor' \in [Peers -> BackedActor] /\ StreamInv' /\ broken' \in SUBSET Sockets
      BY <1>14, <1>0, <1>c, <1>e, <2>1 DEF Shutdown
    <2> QED BY <1>14, <2>2 DEF Shutdown, TypeInv, TypeOK
  <1>15. ASSUME NEW p \in Peers, DieCryptoMismatch(p) PROVE TypeInv'
    <2>1. actor' = [actor EXCEPT ![p] = [actor[p] EXCEPT !.pc = "final", !.live = None]]
      BY <1>15 DEF DieCryptoMismatch, TypeOK
    <2>2. actor' \in [Peers -> BackedActor] /\ StreamInv' /\ broken' \in SUBSET Sockets
      BY <1>15, <1>0, <1>c, <1>e, <2>1 DEF DieCryptoMismatch
    <2>3. events' \in [Peers -> Seq(Event)]
      BY <1>15, <1>d DEF DieCryptoMismatch, Event
    <2> QED BY <1>15, <2>2, <2>3 DEF DieCryptoMismatch, TypeInv, TypeOK
  <1>16. ASSUME NEW p \in Peers, Finish(p) PROVE TypeInv'
    <2>1. actor' = [actor EXCEPT ![p] = [actor[p] EXCEPT !.pc = "stopped"]]
      BY <1>16, SMTT(30) DEF Finish, TypeOK
    <2>2. actor' \in [Peers -> BackedActor] /\ StreamInv'
      BY <1>e, <2>1
    <2>3. events' \in [Peers -> Seq(Event)]
      <3>1. UNCHANGED events \/ SendDead(p, "DeadShutdown")
        BY <1>16 DEF Finish
      <3> QED BY <1>d, <3>1 DEF Event, TypeOK
    <2>4. broken' \in SUBSET Sockets
      <3>1. \A i \in DOMAIN offers[p] : offers[p][i] \in Sockets
        BY SMTT(20) DEF TypeOK
      <3> QED BY <1>16, <3>1, SMTT(20) DEF Finish, TypeOK
    <2>5. offers' \in [Peers -> Seq(Sockets)]
      BY <1>16, SMTT(20) DEF Finish, TypeOK
    <2>6. owner' \in [Peers -> {"run", "reconnect", "await", "ended"}]
      BY <1>16, <1>r DEF Finish
    <2> QED BY <1>16, <2>2, <2>3, <2>4, <2>5, <2>6 DEF Finish, TypeInv, TypeOK
  <1>17. ASSUME NEW p \in Peers, Consume(p) PROVE TypeInv'
    <2>1. events[p] \in Seq(Event) /\ events[p] # <<>>
      BY <1>17 DEF Consume, TypeOK
    <2>2. Head(events[p]) \in Event /\ Tail(events[p]) \in Seq(Event)
      BY <2>1, SeqHead
    <2>3. events' \in [Peers -> Seq(Event)]
      BY <1>17, <2>2 DEF Consume, TypeOK
    <2>4. owner' \in [Peers -> {"run", "reconnect", "await", "ended"}]
      <3>1. CASE Head(events[p]) = "SocketDown" /\ p = Client
        <4>1. owner' = [owner EXCEPT ![p] = "reconnect"]
          BY <1>17, <3>1 DEF Consume
        <4> QED BY <4>1 DEF TypeOK
      <3>2. CASE Head(events[p]) \in {"DeadShutdown", "DeadCryptoMismatch"}
        <4>1. owner' = [owner EXCEPT ![p] = "ended"]
          BY <1>17, <3>2 DEF Consume
        <4> QED BY <4>1 DEF TypeOK
      <3>3. CASE Head(events[p]) = "Packet" \/ (Head(events[p]) = "SocketDown" /\ p # Client)
        <4>1. owner' = [owner EXCEPT ![p] = owner[p]]
          BY <1>17, <3>3, ZenonT(60) DEF Consume
        <4> QED BY <4>1 DEF TypeOK
      <3>4. \/ Head(events[p]) = "SocketDown" /\ p = Client
            \/ Head(events[p]) \in {"DeadShutdown", "DeadCryptoMismatch"}
            \/ Head(events[p]) = "Packet" \/ (Head(events[p]) = "SocketDown" /\ p # Client)
        BY <2>2 DEF Event
      <3> QED BY <3>1, <3>2, <3>3, <3>4
    <2> QED BY <1>17, <2>3, <2>4 DEF Consume, TypeInv, TypeOK, StreamInv
  <1>18. CASE Connect
    <2>1. ASSUME NEW p \in Peers PROVE Append(offers[p], opened + 1) \in Seq(Sockets)
      BY <1>18, SeqAppend DEF Connect, TypeOK
    <2>2. offers' \in [Peers -> Seq(Sockets)]
      BY <1>18, <2>1 DEF Connect
    <2>3. owner' \in [Peers -> {"run", "reconnect", "await", "ended"}]
      BY <1>18 DEF Connect, TypeOK
    <2> QED BY <1>18, <2>2, <2>3 DEF Connect, TypeInv, TypeOK, StreamInv
  <1>19. ASSUME NEW s \in Sockets, Cut(s) PROVE TypeInv'
    BY <1>19 DEF Cut, TypeInv, TypeOK, StreamInv
  <1>20. CASE UNCHANGED vars
    BY <1>20 DEF vars, TypeInv, TypeOK, StreamInv
  <1> QED BY <1>1, <1>2, <1>3, <1>4, <1>5, <1>6, <1>7, <1>8, <1>9, <1>10, <1>11, <1>12,
             <1>13, <1>14, <1>15, <1>16, <1>17, <1>18, <1>19, <1>20 DEF Next, ActorStep

\* The state of the two actors, their owners and the sockets stays well typed.
THEOREM TypeCorrect == Spec => []TypeOK
  <1>1. Init => TypeInv
    BY InitType, SMTT(20) DEF Init, TypeInv, StreamInv, NewActor
  <1>2. TypeInv => TypeOK
    BY SMTT(30) DEF TypeInv
  <1> QED BY <1>1, <1>2, NextType, PTL DEF Spec

=============================================================================
