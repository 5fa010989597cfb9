---------------------------- MODULE BackedState -----------------------------
(***************************************************************************)
(* The state of a backed (resumable) connection of                         *)
(* crates/et-proto/src/backed.rs, and the code of its actor that works on  *)
(* that state alone.  Two peers, each a BackedActor, are joined by a       *)
(* succession of TCP sockets that may break at any time.                   *)
(*                                                                         *)
(* Data abstraction.  Both CryptoHandlers count packets, and a ciphertext  *)
(* decrypts only under the nonce it was made with, so a serialized packet  *)
(* is represented by its nonce counter: the k-th packet a peer encrypts is *)
(* the number k, and sent[p][k] records its header and serialized length.  *)
(***************************************************************************)
EXTENDS Integers, Sequences

CONSTANTS
    Client, Server,            \* the two ends of the session
    Sizes,                     \* payload lengths of application packets
    Overhead,                  \* Packet::serialize: 2 header bytes + MAC
    EntryOverhead,             \* CatchupBuffer: tag and length of an entry
    MAX_BACKUP_BYTES,
    DISCONNECT_BUFFER_BYTES,
    DEFAULT_MAX_PROTO_LENGTH,  \* cap on an incoming CatchupBuffer
    WRITE_QUEUE_DEPTH,         \* frames a socket holds before try_send fails
    EVENT_QUEUE_DEPTH,
    I32_LIMIT,                 \* i32 holds -I32_LIMIT .. I32_LIMIT - 1
    Keepalive,                 \* ends configured with a keepalive period
    Draining,                  \* ends handed a socket only with an empty inbox
    Stoppable,                 \* ends whose owner may call shutdown()
    Unreliable,                \* sockets that may break or time out
    MaxWrites,                 \* bound: packets a peer writes
    MaxSockets                 \* bound: sockets opened over the session

Peers == {Client, Server}
Other(p) == IF p = Client THEN Server ELSE Client
Sockets == 1 .. MaxSockets
None == 0                      \* no socket
NoLedger == -1                 \* disconnected_bytes = None

ASSUME PeersAssumption == Client # Server
ASSUME SizesAssumption == Sizes \subseteq Nat /\ Overhead \in Nat \ {0} /\ EntryOverhead \in Nat
ASSUME LimitsAssumption ==
    /\ MAX_BACKUP_BYTES \in Nat
    /\ DISCONNECT_BUFFER_BYTES \in Nat
    /\ DEFAULT_MAX_PROTO_LENGTH \in Nat
    /\ WRITE_QUEUE_DEPTH \in Nat \ {0}
    /\ EVENT_QUEUE_DEPTH \in Nat \ {0}
    /\ I32_LIMIT \in Nat \ {0}
ASSUME OwnersAssumption ==
    Keepalive \subseteq Peers /\ Draining \subseteq Peers /\ Stoppable \subseteq Peers
ASSUME BoundsAssumption ==
    /\ MaxWrites \in [Peers -> Nat]
    /\ MaxSockets \in Nat \ {0}
    /\ Unreliable \subseteq Sockets

VARIABLES
    actor,     \* the state of each peer's BackedActor
    sent,      \* history: every packet a peer encrypted, in order
    delivered, \* history: the packets sent out as BackedEvent::Packet
    events,    \* the bounded event channel from an actor to its owner
    owner,     \* what the owner of each end is doing
    offers,    \* Cmd::Recover commands queued at an actor, by socket
    opened,    \* sockets opened so far
    broken,    \* sockets one end closed, or the network cut
    pipe       \* pipe[s][p]: what socket s carries towards p

vars == <<actor, sent, delivered, events, owner, offers, opened, broken, pipe>>

KEEP_ALIVE == "KEEP_ALIVE"
DATA == "DATA"
Packet == [hdr : {KEEP_ALIVE, DATA}, len : {size + Overhead : size \in Sizes \cup {0}}]
Event == {"Packet", "SocketDown", "DeadShutdown", "DeadCryptoMismatch"}

\* Where an actor is suspended: the select of the run loop, send_event of a
\* SocketDown, send_event of a packet out of deliver_inbox, the bounded send in
\* die_crypto_mismatch, the last send of the run loop; "stopped" is the task gone.
PC == {"select", "sockdown", "deliver", "mismatch", "final", "stopped"}

\* How far the recover exchange is: next it awaits the peer's SequenceHeader,
\* or the peer's CatchupBuffer.
Stage == {"none", "seq", "catchup"}

BackedActor ==
    [writer_crypto : Nat, reader_crypto : Nat,
     writer_seq : Nat, reader_seq : Nat,
     backup : Seq(Nat),        \* oldest first: push_front is Append
     inbox : Seq(Nat),
     live : {None} \cup Sockets,
     disconnected_bytes : {NoLedger} \cup Nat,
     socket_down_pending : BOOLEAN,
     waiting_on_keepalive : BOOLEAN,
     dead_sent : BOOLEAN,
     pc : PC,
     stage : Stage,
     stream : {None} \cup Sockets,   \* the socket the exchange runs over
     old : {None} \cup Sockets]      \* the socket it would supersede

NewActor ==
    [writer_crypto |-> 0, reader_crypto |-> 0, writer_seq |-> 0, reader_seq |-> 0,
     backup |-> <<>>, inbox |-> <<>>, live |-> 1, disconnected_bytes |-> NoLedger,
     socket_down_pending |-> FALSE, waiting_on_keepalive |-> FALSE, dead_sent |-> FALSE,
     pc |-> "select", stage |-> "none", stream |-> None, old |-> None]

\* A direction of a socket.  The stream carries at most one SequenceHeader,
\* then at most one CatchupBuffer, then packet frames; the reader takes them
\* in that order, so the three parts are kept apart.
Direction == [seq : Seq(Int), catchup : Seq(Seq(Nat)), frames : Seq(Nat)]
EmptyDirection == [seq |-> <<>>, catchup |-> <<>>, frames |-> <<>>]

TypeOK ==
    /\ actor \in [Peers -> BackedActor]
    /\ sent \in [Peers -> Seq(Packet)]
    /\ delivered \in [Peers -> Seq(Nat)]
    /\ events \in [Peers -> Seq(Event)]
    /\ owner \in [Peers -> {"run", "reconnect", "await", "ended"}]
    /\ offers \in [Peers -> Seq(Sockets)]
    /\ opened \in Sockets
    /\ broken \in SUBSET Sockets
    /\ pipe \in [Sockets -> [Peers -> Direction]]

Init ==
    /\ actor = [p \in Peers |-> NewActor]
    /\ sent = [p \in Peers |-> <<>>]
    /\ delivered = [p \in Peers |-> <<>>]
    /\ events = [p \in Peers |-> <<>>]
    /\ owner = [p \in Peers |-> "run"]
    /\ offers = [p \in Peers |-> <<>>]
    /\ opened = 1
    /\ broken = {}
    /\ pipe = [s \in Sockets |-> [p \in Peers |-> EmptyDirection]]

-----------------------------------------------------------------------------
(* The actor's own code, as operators on its state. *)

\* Option::get_or_insert(0)
Ledger(d) == IF d = NoLedger THEN 0 ELSE d

\* Mutants: the loss is announced even when there was no socket; or never.
CloseAnnouncesAlways(a) ==
    [a EXCEPT !.live = None,
              !.socket_down_pending = TRUE,
              !.waiting_on_keepalive = FALSE,
              !.disconnected_bytes = Ledger(@)]

CloseAnnouncesNever(a) ==
    [a EXCEPT !.live = None,
              !.waiting_on_keepalive = FALSE,
              !.disconnected_bytes = Ledger(@)]

CloseCurrentSocket(a) ==
    [a EXCEPT !.live = None,
              !.socket_down_pending = @ \/ a.live # None,
              !.waiting_on_keepalive = FALSE,
              !.disconnected_bytes = Ledger(@)]

\* Mutant: an echo leaves waiting_on_keepalive set.
DeliverIgnoresEcho(p, a) ==
    CASE a.inbox = <<>> -> [a EXCEPT !.pc = "select"]
      [] a.inbox # <<>> /\ Head(a.inbox) # a.reader_crypto + 1 ->
            [a EXCEPT !.inbox = Tail(@), !.dead_sent = TRUE, !.pc = "mismatch"]
      [] a.inbox # <<>> /\ Head(a.inbox) = a.reader_crypto + 1 ->
            [a EXCEPT !.inbox = Tail(@), !.reader_crypto = @ + 1, !.reader_seq = @ + 1,
                      !.pc = "deliver"]

\* deliver_inbox up to its next suspension: pop one packet and decrypt it under
\* the next reader nonce.  A packet made under any other nonce fails the MAC.
DeliverInbox(p, a) ==
    CASE a.inbox = <<>> -> [a EXCEPT !.pc = "select"]
      [] a.inbox # <<>> /\ Head(a.inbox) # a.reader_crypto + 1 ->
            [a EXCEPT !.inbox = Tail(@), !.dead_sent = TRUE, !.pc = "mismatch"]
      [] a.inbox # <<>> /\ Head(a.inbox) = a.reader_crypto + 1 ->
            [a EXCEPT !.inbox = Tail(@),
                      !.reader_crypto = @ + 1,
                      !.reader_seq = @ + 1,
                      !.waiting_on_keepalive =
                          @ /\ sent[Other(p)][a.reader_crypto + 1].hdr # KEEP_ALIVE,
                      !.pc = "deliver"]

\* Mutant: serving a command abandons the packet send_event was parked on.
ResumeForgetsPacket(p, a) ==
    IF a.pc = "sockdown" THEN a
    ELSE IF a.socket_down_pending
         THEN [a EXCEPT !.socket_down_pending = FALSE, !.pc = "sockdown"]
         ELSE DeliverInbox(p, a)

\* What the run loop does after its select: SocketDown first, then the inbox.
\* A command served inside send_event returns to that send instead.
Resume(p, a) ==
    IF a.pc # "select" THEN a
    ELSE IF a.socket_down_pending
         THEN [a EXCEPT !.socket_down_pending = FALSE, !.pc = "sockdown"]
         ELSE DeliverInbox(p, a)

\* p's actor can take a command off its queue.
Serving(p) ==
    actor[p].pc \in {"select", "sockdown", "deliver"} /\ actor[p].stage = "none"

\* p's actor is in the select of its run loop.
Selecting(p) == actor[p].pc = "select" /\ actor[p].stage = "none"

Closing(s) == broken \cup ({s} \ {None})

\* to_recover, from the peer's header
ToRecover(a, remote_seq) == a.writer_seq - remote_seq

CanRecover(a, remote_seq) ==
    /\ ToRecover(a, remote_seq) >= 0
    /\ ToRecover(a, remote_seq) <= Len(a.backup)

\* Mutant: the oldest packets are resent instead of the newest.
CatchupOldest(a, n) == SubSeq(a.backup, 1, n)

\* The newest n packets of the backup, in the order they were written.
Catchup(a, n) == SubSeq(a.backup, Len(a.backup) - n + 1, Len(a.backup))

=============================================================================
