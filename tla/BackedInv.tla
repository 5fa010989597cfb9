----------------------------- MODULE BackedInv ------------------------------
(***************************************************************************)
(* The inductive invariant of Backed behind exactly-once delivery: the two *)
(* ends of the link agree on the packets in flight, and the client agrees  *)
(* with its supervisor on when a socket may be offered.                    *)
(***************************************************************************)
EXTENDS BackedState

\* How many packets p wrote, and the last packet of its peer that p has read
\* off a socket, decrypted or still in the inbox.
W(p) == Len(sent[p])

Base(p) == actor[p].reader_seq + Len(actor[p].inbox)

\* p's actor a wrote n packets: the counters agree, and the backup is a suffix
\* of what was written.
WriterOK(p, a, n) ==
    /\ a.writer_crypto = n
    /\ a.writer_seq = n
    /\ n <= MaxWrites[p]
    /\ Len(a.backup) <= n
    /\ \A i \in 1 .. Len(a.backup) : a.backup[i] = n - Len(a.backup) + i

WriterInv == \A p \in Peers : WriterOK(p, actor[p], W(p))

\* Actor a, that delivered d out of the n packets its peer wrote, is in step:
\* the inbox continues where decryption stands, and what was delivered is what
\* was decrypted, but for the packet being handed over.
InStep(a, d, n) ==
    /\ a.reader_crypto = a.reader_seq
    /\ ~a.dead_sent
    /\ a.pc # "mismatch"
    /\ \A i \in 1 .. Len(a.inbox) : a.inbox[i] = a.reader_seq + i
    /\ a.reader_seq + Len(a.inbox) <= n
    /\ \A i \in 1 .. Len(d) : d[i] = i
    /\ Len(d) <= a.reader_seq
    /\ a.pc = "deliver" => Len(d) + 1 = a.reader_seq
    /\ a.pc \in {"select", "sockdown"} => Len(d) = a.reader_seq

ReaderInv ==
    \A p \in Peers :
        /\ InStep(actor[p], delivered[p], W(Other(p)))
        /\ actor[p].pc = "select" => actor[p].inbox = <<>>

\* An exchange has a socket of its own, sets the live one aside and finds the
\* inbox empty.
StageInv ==
    \A p \in Peers :
        /\ actor[p].stage # "none" =>
              /\ actor[p].stream # None
              /\ actor[p].live = None
              /\ actor[p].inbox = <<>>
              /\ actor[p].pc \in {"select", "sockdown", "deliver"}
        /\ actor[p].stage = "none" => actor[p].stream = None /\ actor[p].old = None

\* p has not touched socket s yet.
Fresh(p, s) == opened < s \/ \E i \in 1 .. Len(offers[p]) : offers[p][i] = s

\* Nothing was sent by an end on a socket it has not touched, and the other end
\* has not got past its own header there.
FreshInv ==
    \A p \in Peers : \A s \in Sockets :
        Fresh(p, s) =>
            /\ pipe[s][Other(p)].seq = <<>>
            /\ pipe[s][Other(p)].catchup = <<>>
            /\ pipe[s][Other(p)].frames = <<>>
            /\ pipe[s][p].catchup = <<>>
            /\ pipe[s][p].frames = <<>>
            /\ s \notin {actor[p].live, actor[p].old, actor[p].stream}
            /\ s \notin {actor[Other(p)].live, actor[Other(p)].old}
            /\ actor[Other(p)].stream = s => actor[Other(p)].stage = "seq"

\* A socket is offered to an end once.
OffersInv ==
    \A p \in Peers :
        /\ \A i \in 1 .. Len(offers[p]) : offers[p][i] <= opened
        /\ \A i, j \in 1 .. Len(offers[p]) : offers[p][i] = offers[p][j] => i = j

\* The header p sent on the exchange it is in still tells the truth, and before
\* p read the peer's header it has sent nothing else.
HeaderInv ==
    \A p \in Peers : \A s \in Sockets :
        actor[p].stream = s =>
            /\ pipe[s][Other(p)].seq \in {<<>>, <<actor[p].reader_seq>>}
            /\ actor[p].stage = "seq" =>
                  /\ pipe[s][Other(p)].catchup = <<>>
                  /\ pipe[s][Other(p)].frames = <<>>
                  /\ s \notin {actor[Other(p)].live, actor[Other(p)].old}

\* p sends on s everything it writes.
Feeding(p, s) ==
    s \in {actor[p].live, actor[p].old} \/ (actor[p].stream = s /\ actor[p].stage = "catchup")

\* The frames in continue after packet base, and none is past packet n; if the
\* socket is fed they reach up to n.
Continues(in, base, n, fed) ==
    /\ \A i \in 1 .. Len(in) : in[i] = base + i
    /\ base + Len(in) <= n
    /\ fed => base + Len(in) = n

\* The frames on a socket p reads continue where p stands, and reach up to the
\* last packet written as long as the peer feeds the socket.
FramesInv ==
    \A p \in Peers : \A s \in Sockets :
        s \in {actor[p].live, actor[p].old} =>
            Continues(pipe[s][p].frames, Base(p), W(Other(p)), Feeding(Other(p), s))

\* The same of a catch-up and the frames after it.
CatchupOK(p, s) ==
    LET c == pipe[s][p].catchup[1]
    IN  /\ Len(pipe[s][p].catchup) = 1
        /\ \A i \in 1 .. Len(c) : c[i] = Base(p) + i
        /\ Continues(pipe[s][p].frames, Base(p) + Len(c), W(Other(p)), Feeding(Other(p), s))

CatchupInv ==
    \A p \in Peers : \A s \in Sockets :
        actor[p].stream = s /\ pipe[s][p].catchup # <<>> => CatchupOK(p, s)

\* A SocketDown of the client is queued.
Announced(i) == i \in 1 .. Len(events[Client]) /\ events[Client][i] = "SocketDown"

\* The client's supervisor knows of a loss, or finds it in its queue.
Told == owner[Client] \in {"reconnect", "await"} \/ \E i \in Nat : Announced(i)

\* Until a loss is repaired the client's actor a is without a socket, and once
\* it has told the supervisor it has delivered everything it received.
LossOK(a, told) ==
    /\ a.socket_down_pending \/ a.pc = "sockdown" \/ told => a.live = None /\ a.old = None
    /\ a.pc = "sockdown" \/ told => a.inbox = <<>> /\ ~a.socket_down_pending
    /\ told => a.pc \notin {"sockdown", "deliver"}

\* One loss is announced at a time, and only the supervisor that handles it
\* hands the client a socket.
SupervisorInv ==
    /\ \A i, j \in Nat : Announced(i) /\ Announced(j) => i = j
    /\ owner[Client] \in {"reconnect", "await"} => \A i \in Nat : ~Announced(i)
    /\ offers[Client] # <<>> \/ actor[Client].stage # "none" => owner[Client] = "await"
    /\ actor[Client].stage # "none" => offers[Client] = <<>>
    /\ Len(offers[Client]) <= 1

ClientInv == LossOK(actor[Client], Told) /\ SupervisorInv

LinkInv ==
    /\ WriterInv /\ ReaderInv /\ StageInv /\ FreshInv /\ OffersInv
    /\ HeaderInv /\ FramesInv /\ CatchupInv

IInv == TypeOK /\ LinkInv /\ ClientInv

=============================================================================
