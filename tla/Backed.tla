------------------------------- MODULE Backed -------------------------------
(***************************************************************************)
(* The backed connection of crates/et-proto/src/backed.rs in motion: the   *)
(* handlers of the two actors, their owners and the network.  A socket that*)
(* goes down leaves the session up; the owner of the client end dials a new*)
(* socket and both ends run the recover exchange over it.                  *)
(***************************************************************************)
EXTENDS BackedState, FiniteSets, FiniteSetsExt

-----------------------------------------------------------------------------
(* Writing. *)

\* Mutant: the budget is tested without the packet about to be added.
FitsBeforeAdding(a, size) ==
    \/ a.disconnected_bytes = NoLedger
    \/ a.disconnected_bytes <= DISCONNECT_BUFFER_BYTES

\* The budget test of write(), made on the payload length.
Fits(a, size) ==
    \/ a.disconnected_bytes = NoLedger
    \/ a.disconnected_bytes + size <= DISCONNECT_BUFFER_BYTES

BytesOf(log, packets) ==
    MapThenSumSet(LAMBDA i : log[packets[i]].len, DOMAIN packets)

DropOldest(b, k) == SubSeq(b, k + 1, Len(b))

\* Mutants: trimming starts one byte early; trimming goes on while disconnected.
TrimsEarly(log, a, k) ==
    LET over(j) == a.live # None /\ BytesOf(log, DropOldest(a.backup, j)) >= MAX_BACKUP_BYTES
    IN  /\ \A j \in 0 .. k - 1 : over(j)
        /\ k = Len(a.backup) \/ ~over(k)

TrimsOffline(log, a, k) ==
    LET over(j) == BytesOf(log, DropOldest(a.backup, j)) > MAX_BACKUP_BYTES
    IN  /\ \A j \in 0 .. k - 1 : over(j)
        /\ k = Len(a.backup) \/ ~over(k)

\* The trimming loop pops k packets: the fewest that bring the backup down to
\* MAX_BACKUP_BYTES, none at all while disconnected.
Trims(log, a, k) ==
    LET over(j) == a.live # None /\ BytesOf(log, DropOldest(a.backup, j)) > MAX_BACKUP_BYTES
    IN  /\ \A j \in 0 .. k - 1 : over(j)
        /\ k = Len(a.backup) \/ ~over(k)

Stored(a) ==
    [a EXCEPT !.writer_crypto = @ + 1,
              !.backup = Append(@, a.writer_crypto + 1),
              !.writer_seq = @ + 1]

\* Mutant: the ledger is counted down.
Refunded(a, len) == [a EXCEPT !.disconnected_bytes = Ledger(@) - len]

Charged(a, len) == [a EXCEPT !.disconnected_bytes = Ledger(@) + len]

\* The frame with a's newest packet handed to p's live socket.
Transmit(p, a) ==
    pipe' = [pipe EXCEPT ![a.live][Other(p)].frames = Append(@, a.writer_crypto)]

\* try_send fails when the queue is full, and once the writer task is gone.
CanSend(p, s) == Len(pipe[s][Other(p)].frames) < WRITE_QUEUE_DEPTH
CanFail(p, s) == ~CanSend(p, s) \/ s \in broken

\* BackedActor::write from actor state a, and the rest of the handler it is in.
WriteFrom(p, a, hdr, size) ==
    \/ /\ ~Fits(a, size)                                    \* Skipped
       /\ actor' = [actor EXCEPT ![p] = Resume(p, a)]
       /\ UNCHANGED <<sent, pipe, broken>>
    \/ /\ Fits(a, size)
       /\ Len(sent[p]) < MaxWrites[p]
       /\ sent' = [sent EXCEPT ![p] = Append(@, [hdr |-> hdr, len |-> size + Overhead])]
       /\ \E k \in 0 .. Len(a.backup) + 1 :
            /\ Trims(sent'[p], Stored(a), k)
            /\ LET b == [Stored(a) EXCEPT !.backup = DropOldest(@, k)]
               IN  \/ /\ b.live = None                      \* BUFFERED_ONLY
                      /\ actor' = [actor EXCEPT ![p] = Resume(p, Charged(b, size + Overhead))]
                      /\ UNCHANGED <<pipe, broken>>
                   \/ /\ b.live # None /\ CanSend(p, b.live)
                      /\ Transmit(p, b)
                      /\ actor' = [actor EXCEPT ![p] = Resume(p, b)]
                      /\ UNCHANGED broken
                   \/ /\ b.live # None /\ CanFail(p, b.live)  \* WROTE_WITH_FAILURE
                      /\ actor' = [actor EXCEPT ![p] =
                            Resume(p, CloseCurrentSocket(Charged(b, size + Overhead)))]
                      /\ broken' = Closing(b.live)
                      /\ UNCHANGED pipe

\* Cmd::Write from the application.
Write(p) ==
    /\ Serving(p)
    /\ \E size \in Sizes : WriteFrom(p, actor[p], DATA, size)
    /\ UNCHANGED <<delivered, events, owner, offers, opened>>

\* The packets of p's log ns that are keepalives.
KeepAlives(p, ns) == {n \in ns : sent[p][n].hdr = KEEP_ALIVE}

\* The application of the end without a keepalive timer answers every
\* KEEP_ALIVE it receives with one of its own.
Echo(p) ==
    /\ Serving(p)
    /\ p \notin Keepalive
    /\ Cardinality(KeepAlives(p, DOMAIN sent[p]))
         < Cardinality(KeepAlives(Other(p), {delivered[p][i] : i \in DOMAIN delivered[p]}))
    /\ WriteFrom(p, actor[p], KEEP_ALIVE, 0)
    /\ UNCHANGED <<delivered, events, owner, offers, opened>>

-----------------------------------------------------------------------------
(* The other arms of the select: socket input, the timer, KillSocket. *)

\* reader_task hands over one frame of the live socket.
ReadFrame(p) ==
    LET a == actor[p]
        in == pipe[a.live][p].frames
    IN  /\ Selecting(p) /\ a.live # None
        /\ in # <<>>
        /\ actor' = [actor EXCEPT ![p] = Resume(p, [a EXCEPT !.inbox = Append(@, Head(in))])]
        /\ pipe' = [pipe EXCEPT ![a.live][p].frames = Tail(@)]
        /\ UNCHANGED <<sent, delivered, events, owner, offers, opened, broken>>

\* reader_task ends with EOF or an error; frames still in flight are lost.
ReadError(p) ==
    /\ Selecting(p) /\ actor[p].live \in broken
    /\ actor' = [actor EXCEPT ![p] = Resume(p, CloseCurrentSocket(@))]
    /\ UNCHANGED <<sent, delivered, events, owner, offers, opened, broken, pipe>>

\* A tick with no keepalive due still lets the run loop emit SocketDown.
IdleTick(p) ==
    /\ Selecting(p)
    /\ actor' = [actor EXCEPT ![p] = Resume(p, @)]
    /\ UNCHANGED <<sent, delivered, events, owner, offers, opened, broken, pipe>>

\* keepalive_tick on an idle link: ping, or give the link up when the last
\* ping is still unanswered.
KeepalivePing(p) ==
    /\ Selecting(p) /\ p \in Keepalive
    /\ actor[p].live # None /\ ~actor[p].waiting_on_keepalive
    /\ WriteFrom(p, [actor[p] EXCEPT !.waiting_on_keepalive = TRUE], KEEP_ALIVE, 0)
    /\ UNCHANGED <<delivered, events, owner, offers, opened>>

KeepaliveExpire(p) ==
    /\ Selecting(p) /\ p \in Keepalive
    /\ actor[p].live \in Unreliable /\ actor[p].waiting_on_keepalive
    /\ actor' = [actor EXCEPT ![p] = Resume(p, CloseCurrentSocket(@))]
    /\ broken' = Closing(actor[p].live)
    /\ UNCHANGED <<sent, delivered, events, owner, offers, opened, pipe>>

KillSocket(p) ==
    /\ Serving(p) /\ actor[p].live \in {None} \cup Unreliable
    /\ actor' = [actor EXCEPT ![p] = Resume(p, CloseCurrentSocket(@))]
    /\ broken' = Closing(actor[p].live)
    /\ UNCHANGED <<sent, delivered, events, owner, offers, opened, pipe>>

\* send_event of the event the actor is parked on succeeds; deliver_inbox goes on.
SendEvent(p) ==
    LET a == actor[p]
    IN  /\ a.pc \in {"sockdown", "deliver"} /\ a.stage = "none"
        /\ Len(events[p]) < EVENT_QUEUE_DEPTH
        /\ IF a.pc = "deliver"
           THEN /\ delivered' = [delivered EXCEPT ![p] = Append(@, a.reader_crypto)]
                /\ events' = [events EXCEPT ![p] = Append(@, "Packet")]
           ELSE /\ events' = [events EXCEPT ![p] = Append(@, "SocketDown")]
                /\ UNCHANGED delivered
        /\ actor' = [actor EXCEPT ![p] = DeliverInbox(p, a)]
        /\ UNCHANGED <<sent, owner, offers, opened, broken, pipe>>

-----------------------------------------------------------------------------
(* recover_timed_actor. *)

\* Mutant: the header names the next packet wanted, not the last one read.
NextWanted(n) == n + 1

\* `n as i32`
AsI32(n) ==
    IF n < I32_LIMIT THEN n ELSE ((n + I32_LIMIT) % (2 * I32_LIMIT)) - I32_LIMIT

\* The exchange opens: the live socket is set aside and reader_seq is sent.
RecoverStart(p) ==
    LET a == actor[p]
        s == Head(offers[p])
    IN  /\ Serving(p)
        /\ offers[p] # <<>>
        /\ p \in Draining => a.inbox = <<>>
        /\ offers' = [offers EXCEPT ![p] = Tail(@)]
        /\ actor' = [actor EXCEPT ![p].stage = "seq", ![p].stream = s,
                                  ![p].old = a.live, ![p].live = None]
        /\ pipe' = [pipe EXCEPT ![s][Other(p)].seq = Append(@, AsI32(a.reader_seq))]
        /\ UNCHANGED <<sent, delivered, events, owner, opened, broken>>

\* The peer's header arrives and names a span the backup covers.
RecoverSequence(p) ==
    LET a == actor[p]
        in == pipe[a.stream][p].seq
    IN  /\ a.stage = "seq"
        /\ in # <<>>
        /\ CanRecover(a, Head(in))
        /\ pipe' = [pipe EXCEPT
               ![a.stream][p].seq = Tail(@),
               ![a.stream][Other(p)].catchup = Append(@, Catchup(a, ToRecover(a, Head(in))))]
        /\ actor' = [actor EXCEPT ![p].stage = "catchup"]
        /\ UNCHANGED <<sent, delivered, events, owner, offers, opened, broken>>

\* The owner learns how its recover() call ended.
Reply(p, ok) ==
    owner' = [owner EXCEPT ![p] = CASE @ # "await" -> @
                                    [] @ = "await" /\ ok -> "run"
                                    [] @ = "await" /\ ~ok -> "reconnect"]

\* The encoded CatchupBuffer is over the cap p reads it with.
TooLarge(p, entries) ==
    BytesOf(sent[Other(p)], entries) + EntryOverhead * Len(entries) > DEFAULT_MAX_PROTO_LENGTH

\* The peer's catch-up arrives: the socket goes live.
RecoverDone(p) ==
    LET a == actor[p]
        in == pipe[a.stream][p].catchup
    IN  /\ a.stage = "catchup"
        /\ in # <<>> /\ ~TooLarge(p, Head(in))
        /\ actor' = [actor EXCEPT ![p] = Resume(p,
               [a EXCEPT !.inbox = @ \o Head(in),
                         !.disconnected_bytes = NoLedger,
                         !.live = a.stream,
                         !.stage = "none", !.stream = None, !.old = None])]
        /\ pipe' = [pipe EXCEPT ![a.stream][p].catchup = Tail(@)]
        /\ broken' = Closing(a.old)
        /\ Reply(p, TRUE)
        /\ UNCHANGED <<sent, delivered, events, offers, opened>>

\* Any step of the exchange fails: the peer hung up, an idle window or the
\* absolute deadline ran out, the header is out of range or the catch-up is
\* over the frame cap.  The previous socket is put back.
RecoverFail(p) ==
    LET a == actor[p]
        in == pipe[a.stream][p]
    IN  /\ a.stage # "none"
        /\ \/ a.stream \in broken \cup Unreliable
           \/ a.stage = "seq" /\ in.seq # <<>> /\ ~CanRecover(a, Head(in.seq))
           \/ a.stage = "catchup" /\ in.catchup # <<>> /\ TooLarge(p, Head(in.catchup))
        /\ actor' = [actor EXCEPT ![p] = Resume(p,
               [a EXCEPT !.live = a.old, !.stage = "none", !.stream = None, !.old = None])]
        /\ broken' = Closing(a.stream)
        /\ Reply(p, FALSE)
        /\ UNCHANGED <<sent, delivered, events, offers, opened, pipe>>

-----------------------------------------------------------------------------
(* The end of a session. *)

\* The bounded send of a terminal event: it goes out, or DEAD_SEND_BOUND runs
\* out on a full queue.
SendDead(p, event) ==
    \/ /\ Len(events[p]) < EVENT_QUEUE_DEPTH
       /\ events' = [events EXCEPT ![p] = Append(@, event)]
    \/ /\ Len(events[p]) >= EVENT_QUEUE_DEPTH
       /\ UNCHANGED events

\* Cmd::Shutdown, or every handle dropped: the run loop breaks and lets go of
\* the live socket.
Shutdown(p) ==
    /\ Serving(p) /\ p \in Stoppable
    /\ actor' = [actor EXCEPT ![p].pc = "final", ![p].live = None]
    /\ broken' = Closing(actor[p].live)
    /\ UNCHANGED <<sent, delivered, events, owner, offers, opened, pipe>>

\* die_crypto_mismatch reports, then the run loop breaks as above.
DieCryptoMismatch(p) ==
    /\ actor[p].pc = "mismatch"
    /\ SendDead(p, "DeadCryptoMismatch")
    /\ actor' = [actor EXCEPT ![p].pc = "final", ![p].live = None]
    /\ broken' = Closing(actor[p].live)
    /\ UNCHANGED <<sent, delivered, owner, offers, opened, pipe>>

\* Mutant: the final send ignores dead_sent.
FinishTwice(p) ==
    /\ actor[p].pc = "final"
    /\ SendDead(p, "DeadShutdown")
    /\ actor' = [actor EXCEPT ![p].pc = "stopped"]
    /\ broken' = broken \cup {offers[p][i] : i \in DOMAIN offers[p]}
    /\ offers' = [offers EXCEPT ![p] = <<>>]
    /\ Reply(p, FALSE)
    /\ UNCHANGED <<sent, delivered, opened, pipe>>

\* The end of run(): Dead(Shutdown) unless a terminal event went out already.
\* The task ends, and the commands still queued are dropped.
Finish(p) ==
    /\ actor[p].pc = "final"
    /\ IF actor[p].dead_sent THEN UNCHANGED events ELSE SendDead(p, "DeadShutdown")
    /\ actor' = [actor EXCEPT ![p].pc = "stopped"]
    /\ broken' = broken \cup {offers[p][i] : i \in DOMAIN offers[p]}
    /\ offers' = [offers EXCEPT ![p] = <<>>]
    /\ Reply(p, FALSE)
    /\ UNCHANGED <<sent, delivered, opened, pipe>>

-----------------------------------------------------------------------------
(* The owners and the network. *)

\* The owner takes an event.  SocketDown sends the client's supervisor into
\* its reconnect loop, in which it takes no event; a server waits to be dialled.
Consume(p) ==
    /\ owner[p] = "run" /\ events[p] # <<>>
    /\ events' = [events EXCEPT ![p] = Tail(@)]
    /\ owner' = [owner EXCEPT ![p] =
           CASE Head(events[p]) = "SocketDown" /\ p = Client -> "reconnect"
             [] Head(events[p]) \in {"DeadShutdown", "DeadCryptoMismatch"} -> "ended"
             [] Head(events[p]) = "Packet" \/ (Head(events[p]) = "SocketDown" /\ p # Client) -> @]
    /\ UNCHANGED <<actor, sent, delivered, offers, opened, broken, pipe>>

\* The supervisor's dial is answered RETURNING_CLIENT: both ends are handed the
\* new socket to recover on.
Connect ==
    LET s == opened + 1
    IN  /\ owner[Client] = "reconnect"
        /\ \A p \in Peers : actor[p].pc # "stopped"
        /\ s \in Sockets
        /\ opened' = s
        /\ offers' = [p \in Peers |-> Append(offers[p], s)]
        /\ owner' = [owner EXCEPT ![Client] = "await"]
        /\ UNCHANGED <<actor, sent, delivered, events, broken, pipe>>

\* The network gives up on a socket.  What is in flight may still arrive, up to
\* the moment the reading end sees the error.
Cut(s) ==
    /\ s \in Unreliable \ broken /\ s <= opened
    /\ broken' = broken \cup {s}
    /\ UNCHANGED <<actor, sent, delivered, events, owner, offers, opened, pipe>>

ActorStep(p) ==
    \/ Write(p) \/ Echo(p) \/ ReadFrame(p) \/ ReadError(p) \/ IdleTick(p)
    \/ KeepalivePing(p) \/ KeepaliveExpire(p) \/ KillSocket(p) \/ SendEvent(p)
    \/ RecoverStart(p) \/ RecoverSequence(p) \/ RecoverDone(p) \/ RecoverFail(p)
    \/ Shutdown(p) \/ DieCryptoMismatch(p) \/ Finish(p)

Next ==
    \/ \E p \in Peers : ActorStep(p) \/ Consume(p)
    \/ Connect
    \/ \E s \in Sockets : Cut(s)

Spec == Init /\ [][Next]_vars

\* Tokio runs every ready task, timers fire, the owners keep taking events and
\* the supervisor keeps dialling.  Nobody has to write, kill or shut down.
Fairness ==
    /\ \A p \in Peers :
        /\ WF_vars(ReadFrame(p)) /\ WF_vars(ReadError(p)) /\ WF_vars(IdleTick(p))
        /\ WF_vars(SendEvent(p)) /\ WF_vars(Consume(p))
        /\ WF_vars(RecoverStart(p)) /\ WF_vars(RecoverSequence(p))
        /\ WF_vars(RecoverDone(p)) /\ WF_vars(RecoverFail(p))
        /\ WF_vars(DieCryptoMismatch(p)) /\ WF_vars(Finish(p))
    /\ WF_vars(Connect)

FairSpec == Spec /\ Fairness

-----------------------------------------------------------------------------
(* Properties. *)

\* Exactly once, in order, across every reconnect: what deliver_inbox hands to
\* the owner is the peer's packets 1, 2, 3, ... without gap or repetition, and
\* never more than the peer wrote ("in order (catch-up first)").
ExactlyOnce ==
    \A p \in Peers :
        /\ \A i \in DOMAIN delivered[p] : delivered[p][i] = i
        /\ Len(delivered[p]) <= Len(sent[Other(p)])

\* On a network that loses sockets but forges nothing, the nonce streams never
\* come apart: no packet fails to decrypt and die_crypto_mismatch is never
\* reached, however recoveries, half-done recoveries and writes interleave.
NoCryptoMismatch == \A p \in Peers : ~actor[p].dead_sent

\* What the client's supervisor has yet to react to: a socket loss not yet
\* announced, being announced, queued as an event, or being repaired.
Losses ==
    (IF actor[Client].socket_down_pending THEN 1 ELSE 0)
    + (IF actor[Client].pc = "sockdown" THEN 1 ELSE 0)
    + Cardinality({i \in DOMAIN events[Client] : events[Client][i] = "SocketDown"})
    + (IF owner[Client] \in {"reconnect", "await"} THEN 1 ELSE 0)

\* No lost and no doubled wake-up: while the client's actor runs, it is without
\* a socket exactly when one SocketDown is on its way to the supervisor or
\* being handled there.  A lost one would leave the session down for good, a
\* second one would tear down a socket that was just recovered.
SocketDownOnce ==
    actor[Client].pc \in {"select", "sockdown", "deliver"} =>
        Losses = IF actor[Client].live = None THEN 1 ELSE 0

\* The backup loses nothing while disconnected: everything buffered during an
\* outage is still there for the catch-up ("trimmed only while connected").
OfflineKeepsBackup ==
    [][\A p \in Peers :
         actor[p].live = None =>
            \E k \in 0 .. 1 : LET b == actor'[p].backup
                             IN  SubSeq(b, 1, Len(b) - k) = actor[p].backup]_vars

\* A packet leaves the backup only when it and everything written after it
\* exceed MAX_BACKUP_BYTES together: a peer is never too far behind to recover
\* while what it misses fits the backup.
RetainsWindow ==
    \A p \in Peers :
        LET n == Len(sent[p])
        IN  \A k \in 1 .. n - Len(actor[p].backup) :
                BytesOf(sent[p], [i \in 1 .. n - k + 1 |-> k + i - 1]) > MAX_BACKUP_BYTES

\* The disconnect ledger is open exactly while the actor has no socket (an
\* exchange that sets a live socket aside included), and never exceeds the
\* budget by more than the framing of the one packet that was tested without it.
LedgerBound ==
    \A p \in Peers :
        LET a == actor[p]
        IN  a.pc \notin {"final", "stopped"} =>
                /\ (a.disconnected_bytes = NoLedger) <=> (a.live # None \/ a.old # None)
                /\ a.disconnected_bytes <= DISCONNECT_BUFFER_BYTES + Overhead

\* A peer that misses only packets still in the backup gets them: its header is
\* never read as too far behind, or as ahead of what was written.
HeaderAccepted ==
    \A p \in Peers :
        LET a == actor[p]
            b == actor[Other(p)]
            in == pipe[a.stream][p].seq
        IN  /\ a.stage = "seq"
            /\ b.stage # "none" /\ b.stream = a.stream
            /\ in # <<>>
            /\ a.writer_seq - b.reader_seq <= Len(a.backup)
            => CanRecover(a, Head(in))

\* A catch-up the writer produces is one the reader accepts, whatever was backed up
\* before and buffered during the outage ("Writes made while offline buffer up to
\* 64 MiB and flush after recovery").
CatchupFits ==
    \A s \in Sockets, p \in Peers : \A i \in DOMAIN pipe[s][p].catchup :
        ~TooLarge(p, pipe[s][p].catchup[i])

\* A ping counts as unanswered only if it is: while waiting_on_keepalive is set,
\* fewer echoes arrived than pings were sent, so keepalive_tick never gives up
\* a link that answered every ping, late answers and recovered ones included.
WaitingIsUnanswered ==
    \A p \in Keepalive : actor[p].waiting_on_keepalive =>
        Cardinality(KeepAlives(Other(p), 1 .. actor[p].reader_seq))
            < Cardinality(KeepAlives(p, DOMAIN sent[p]))

Dead == {"DeadShutdown", "DeadCryptoMismatch"}

\* One terminal event, and nothing after it: a Dead is the last thing in the
\* event queue, and once the owner took it the queue stays empty ("Set once a
\* terminal Dead event went out, so the run loop's final send does not append
\* a second, reason-less one").
DeadIsLast ==
    \A p \in Peers :
        /\ \A i \in DOMAIN events[p] : events[p][i] \in Dead => i = Len(events[p])
        /\ owner[p] = "ended" => events[p] = <<>>

\* Everything written is eventually delivered, if from some socket on the
\* network holds: each accepted write, made before or during an outage, reaches
\* the peer's owner.
Delivery ==
    \A p \in Peers : \A n \in 1 .. MaxWrites[p] :
        Len(sent[p]) >= n ~> Len(delivered[Other(p)]) >= n

=============================================================================
