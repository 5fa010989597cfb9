------------------------------ MODULE EtClient ------------------------------
(***************************************************************************)
(* The resilient client of crates/et-proto/src/client.rs: the initial      *)
(* handshake, the supervisor task that forwards events and redials after a *)
(* SocketDown, and the owner of the EtClient, who reads events, may call   *)
(* shutdown() and may drop the client at any moment.                       *)
(*                                                                         *)
(* The BackedActor is reduced to what the supervisor sees of it (module    *)
(* Backed has the whole): it loses its socket, announces that once, is     *)
(* recovered or not, and ends with a terminal event.  The server's answers *)
(* to a ConnectRequest are arbitrary.                                      *)
(***************************************************************************)
EXTENDS Naturals, Sequences

CONSTANTS
    Answers,            \* what the server may answer: a subset of Answer
    BACKED_DEPTH,       \* bound of the actor's event channel
    EVENTS_DEPTH,       \* bound of the client's event channel
    MayShutdown,        \* the owner may call shutdown()
    MayDrop,            \* the owner may drop the client
    MayDie              \* the actor may end with CryptoMismatch

Answer == {"NewClient", "Returning", "InvalidKey", "Error"}

ASSUME AnswersAssumption == Answers \subseteq Answer
ASSUME DepthAssumption ==
    BACKED_DEPTH \in Nat \ {0} /\ EVENTS_DEPTH \in Nat \ {0}
ASSUME ChoiceAssumption == {MayShutdown, MayDrop, MayDie} \subseteq BOOLEAN

VARIABLES
    client,         \* the owner's side: connecting, open, failed, ended, dropped
    sup,            \* the await point of the supervisor task
    reason,         \* the ClientDeadReason being reported, or "none"
    actor,          \* the backed actor: none, up, down, gone
    announce,       \* a socket loss the actor has yet to announce
    stop,           \* Cmd::Shutdown is queued at the actor
    handles,        \* who holds a BackedHandle
    backed_events,  \* actor to supervisor
    events          \* supervisor to owner

vars == <<client, sup, reason, actor, announce, stop, handles,
          backed_events, events>>

Sup == {"none", "recv", "forward", "dial", "recover", "sleep", "report", "shutdown", "gone"}
Reason == {"none", "InvalidKey", "ServerStateLost", "Shutdown", "CryptoMismatch"}
BackedEvent == {"Packet", "SocketDown", "Shutdown", "CryptoMismatch"}

TypeOK ==
    /\ client \in {"connecting", "open", "failed", "ended", "dropped"}
    /\ sup \in Sup
    /\ reason \in Reason
    /\ actor \in {"none", "up", "down", "gone"}
    /\ announce \in BOOLEAN
    /\ stop \in BOOLEAN
    /\ handles \subseteq {"owner", "supervisor"}
    /\ backed_events \in Seq(BackedEvent)
    /\ events \in Seq({"Packet", "Dead"})

Init ==
    /\ client = "connecting" /\ sup = "none" /\ reason = "none"
    /\ actor = "none" /\ announce = FALSE /\ stop = FALSE /\ handles = {}
    /\ backed_events = <<>> /\ events = <<>>

-----------------------------------------------------------------------------
(* connect_with. *)

\* NEW_CLIENT spawns the actor and the supervisor.  RETURNING_CLIENT on a first
\* connect fails fast, like any other answer: a fresh nonce phase cannot resume.
Connect(answer) ==
    /\ client = "connecting"
    /\ IF answer = "NewClient"
       THEN /\ client' = "open" /\ sup' = "recv" /\ actor' = "up"
            /\ handles' = {"owner", "supervisor"}
       ELSE /\ client' = "failed"
            /\ UNCHANGED <<sup, actor, handles>>
    /\ UNCHANGED <<reason, announce, stop, backed_events, events>>

-----------------------------------------------------------------------------
(* The backed actor, as the supervisor sees it. *)

Room == Len(backed_events) < BACKED_DEPTH

ActorPacket ==
    /\ actor = "up" /\ ~announce /\ Room
    /\ backed_events' = Append(backed_events, "Packet")
    /\ UNCHANGED <<client, sup, reason, actor, announce, stop, handles, events>>

ActorLosesSocket ==
    /\ actor = "up"
    /\ actor' = "down" /\ announce' = TRUE
    /\ UNCHANGED <<client, sup, reason, stop, handles, backed_events, events>>

ActorAnnounces ==
    /\ actor = "down" /\ announce /\ Room
    /\ backed_events' = Append(backed_events, "SocketDown")
    /\ announce' = FALSE
    /\ UNCHANGED <<client, sup, reason, actor, stop, handles, events>>

\* The terminal event goes out, or is given up on a full channel; the channel
\* closes with the task.
ActorEnds(event) ==
    /\ actor \in {"up", "down"}
    /\ \/ Room /\ backed_events' = Append(backed_events, event)
       \/ ~Room /\ UNCHANGED backed_events
    /\ actor' = "gone" /\ announce' = FALSE
    /\ UNCHANGED <<client, sup, reason, stop, handles, events>>

\* Mutant: dropping the handles goes unnoticed.
ActorShutdownOnCommand == stop /\ ActorEnds("Shutdown")

\* Cmd::Shutdown, or the last handle dropped.
ActorShutdown == (stop \/ handles = {}) /\ ActorEnds("Shutdown")

ActorMismatch == MayDie /\ actor = "up" /\ ActorEnds("CryptoMismatch")

-----------------------------------------------------------------------------
(* The supervisor task. *)

\* events_tx.closed(): the owner dropped the receiver.
Closed == client = "dropped"

\* Every return of the task drops its handle and its ends of both channels.
Return ==
    /\ sup' = "gone"
    /\ handles' = handles \ {"supervisor"}

\* Mutant: the channel's end is not taken for the end of the session.
NeverEnds == FALSE

\* backed_rx.recv() gives None.
EventsEnded == backed_events = <<>> /\ actor = "gone"

\* The outer select, closed() first, then the next event of the actor.
Receive ==
    /\ sup = "recv"
    /\ \/ /\ Closed
          /\ Return
          /\ UNCHANGED <<reason, backed_events>>
       \/ /\ ~Closed /\ backed_events # <<>>
          /\ backed_events' = Tail(backed_events)
          /\ \/ Head(backed_events) = "Packet" /\ sup' = "forward" /\ UNCHANGED reason
             \/ Head(backed_events) = "SocketDown" /\ sup' = "dial" /\ UNCHANGED reason
             \/ /\ Head(backed_events) \in {"Shutdown", "CryptoMismatch"}
                /\ sup' = "report" /\ reason' = Head(backed_events)
          /\ UNCHANGED handles
       \/ /\ ~Closed /\ EventsEnded
          /\ Return
          /\ UNCHANGED <<reason, backed_events>>
    /\ UNCHANGED <<client, actor, announce, stop, events>>

\* events_tx.send(Packet): waits for room, fails when the owner is gone.
Forward ==
    /\ sup = "forward"
    /\ \/ /\ Closed
          /\ Return
          /\ UNCHANGED events
       \/ /\ ~Closed /\ Len(events) < EVENTS_DEPTH
          /\ events' = Append(events, "Packet")
          /\ sup' = "recv"
          /\ UNCHANGED handles
    /\ UNCHANGED <<client, reason, actor, announce, stop, backed_events>>

\* The reconnect loop's select: closed() wins over the handshake, whose outcome
\* decides.
Dial ==
    /\ sup = "dial"
    /\ \/ /\ Closed
          /\ Return
          /\ UNCHANGED reason
       \/ /\ ~Closed
          /\ \E answer \in Answers :
               CASE answer = "Returning" -> sup' = "recover" /\ UNCHANGED reason
                 [] answer = "NewClient" -> sup' = "report" /\ reason' = "ServerStateLost"
                 [] answer = "InvalidKey" -> sup' = "report" /\ reason' = "InvalidKey"
                 [] answer = "Error" -> sup' = "sleep" /\ UNCHANGED reason
          /\ UNCHANGED handles
    /\ UNCHANGED <<client, actor, announce, stop, backed_events, events>>

\* sup_backed.recover(stream): the exchange succeeds and the inner loop ends, or
\* it fails; a gone actor answers false.
Recover ==
    /\ sup = "recover"
    /\ \/ actor = "down" /\ actor' = "up" /\ sup' = "recv"
       \/ actor \in {"down", "gone"} /\ sup' = "sleep" /\ UNCHANGED actor
    /\ UNCHANGED <<client, reason, announce, stop, handles, backed_events, events>>

\* tokio::time::sleep(RECONNECT_DELAY)
Sleep ==
    /\ sup = "sleep"
    /\ sup' = "dial"
    /\ UNCHANGED <<client, reason, actor, announce, stop, handles, backed_events, events>>

\* Mutant: the reason itself is put on the channel.
FinalRaw == reason

Final == "Dead"

\* Mutants: the supervisor goes on dialling after the server gave the session
\* up; it returns without shutting the actor down.
ReportedGoOn ==
    IF reason \in {"InvalidKey", "ServerStateLost"}
    THEN sup' = "dial" /\ UNCHANGED handles
    ELSE Return

ReportedOnly == Return

\* After InvalidKey and ServerStateLost the actor is shut down as well.
Reported ==
    IF reason \in {"InvalidKey", "ServerStateLost"}
    THEN sup' = "shutdown" /\ UNCHANGED handles
    ELSE Return

\* events_tx.send(Dead): waits for room; an error is ignored.
Report ==
    /\ sup = "report"
    /\ \/ Closed /\ UNCHANGED events
       \/ ~Closed /\ Len(events) < EVENTS_DEPTH /\ events' = Append(events, Final)
    /\ Reported
    /\ UNCHANGED <<client, reason, actor, announce, stop, backed_events>>

SupShutdown ==
    /\ sup = "shutdown"
    /\ stop' = TRUE
    /\ Return
    /\ UNCHANGED <<client, reason, actor, announce, backed_events, events>>

Supervisor == Receive \/ Forward \/ Dial \/ Recover \/ Sleep \/ Report \/ SupShutdown

-----------------------------------------------------------------------------
(* The owner. *)

\* next_event(): an event, or None once the supervisor is gone.
NextEvent ==
    /\ client = "open"
    /\ \/ events # <<>> /\ events' = Tail(events) /\ UNCHANGED client
       \/ events = <<>> /\ sup = "gone" /\ client' = "ended" /\ UNCHANGED events
    /\ UNCHANGED <<sup, reason, actor, announce, stop, handles, backed_events>>

Shutdown ==
    /\ MayShutdown /\ client = "open" /\ ~stop
    /\ stop' = TRUE
    /\ UNCHANGED <<client, sup, reason, actor, announce, handles, backed_events, events>>

DropClient ==
    /\ client \in {"open", "ended"}
    /\ client' = "dropped"
    /\ handles' = handles \ {"owner"}
    /\ events' = <<>>
    /\ UNCHANGED <<sup, reason, actor, announce, stop, backed_events>>

Drop == MayDrop /\ DropClient

Actor == ActorPacket \/ ActorLosesSocket \/ ActorAnnounces \/ ActorShutdown \/ ActorMismatch

Next ==
    \/ \E answer \in Answers : Connect(answer)
    \/ Actor \/ Supervisor
    \/ NextEvent \/ Shutdown \/ Drop

Spec == Init /\ [][Next]_vars

\* Both tasks are polled whenever they can run, and the owner keeps calling
\* next_event() until it drops the client.  Neither the server nor the network
\* owes anything.
FairSpec ==
    /\ Spec
    /\ WF_vars(ActorAnnounces) /\ WF_vars(ActorShutdown)
    /\ WF_vars(Supervisor) /\ WF_vars(NextEvent)

-----------------------------------------------------------------------------
(* Properties. *)

\* "The session is over; one final event, then the channel closes.": a Dead is
\* the last event in the channel, nothing is sent after it, and the supervisor
\* reports at most one reason.
DeadIsFinal ==
    /\ \A i \in DOMAIN events : events[i] = "Dead" => i = Len(events)
    /\ (\E i \in DOMAIN events : events[i] = "Dead") => sup \in {"shutdown", "gone"}

\* A session the server gave up on does not go on buffering: after InvalidKey
\* or ServerStateLost the actor ends, so later writes fail instead of being
\* accepted and discarded.
ServerLossStopsWrites ==
    reason \in {"InvalidKey", "ServerStateLost"} ~> actor = "gone"

\* "None after the session ended": an owner that keeps reading sees the end of a
\* session it shut down.
ShutdownEnds == stop /\ client = "open" ~> client \in {"ended", "dropped"}

\* An actor that dies on its own ends the session for an owner that keeps
\* reading, also when the terminal event was abandoned on a full channel.
DeathEnds ==
    actor = "gone" /\ ~stop /\ client = "open" ~> client \in {"ended", "dropped"}

=============================================================================
