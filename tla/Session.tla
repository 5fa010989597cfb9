------------------------------ MODULE Session -------------------------------
(***************************************************************************)
(* TerminalSession of crates/et-client/src/session.rs on top of the client *)
(* of module EtClient: start() up to the INITIAL_RESPONSE gate, then the   *)
(* pump inside next_event() and deliver_to_engine(), which moves packets   *)
(* from the client to the port-forward engine and frames from the engine   *)
(* to the client.                                                          *)
(*                                                                         *)
(* The engine is reduced to what the pump sees of it (modules Forward and  *)
(* Engine have the rest): two bounded queues and the places it can block.  *)
(* What a packet is for is decided when it is read.                        *)
(***************************************************************************)
EXTENDS EtClient

CONSTANTS
    INBOUND_QUEUE_DEPTH,
    OUTBOUND_QUEUE_DEPTH,
    MaxRetries          \* bound: connects before INITIAL_INVALID_KEY_RETRY is over

ASSUME SessionAssumption ==
    /\ INBOUND_QUEUE_DEPTH \in Nat \ {0} /\ OUTBOUND_QUEUE_DEPTH \in Nat \ {0}
    /\ MaxRetries \in Nat

VARIABLES
    gate,       \* the await point of start(); open or failed once it returned
    retries,    \* INVALID_KEY answers retried
    pump,       \* the await point of the session's owner
    engine,     \* the await point of the engine's run loop
    halt,       \* the engine's shutdown watch is raised, or Cmd::Shutdown queued
    inbound,    \* packets queued for the engine
    outbound    \* frames queued by the engine

client_vars  == vars
gate_vars    == <<gate, retries>>
engine_vars  == <<engine, halt, inbound, outbound>>
session_vars == <<vars, gate, retries, pump, engine, halt, inbound, outbound>>

Running == {"select", "send", "local"}

SessionTypeOK ==
    /\ TypeOK
    /\ gate \in {"connect", "sleep", "payload", "response", "open", "failed"}
    /\ retries \in 0 .. MaxRetries
    /\ pump \in {"idle", "write", "deliver", "deliver_write"}
    /\ engine \in {"none", "stopped"} \cup Running
    /\ halt \in BOOLEAN
    /\ inbound \in 0 .. INBOUND_QUEUE_DEPTH
    /\ outbound \in 0 .. OUTBOUND_QUEUE_DEPTH

SessionInit ==
    /\ Init
    /\ gate = "connect" /\ retries = 0 /\ pump = "idle"
    /\ engine = "none" /\ halt = FALSE /\ inbound = 0 /\ outbound = 0

-----------------------------------------------------------------------------
(* TerminalSession::start. *)

\* Mutant: INVALID_KEY is retried without a deadline.
AfterRefusalForever(answer) == IF answer = "InvalidKey" THEN {"sleep"} ELSE {"failed"}

\* INVALID_KEY is retried while the deadline has not passed.
AfterRefusal(answer) ==
    IF answer = "InvalidKey" /\ retries < MaxRetries THEN {"sleep", "failed"} ELSE {"failed"}

StartConnect ==
    /\ gate = "connect"
    /\ \E answer \in Answers :
         /\ Connect(answer)
         /\ gate' \in IF answer = "NewClient" THEN {"payload"} ELSE AfterRefusal(answer)
         /\ retries' = IF gate' = "sleep" /\ retries < MaxRetries THEN retries + 1 ELSE retries
    /\ UNCHANGED <<pump, engine_vars>>

StartSleep ==
    /\ gate = "sleep"
    /\ gate' = "connect" /\ client' = "connecting"
    /\ UNCHANGED <<sup, reason, actor, announce, stop, handles, backed_events, events,
                   retries, pump, engine_vars>>

\* Returning an error drops the client.
StartFails == gate' = "failed" /\ DropClient /\ UNCHANGED <<retries, pump, engine_vars>>

\* Mutant: waiting for room in its event channel, the actor serves no command.
ServesWithRoom == Room

\* A write is answered by the actor, which serves commands while its event
\* channel is full, too (send_event).  Writing to a gone actor is an error.
Serves == TRUE

StartWrite ==
    /\ gate = "payload"
    /\ \/ actor = "gone" /\ StartFails
       \/ /\ actor # "gone" /\ Serves
          /\ gate' = "response"
          /\ UNCHANGED <<vars, retries, pump, engine_vars>>

\* next_event() returns the next event.
Taken ==
    /\ client = "open" /\ events # <<>>
    /\ events' = Tail(events)
    /\ UNCHANGED <<client, sup, reason, actor, announce, stop, handles, backed_events>>

\* A packet is something else and is skipped, or a response without an error: the
\* session is open, with an engine if it declared reverse tunnels.
StartReceive ==
    /\ gate = "response" /\ Taken /\ Head(events) = "Packet"
    /\ \/ UNCHANGED <<gate, engine>>
       \/ gate' = "open" /\ engine' \in {"none", "select"}
    /\ UNCHANGED <<retries, pump, halt, inbound, outbound>>

\* A response that is an error or does not decode, the death of the client, or no
\* response in time.
StartRefused == gate = "response" /\ events # <<>> /\ StartFails
StartEnded   == gate = "response" /\ events = <<>> /\ sup = "gone" /\ StartFails
StartTimeout == gate = "response" /\ StartFails

-----------------------------------------------------------------------------
(* The engine. *)

\* The engine takes a packet or a local event and handles it: a frame to send, a
\* local write to wait for, or neither.
EngineTake ==
    /\ engine = "select" /\ inbound > 0
    /\ inbound' = inbound - 1 /\ engine' \in Running
    /\ UNCHANGED <<client_vars, gate_vars, pump, halt, outbound>>

EngineEvent ==
    /\ engine = "select"
    /\ engine' \in Running
    /\ UNCHANGED <<client_vars, gate_vars, pump, halt, inbound, outbound>>

EngineSend ==
    /\ engine = "send" /\ outbound < OUTBOUND_QUEUE_DEPTH
    /\ outbound' = outbound + 1 /\ engine' = "select"
    /\ UNCHANGED <<client_vars, gate_vars, pump, halt, inbound>>

EngineLocal ==
    /\ engine = "local"
    /\ engine' = "select"
    /\ UNCHANGED <<client_vars, gate_vars, pump, halt, inbound, outbound>>

EngineStop ==
    /\ halt /\ engine \in Running
    /\ engine' = "stopped" /\ inbound' = 0
    /\ UNCHANGED <<client_vars, gate_vars, pump, halt, outbound>>

-----------------------------------------------------------------------------
(* next_event and deliver_to_engine. *)

Open == gate = "open" /\ client = "open"

\* client.session_ended(): the supervisor dropped its end of the channel.
session_ended == sup = "gone"

\* Mutant: while parked, the frames of the engine are left where they are.
PumpFrameWhenIdle ==
    /\ Open /\ pump = "idle" /\ outbound > 0
    /\ outbound' = outbound - 1
    /\ pump' = "write"
    /\ UNCHANGED <<client_vars, gate_vars, engine, halt, inbound>>

\* A frame of the engine is written to the client; so is the owner's own input.
PumpFrame ==
    /\ Open /\ pump \in {"idle", "deliver"} /\ outbound > 0
    /\ outbound' = outbound - 1
    /\ pump' = IF pump = "idle" THEN "write" ELSE "deliver_write"
    /\ UNCHANGED <<client_vars, gate_vars, engine, halt, inbound>>

SendInput ==
    /\ Open /\ pump = "idle"
    /\ pump' = "write"
    /\ UNCHANGED <<client_vars, gate_vars, engine_vars>>

WriteDone ==
    /\ pump \in {"write", "deliver_write"} /\ (actor = "gone" \/ Serves)
    /\ pump' = IF pump = "write" THEN "idle" ELSE "deliver"
    /\ UNCHANGED <<client_vars, gate_vars, engine_vars>>

\* A port-forward packet goes to the engine, if there is one and the session has
\* not ended; everything else surfaces.
PumpEvent ==
    /\ Open /\ pump = "idle" /\ Taken
    /\ \/ UNCHANGED pump
       \/ /\ Head(events) = "Packet" /\ engine # "none" /\ ~session_ended
          /\ pump' = "deliver"
    /\ UNCHANGED <<gate_vars, engine_vars>>

PumpNone ==
    /\ Open /\ pump = "idle" /\ NextEvent /\ events = <<>>
    /\ UNCHANGED <<gate_vars, pump, engine_vars>>

\* engine.reserve() gives a permit, or fails because the engine stopped.
Deliver ==
    /\ Open /\ pump = "deliver"
    /\ \/ engine \in Running /\ inbound < INBOUND_QUEUE_DEPTH /\ inbound' = inbound + 1
       \/ engine = "stopped" /\ UNCHANGED inbound
    /\ pump' = "idle"
    /\ UNCHANGED <<client_vars, gate_vars, engine, halt, outbound>>

\* The tick: the parked packet is dropped once the session has ended.
DeliverTick ==
    /\ Open /\ pump = "deliver" /\ session_ended
    /\ pump' = "idle"
    /\ UNCHANGED <<client_vars, gate_vars, engine_vars>>

StartForwarding ==
    /\ Open /\ pump = "idle" /\ engine = "none"
    /\ engine' = "select"
    /\ UNCHANGED <<client_vars, gate_vars, pump, halt, inbound, outbound>>

\* shutdown() borrows the session, so it is called between two events: the engine
\* is stopped, then the client.
SessionShutdown ==
    /\ Open /\ pump = "idle" /\ Shutdown
    /\ halt' = (engine # "none")
    /\ UNCHANGED <<gate_vars, pump, engine, inbound, outbound>>

\* The session is dropped, at whatever point next_event() has reached.  Its handle
\* is the engine's only one.
DropSession ==
    /\ gate = "open" /\ Drop
    /\ halt' = (engine # "none") /\ outbound' = 0 /\ pump' = "idle"
    /\ UNCHANGED <<gate_vars, engine, inbound>>

ClientStep == (Actor \/ Supervisor) /\ UNCHANGED <<gate_vars, pump, engine_vars>>

SessionNext ==
    \/ StartConnect \/ StartSleep \/ StartWrite \/ StartReceive \/ StartRefused
    \/ StartEnded \/ StartTimeout
    \/ EngineTake \/ EngineEvent \/ EngineSend \/ EngineLocal \/ EngineStop
    \/ PumpFrame \/ SendInput \/ WriteDone \/ PumpEvent \/ PumpNone \/ Deliver \/ DeliverTick
    \/ StartForwarding \/ SessionShutdown \/ DropSession
    \/ ClientStep

SessionSpec == SessionInit /\ [][SessionNext]_session_vars

Same == UNCHANGED <<gate_vars, pump, engine_vars>>

Start ==
    StartConnect \/ StartSleep \/ StartWrite \/ StartReceive \/ StartRefused \/ StartEnded

\* Tasks are polled when they can run, timers fire, selects are fair to their arms
\* and the owner calls next_event() again after an event or an input of its own.
\* Neither the server, the network nor a local program owes anything.
PumpFairSpec ==
    /\ SessionSpec
    /\ WF_session_vars(ActorAnnounces /\ Same) /\ WF_session_vars(ActorShutdown /\ Same)
    /\ WF_session_vars(Supervisor /\ Same)
    /\ WF_session_vars(Start) /\ WF_session_vars(StartTimeout)
    /\ SF_session_vars(EngineTake) /\ WF_session_vars(EngineSend) /\ WF_session_vars(EngineStop)
    /\ WF_session_vars(WriteDone) /\ SF_session_vars(PumpFrame)
    /\ SF_session_vars(PumpEvent \/ PumpNone)
    /\ SF_session_vars(Deliver) /\ SF_session_vars(DeliverTick)

\* Local programs read what the engine writes to them, too.
SessionFairSpec == PumpFairSpec /\ WF_session_vars(EngineLocal)

-----------------------------------------------------------------------------
(* Properties. *)

\* start() returns: INVALID_KEY is retried for a while only, and the wait for the
\* INITIAL_RESPONSE is bounded.
StartReturns == gate \notin {"open", "failed"} ~> gate \in {"open", "failed"}

\* The pump neither wedges on a write nor on a full engine: "parking without
\* draining would deadlock the two queues against each other".
PumpReturns == pump # "idle" ~> pump = "idle"

\* A dropped session and a failed start leave nothing behind: the supervisor, the
\* actor and the engine end.
SessionReleases ==
    client = "dropped" ~> sup = "gone" /\ actor = "gone" /\ engine \notin Running

\* "A short tick aborts the park when the session has died underneath it, so
\* next_event cannot hang behind a queue that will never drain".
ParkEnds == pump = "deliver" /\ actor = "gone" ~> pump # "deliver"

=============================================================================
