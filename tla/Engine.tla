------------------------------- MODULE Engine -------------------------------
(***************************************************************************)
(* The life of a port-forward engine of crates/et-proto/src/forward.rs:    *)
(* its cloned handles, the command queue, the shutdown watch, the run loop *)
(* with the places it can block, the source listeners' accept tasks and    *)
(* the callers of shutdown() and add_sources().  What the handlers do with *)
(* packets and events is module Forward's subject.                         *)
(*                                                                         *)
(* Every handle is used by a task of its own.                              *)
(***************************************************************************)
EXTENDS Naturals, Sequences, FiniteSets

CONSTANTS
    Handles,            \* the EngineHandle clones there may be
    First,              \* the one spawn returns
    Initial,            \* the source given to spawn
    Adders,             \* bound: the handles add_sources is called on, once each
    CMD_QUEUE_DEPTH,
    EVENT_QUEUE_DEPTH,
    MaxRaises           \* bound: shutdown() calls

ASSUME EngineAssumption ==
    /\ IsFiniteSet(Handles) /\ First \in Handles /\ Adders \subseteq Handles
    /\ Initial \notin Handles /\ MaxRaises \in Nat
    /\ CMD_QUEUE_DEPTH \in Nat \ {0} /\ EVENT_QUEUE_DEPTH \in Nat \ {0}

Sources == Adders \cup {Initial}

VARIABLES
    user,           \* the task with each handle: where it is in a call, or its drop
    handle_count,
    raised,         \* the watch's value
    version,        \* how often the watch was sent to
    seen,           \* the version the run loop's receiver has seen
    cmds,           \* the command queue
    reply,          \* the oneshot of each AddSources
    result,         \* what add_sources returned
    loop,           \* the await point of the run loop
    accepted,       \* accepted connections queued for the loop
    task            \* each source's accept task, with the version it has seen

engineVars == <<user, handle_count, raised, version, seen, cmds, reply, result, loop, accepted, task>>

\* shutdown: raised, Cmd::Shutdown not queued yet.  add: waiting in add_sources.
\* last, other: handle_count is decremented, the fields are still there.
User == {"none", "live", "shutdown", "add", "last", "other", "gone"}
Holding == {"live", "shutdown", "add", "last", "other"}

\* none: the source is not bound.  portless: it names no endpoint or no port.
Task == {"none", "portless", "accept", "send", "sleep", "gone"}

EngineTypeOK ==
    /\ user \in [Handles -> User]
    /\ handle_count = Cardinality({h \in Handles : user[h] \in {"live", "shutdown", "add"}})
    /\ raised \in BOOLEAN /\ version \in 0 .. MaxRaises + 2 /\ seen \in 0 .. version
    /\ \A i \in DOMAIN cmds : cmds[i] \in Handles \cup {"Shutdown"}
    /\ Len(cmds) <= CMD_QUEUE_DEPTH
    /\ reply \in [Adders -> {"none", "noerror", "error", "dropped"}]
    /\ result \in [Adders -> {"none", "noerror", "error"}]
    /\ loop \in {"select", "blocked", "connect", "stopped"}
    /\ accepted \in 0 .. EVENT_QUEUE_DEPTH
    /\ \A s \in Sources : task[s].at \in Task /\ task[s].seen \in 0 .. version

\* spawn, which binds its source, fails to, or passes over it, and runs the engine
\* all the same
EngineInit ==
    /\ user = [h \in Handles |-> IF h = First THEN "live" ELSE "none"]
    /\ handle_count = 1
    /\ raised = FALSE /\ version = 0 /\ seen = 0
    /\ cmds = <<>> /\ reply = [h \in Adders |-> "none"] /\ result = [h \in Adders |-> "none"]
    /\ loop = "select" /\ accepted = 0
    /\ \E at \in [Sources -> {"none", "portless", "accept"}] :
         /\ \A s \in Adders : at[s] # "accept"
         /\ task = [s \in Sources |-> [at |-> at[s], seen |-> 0]]

\* Mutant: one command more than the queue holds.
CmdRoomLate == Len(cmds) <= CMD_QUEUE_DEPTH

CmdRoom == Len(cmds) < CMD_QUEUE_DEPTH

Raise == raised' = TRUE /\ version' = version + 1

-----------------------------------------------------------------------------
(* Handles. *)

Clone(h, g) ==
    /\ user[h] = "live" /\ user[g] = "none"
    /\ user' = [user EXCEPT ![g] = "live"]
    /\ handle_count' = handle_count + 1
    /\ UNCHANGED <<raised, version, seen, cmds, reply, result, loop, accepted, task>>

\* Mutant: "concurrent drops can each observe the pre-decrement strong count".
LastByStrongCount == Cardinality({h \in Handles : user[h] \in Holding}) = 1

\* fetch_sub(1) == 1
Last == handle_count = 1

DropCount(h) ==
    /\ user[h] = "live"
    /\ user' = [user EXCEPT ![h] = IF Last THEN "last" ELSE "other"]
    /\ handle_count' = handle_count - 1
    /\ UNCHANGED <<raised, version, seen, cmds, reply, result, loop, accepted, task>>

\* The last one raises the watch; then the senders go.
DropFields(h) ==
    /\ user[h] \in {"last", "other"}
    /\ IF user[h] = "last" THEN Raise ELSE UNCHANGED <<raised, version>>
    /\ user' = [user EXCEPT ![h] = "gone"]
    /\ UNCHANGED <<handle_count, seen, cmds, reply, result, loop, accepted, task>>

ShutdownRaise(h) ==
    /\ user[h] = "live" /\ version < MaxRaises
    /\ Raise
    /\ user' = [user EXCEPT ![h] = "shutdown"]
    /\ UNCHANGED <<handle_count, seen, cmds, reply, result, loop, accepted, task>>

\* cmd_tx.send(Cmd::Shutdown): waits for room, fails when the loop has stopped.
ShutdownQueue(h) ==
    /\ user[h] = "shutdown"
    /\ \/ loop = "stopped" /\ UNCHANGED cmds
       \/ loop # "stopped" /\ CmdRoom /\ cmds' = Append(cmds, "Shutdown")
    /\ user' = [user EXCEPT ![h] = "live"]
    /\ UNCHANGED <<handle_count, raised, version, seen, reply, result, loop, accepted, task>>

\* add_sources: the command is queued, unless the queue is full or closed.
AddSources(h) ==
    /\ user[h] = "live" /\ result[h] = "none"
    /\ IF loop # "stopped" /\ CmdRoom
       THEN /\ cmds' = Append(cmds, h) /\ user' = [user EXCEPT ![h] = "add"]
            /\ UNCHANGED result
       ELSE result' = [result EXCEPT ![h] = "error"] /\ UNCHANGED <<cmds, user>>
    /\ UNCHANGED <<handle_count, raised, version, seen, reply, loop, accepted, task>>

\* Its select: the reply, the shutdown watch, or the timeout, which may fire at any
\* time.  Whatever is still to come is then not waited for.
AddReturn(h) ==
    /\ user[h] = "add"
    /\ \E r \in {"error"} \cup (IF reply[h] = "noerror" THEN {"noerror"} ELSE {}) :
         result' = [result EXCEPT ![h] = r]
    /\ user' = [user EXCEPT ![h] = "live"]
    /\ UNCHANGED <<handle_count, raised, version, seen, cmds, reply, loop, accepted, task>>

-----------------------------------------------------------------------------
(* The run loop. *)

\* "signal the accept tasks, then tear everything down"
FinalRaise == Raise

\* break: both receivers go, and with them the commands still queued.
Stop ==
    /\ loop' = "stopped" /\ cmds' = <<>> /\ accepted' = 0
    /\ FinalRaise
    /\ reply' = [h \in Adders |-> IF \E i \in DOMAIN cmds : cmds[i] = h THEN "dropped" ELSE reply[h]]
    /\ UNCHANGED <<user, handle_count, seen, result, task>>

\* Mutant: the errors of the bind are not looked at.
ReplyNoError(c) == reply' = [reply EXCEPT ![c] = "noerror"]

\* The reply carries one error per failed bind: none for a listener that is up, and
\* none for a source that was passed over.
Reply(c) ==
    reply' = [reply EXCEPT ![c] = IF task'[c].at \in {"accept", "portless"} THEN "noerror" ELSE "error"]

\* bind_source_listeners for the source of c.  A new accept task gets a clone of the
\* loop's receiver, which has seen what the loop has.
Bind(c) ==
    \/ /\ task[c].at # "portless"
       /\ task' = [task EXCEPT ![c] = [at |-> "accept", seen |-> seen]]
    \/ task[c].at # "portless" /\ UNCHANGED task      \* the bind failed
    \/ task[c].at = "portless" /\ UNCHANGED task      \* nothing to bind

\* Commands first.  Listeners are bound and their tasks spawned before the reply.
TakeCommand ==
    /\ loop = "select" /\ cmds # <<>>
    /\ LET c == Head(cmds)
       IN  IF c = "Shutdown" THEN Stop
           ELSE /\ cmds' = Tail(cmds)
                /\ Bind(c) /\ Reply(c)
                /\ UNCHANGED <<user, handle_count, raised, version, seen, result, loop, accepted>>

Senderless == \A h \in Handles : user[h] \notin Holding

TakeNone == loop = "select" /\ cmds = <<>> /\ Senderless /\ Stop

\* A packet of the session or a local event, which ends in a send that may block on
\* a full outbound or local write queue, after a connect for a new destination.
TakeWork ==
    /\ loop = "select" /\ cmds = <<>> /\ ~Senderless
    /\ \/ accepted > 0 /\ accepted' = accepted - 1
       \/ UNCHANGED accepted
    /\ loop' \in {"blocked", "connect"}
    /\ UNCHANGED <<user, handle_count, raised, version, seen, cmds, reply, result, task>>

Unblock ==
    /\ loop = "blocked"
    /\ loop' = "select"
    /\ UNCHANGED <<user, handle_count, raised, version, seen, cmds, reply, result, accepted, task>>

\* wait_for(|v| *v): the preemption of a blocked send.
Preempt ==
    /\ loop = "blocked" /\ raised
    /\ loop' = "select" /\ seen' = version
    /\ UNCHANGED <<user, handle_count, raised, version, cmds, reply, result, accepted, task>>

\* The destination answers or not; then there is a response to send.
Connected ==
    /\ loop = "connect"
    /\ loop' = "blocked"
    /\ UNCHANGED <<user, handle_count, raised, version, seen, cmds, reply, result, accepted, task>>

-----------------------------------------------------------------------------
(* Accept tasks. *)

At(s, from, to) == task[s].at = from /\ task' = [task EXCEPT ![s].at = to]

Accepts(s) ==
    /\ At(s, "accept", "send") \/ At(s, "accept", "sleep")
    /\ UNCHANGED <<user, handle_count, raised, version, seen, cmds, reply, result, loop, accepted>>

\* ACCEPT_RETRY_DELAY after a failed accept() is over.
AcceptRetries(s) ==
    /\ At(s, "sleep", "accept")
    /\ UNCHANGED <<user, handle_count, raised, version, seen, cmds, reply, result, loop, accepted>>

\* events.send(Accepted): waits for room, fails when the loop is gone.
AcceptSends(s) ==
    /\ \/ loop = "stopped" /\ At(s, "send", "gone") /\ UNCHANGED accepted
       \/ /\ loop # "stopped" /\ accepted < EVENT_QUEUE_DEPTH
          /\ At(s, "send", "accept") /\ accepted' = accepted + 1
    /\ UNCHANGED <<user, handle_count, raised, version, seen, cmds, reply, result, loop>>

\* shutdown.changed()
AcceptStops(s) ==
    /\ task[s].at = "accept" /\ task[s].seen # version
    /\ task' = [task EXCEPT ![s] = [at |-> IF raised THEN "gone" ELSE "accept", seen |-> version]]
    /\ UNCHANGED <<user, handle_count, raised, version, seen, cmds, reply, result, loop, accepted>>

EngineNext ==
    \/ \E h \in Handles : \/ \E g \in Handles : Clone(h, g)
                          \/ DropCount(h) \/ DropFields(h) \/ ShutdownRaise(h) \/ ShutdownQueue(h)
    \/ \E h \in Adders : AddSources(h) \/ AddReturn(h)
    \/ TakeCommand \/ TakeNone \/ TakeWork \/ Unblock \/ Preempt \/ Connected
    \/ \E s \in Sources : Accepts(s) \/ AcceptRetries(s) \/ AcceptSends(s) \/ AcceptStops(s)

EngineSpec == EngineInit /\ [][EngineNext]_engineVars

\* Tasks are polled when they can run, timers fire, a connect to the loopback ends.
\* Nothing unblocks the loop: neither the session's pump nor a local program has
\* to read.
EngineFairSpec ==
    /\ EngineSpec
    /\ \A h \in Handles : WF_engineVars(DropFields(h)) /\ SF_engineVars(ShutdownQueue(h))
    /\ \A h \in Adders : WF_engineVars(AddReturn(h))
    /\ WF_engineVars(TakeCommand) /\ WF_engineVars(TakeNone) /\ SF_engineVars(Preempt) /\ WF_engineVars(Connected)
    /\ \A s \in Sources : WF_engineVars(AcceptSends(s)) /\ SF_engineVars(AcceptStops(s)) /\ WF_engineVars(AcceptRetries(s))

-----------------------------------------------------------------------------
(* Properties. *)

\* "The engine stops — listeners released, connections torn down, outbound closed
\* — on shutdown or when every handle clone is dropped", also when the loop is
\* blocked behind a congested tunnel and clones are dropped concurrently.
StopReleases ==
    (raised \/ Senderless) ~> (loop = "stopped" /\ \A s \in Sources : task[s].at \in {"none", "portless", "gone"})

\* Listening, or nothing to listen on.
Served == {"accept", "send", "sleep", "portless"}

\* An add_sources that returned no error bound every source that names a port: the
\* listener is up until the engine is told to stop, although the reply, the timeout
\* and shutdown race.
AddedIsBound ==
    \A h \in Adders : result[h] = "noerror" /\ ~raised => task[h].at \in Served

-----------------------------------------------------------------------------
(* The inductive invariant. *)

Holders == {h \in Handles : user[h] \in {"live", "shutdown", "add"}}

Queue ==
    /\ cmds \in Seq(Adders \cup {"Shutdown"}) /\ Len(cmds) <= CMD_QUEUE_DEPTH
    /\ reply \in [Adders -> {"none", "noerror", "error", "dropped"}]
    /\ result \in [Adders -> {"none", "noerror", "error"}]

Listeners ==
    /\ task \in [Sources -> [at : Task, seen : Nat]]
    /\ \A s \in Sources : task[s].seen <= version
    /\ loop \in {"select", "blocked", "connect", "stopped"}
    /\ accepted \in 0 .. EVENT_QUEUE_DEPTH

\* The handle that took the count to zero raises the watch once; so does the loop
\* that stops, and nobody else but shutdown().
DropRaised == handle_count = 0 /\ \A h \in Handles : user[h] # "last"

Watch ==
    /\ raised \in BOOLEAN /\ version \in Nat /\ seen \in 0 .. version
    /\ version <= MaxRaises + (IF DropRaised THEN 1 ELSE 0) + (IF loop = "stopped" THEN 1 ELSE 0)
    /\ \A h \in Handles : user[h] = "last" => handle_count = 0
    /\ \A g, h \in Handles : user[g] = "last" /\ user[h] = "last" => g = h

\* An answer without errors means a listener until the watch is raised, except for
\* a source without port.
Bound ==
    /\ loop = "stopped" => raised
    /\ \A h \in Adders : reply[h] = "noerror" \/ result[h] = "noerror"
                          => raised \/ task[h].at \in Served

EngineInv ==
    /\ user \in [Handles -> User] /\ handle_count = Cardinality(Holders)
    /\ Queue /\ Listeners /\ Watch /\ Bound

=============================================================================
