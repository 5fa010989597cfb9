# Formal model of et-client

TLA+ modules, TLC configurations and TLAPS proofs for the EternalTerminal client
of this repository (`crates/et-proto`, `crates/et-client`): the resumable connection
and its recover exchange, the supervisor that reconnects it, the terminal session on
top, the port-forward engine, and the pure code around them.

    tlc -workers 2 -config backed_reconnect.cfg MCBacked    # one run
    tlapm LifecycleProofs.tla                               # one proof module

## The system

| Part | Source | State and concurrency | Module |
|---|---|---|---|
| Backed connection | `et-proto/src/backed.rs` | one actor task per end, a reader and a writer task per socket, command and event channels | `BackedState`, `Backed`, `Link` |
| Recover exchange IO | `backed.rs` 565-726 | four frames in each direction, idle windows, a deadline | `RecoverExchange` |
| Client and supervisor | `et-proto/src/client.rs` | a supervisor task between the actor and the owner | `EtClient`, and in `Backed` |
| Terminal session | `et-client/src/session.rs` | start gate; one pump between client and engine | `Session`, on `EtClient` |
| Port-forward engine, life | `et-proto/src/forward.rs` 221-531, 894-1001 | cloned handles, command queue, shutdown watch, run loop, accept tasks | `Engine` |
| Port-forward engine, data | `forward.rs` 533-909, 1005-1106 | id tables, frames, read and write tasks | `Forward` |
| Tunnel arguments | `forward.rs` 43-219 | pure | `Tunnels` |
| Nonces, packets, frames | `crypto.rs`, `packet.rs`, `framing.rs` | a counter; otherwise pure | `Wire` |
| Ids, ssh bootstrap | `ids.rs`, `ssh.rs` | pure | `Bootstrap` |
| Generated message code | `gen/et.rs` | a size cache between two passes | `Proto` |

A client *session* outlives its sockets. The actor of each end numbers the packets
it writes, keeps their ciphertext in a backup and sends them over whatever socket is
live. When a socket breaks the actor emits `SocketDown`; the client's supervisor dials
again, and both ends run the recover exchange over the new socket: each says how many
packets it has read and gets the rest out of the peer's backup. The session reads the
supervisor's events, hands port-forward packets to the engine and writes the engine's
frames back to the actor.

## Modules

### BackedState and Backed

`BackedState` has the variables, the initial state and what one actor does between two
await points; `Backed` has the actions and the properties. Two `BackedActor`s and their owners. `actor[p]` has the fields of the Rust struct
except `backup_size` (derived: `BytesOf`), `shutting_down` (the control state `pc`
says it) and `last_activity` (a keepalive period may elapse at any time the tick can
see it). `pc` names the await point:

| `pc` | await point |
|---|---|
| `select` | the `select!` of `run` |
| `sockdown` | `send_event(SocketDown)` |
| `deliver` | `send_event(Packet)` inside `deliver_inbox` |
| `mismatch` | the bounded send of `die_crypto_mismatch` |
| `final` | the last send of `run` |
| `stopped` | the task is gone |

`stage` says whether a recover exchange is suspended on the peer's `SequenceHeader`
or on its `CatchupBuffer`; it is entered from `select`, `sockdown` or `deliver`,
because `send_event` serves commands. Between two await points the code runs without
interruption, and so does an action: every action ends with `Resume`, which carries on
to the next suspension (announce a loss, then take the next inbox packet).

*Data.* The k-th packet a peer encrypts is the number k: both crypto handlers are
counters, and a ciphertext decrypts only under the nonce it was made with.
`sent[p][k]` records the packet's header (`KEEP_ALIVE` or not) and serialized length.
`delivered` is the history of packets handed to the owner. A direction of a socket is
a sequence header, a catch-up and frames, in the order the stream carries them; the
write queue, the kernel's buffers and the reader task's queue are one FIFO of
`WRITE_QUEUE_DEPTH` frames.

*Environment.* `Cut` breaks a socket of `Unreliable` at any moment; data in flight may
still be read until the reader sees the error. The network loses sockets and forges
nothing, so frames that do not parse or carry a cleared encryption flag do not occur.
The `Client` end is owned by the supervisor of `client.rs` (`Consume`, `Connect`,
`Reply`): it recovers only after it took a `SocketDown` and takes no events meanwhile.
The `Server` end stands for the external etserver: it is handed the socket of every
accepted reconnect. With `Server \in Draining` its owner hands over what it read
before it recovers; without it, sockets arrive at any time.
The code path in which the event receiver is dropped while the actor still runs is not
in this module (`EtClient` has the drop of the client).

### Link

What the pair promises: two ordered streams, in each of which packets are read in the
order written, each at most once. `ImplementsLink` is the refinement: what is written is
`sent`, what is read is `delivered` looked up in the peer's log. A packet is mapped
together with its number, so that two packets with equal contents are told apart.
(`BackedLink` holds the mapping.)

### RecoverExchange

`recover_timed_actor` one IO step at a time. A frame is its length and the chunks of
its body; a direction of the socket holds `CAPACITY` units. A step that the socket is
ready for happens within `SLOW` ticks, `Timeout` fires at `StepBound`, a failed
exchange closes the socket for the peer (`HangUp`), and `Retry` starts over on a new
socket with the same catch-ups.

### EtClient

`connect_with`, the supervisor's await points (`recv`, `forward`, `dial`, `recover`,
`sleep`, `report`, `shutdown`), the owner, who reads, may shut down and may drop the
client at any time, and the handles whose last drop ends the actor. The actor is
reduced to up, down and gone. The server's answers are arbitrary.

### Session

`TerminalSession::start`, `next_event`, `deliver_to_engine`, `send_input`, `shutdown`,
`start_port_forwarding` and the drop of the session, as further actions over the state of
`EtClient`, whose actor and supervisor take their own steps. `gate` is the await point of
`start`, `pump` that of the owner's task: `idle` (between two events or in the `select!`),
`write` and `deliver_write` (an actor write, outside or inside a park), `deliver` (parked
on the engine's inbound queue). The engine is its two queues and the places at which it
can block: its `select!`, a send to the full outbound queue, a write to a local program.
What a packet is for is decided when it is read.

### Engine

`EngineHandle` and `run`. A handle's drop is two steps, because another clone may be
dropped between the decrement of `handle_count` and the drop of the fields. The watch is
a value and a version, since a receiver wakes for versions it has not seen; the run
loop's own receiver (`seen`) is the one new accept tasks clone. The loop prefers
commands; its other work is one step that ends in a blocking send, with a connect before
it for a new destination. `teardown_all` is part of `Stop`: what it does to a connection
is in `Forward`.

### Forward

Two engines and the frames between them. A handler is one action with all its frames: an
engine does one thing at a time and its frames leave in order. A write to a local
connection needs room in its queue, which is a guard. `pending`, `source_sockets`,
`source_conn_ids` and `destinations` are the tables of the Rust struct; `conns` are the
connections that ever existed, with their reader and writer tasks, so that a task can
outlive its table entry as in the code. Chunk n of connection t is `<<t, n>>`, which lets
`TunnelsIsolated` compare what a program gets with what its mate sent. `random_u32` draws
from `SocketIds[e]`, never twice.

### Wire, Tunnels, Bootstrap, Proto

Pure code as operators, with digits, lengths and alphabets small. `Wire`: nonce, seal and
open, packet layout and both frame formats over bytes of base `BYTE`. `Tunnels`:
`parse_ranges` and its helpers over tokens. `Bootstrap`: rejection sampling over a stream
of random bytes, the search of the ssh output. `Proto`: the generated `compute_size`,
`write_to`, `merge_field` and `clear` once, over a table of fields for each of the
seventeen messages; generated code is the same text for every field kind, and the table
says which kinds a message has. The runtime library (varints, tags, unknown fields) is
modelled from its use. `MCCodecs` states what they must do and generates the inputs.

`MCBacked`, `MCRecoverExchange` and `MCForward` give TLC the function-valued constants.

## Runs

Every run takes less than three minutes with two workers.

| Run | What it checks | Result |
|---|---|---|
| `backed_reconnect` | packets exactly once, in order, decryptable, across reconnects: `ExactlyOnce`, `NoCryptoMismatch`, `SocketDownOnce`, `HeaderAccepted`, `TypeOK`; what is written arrives, `Delivery` (liveness), and the applications see only a reliable link, `ImplementsLink` (refinement) | hold |
| `backed_budget` | backup and offline budget at their limits: `RetainsWindow`, `OfflineKeepsBackup`, `LedgerBound` | hold |
| `backed_keepalive` | `WaitingIsUnanswered`, `DeadIsLast` | hold |
| `exchange` | `NobodyDeadlocks`, `StallBounded`, `LiveIsComplete`, `Recovers` (liveness) | hold |
| `session` | `StartReturns`, `PumpReturns`, `SessionReleases`, `ServerLossStopsWrites`, `DeathEnds` (liveness), `DeadIsFinal`, `SessionTypeOK` | hold |
| `engine` | `StopReleases` (liveness), `AddedIsBound`, `EngineTypeOK` | hold |
| `forward_tunnels` | `TunnelsIsolated`, `CloseAfterData`, `DestinationsBounded`, `LiveIsRegistered`, `AcceptsAnswered`, `EndReachesPeer` (the last two liveness), `TypeOK` | hold |
| `codecs` | `RelayKeepsNewer`, `FramesReadBack`, `StreamInStep`, `TunnelsAsWritten`, `HandshakeFindsKey`, `UniformIds` | hold |
| `exchange_both_large` | `NobodyDeadlocks` | violated |
| `client_shutdown` | `ShutdownEnds` | violated |
| `session_park` | `ParkEnds` | violated |
| `catchup_cap` | `CatchupFits` | violated |

### Bounds

* `backed_reconnect`: one packet from the client and two from the server, three
  sockets, of which the third one holds. A break can hit any step, so a recovery can fail
  half-way, succeed on one end only, and be repeated; two packets in one direction are
  the fewest that can be reordered or resent in part.
* `backed_budget`: lengths 2 and 3, a backup of 4 bytes, a budget of 3 and a queue of
  two frames, so trimming, skipped writes and a socket killed by its full queue occur
  with four writes. The frame cap is backup and budget together, as in the source, and
  an entry of a `CatchupBuffer` costs one byte of framing, so catch-ups that are too
  large occur.
* `catchup_cap`: one packet fills the backup, another one the budget, again with the cap
  equal to their sum.
* `backed_keepalive`: two pings, two echoes, an event queue of two; without `Draining`,
  so that a crypto mismatch is among the ways to die. Both ends may stop, hence no
  deadlock check.
* `exchange*`: a socket of three units; catch-ups of four and two units, or three and
  three. A frame also has its length, so three units are one too many. In `exchange` the
  idle window and the deadline are the smallest that `KeepsUp` admits for these sizes.
* `session*`: every channel holds one item, so each of the waits on a full one
  occurs. A session that ended is at rest, hence no deadlock check.
* `engine`: two handles, so two concurrent drops; a command queue of one; one call of
  `shutdown` besides the drops. The source of the second handle is bound, cannot be
  bound, or names no port. A stopped engine is at rest.
* `forward_tunnels`: two connections accepted at one end. Connections are numbered as they
  come, and the first and the third may fail: accepted ones, or an accepted one and a
  destination, depending on the order. Two chunks up and one down, write queues of one, caps of one and two destinations, so
  that the second request is refused in some behaviours. When all connections ended the
  engines are at rest.
* `codecs`: digits of base 4, nonces of three digits, lengths up to 4, ports up to 3;
  streams, texts and lists up to the length at which one more of everything occurs; ports
  with either sign and elements with blanks around them. Every
  message type is filled with all combinations of absent, short and long values (126
  bytes, where a length takes a second varint byte), in a version with one more field
  and one more value in every enum.

### Fairness

`backed_reconnect` assumes that tokio polls ready tasks and fires timers (weak fairness
of every step of the actors), that owners keep taking events and that the supervisor
keeps dialling. Nothing obliges anyone to write, to kill a socket or to shut down, and
`Cut` is never fair: the property holds because only finitely many sockets are
unreliable. `exchange*` adds a clock that runs. `Recovers` is conditional besides: no
step the socket is ready for takes more than a tick (`late`), and `KeepsUp` holds, that is,
the idle window and the deadline leave room for the two catch-ups.

`session*` assumes that tasks run, timers fire and the owner calls `next_event` again;
the server, the network and the drop of the session owe nothing. An arm of a `select!`
that is ready again and again is taken eventually (strong fairness of the pump's
arms, of `EngineTake`, of a permit for `Deliver`): `select!` without `biased` picks at
random, and tokio's bounded channels serve waiters in order. `PumpFairSpec` assumes
nothing of local programs; `SessionFairSpec` adds that they read.

`engine` assumes nothing that unblocks the loop: neither the pump nor a local program
has to read. A command queue that has room again and again admits the waiting
`Cmd::Shutdown`, and the accept loop, which returns to its `select!` after every
connection, notices the watch (strong fairness of `ShutdownQueue`, `AcceptStops`,
`Preempt`).

`forward_tunnels` assumes that the engines and the read and write tasks run, and that
local programs read; connections need not be opened or ended.

## What the violated runs show

* `exchange_both_large`. Both ends write their catch-up before they read. If both
  exceed what the socket buffers, both block until the idle window ends the exchange,
  although "both write their reader sequence first, so nobody deadlocks"
  (`backed.rs` 22-23).
* `client_shutdown`. `shutdown()` during an outage ends the actor while the supervisor
  is reconnecting; `recover` on a gone actor reads as a failed attempt, so the
  supervisor dials as long as the server answers `RETURNING_CLIENT`, and `next_event`
  does not return ("`None` after the session ended", `client.rs` 288).
* `session_park`. The tick that should end a park asks `session_ended()`, which is true
  once the supervisor is gone. If the connection died with the event channel full, the
  supervisor waits for room in it, and only the parked pump makes room: a local program
  that never reads keeps `next_event` from returning after the death of the session
  ("cannot hang behind a queue that will never drain", `session.rs` 268-270).
* `catchup_cap`. `DEFAULT_MAX_PROTO_LENGTH` (128 MiB) is exactly `MAX_BACKUP_BYTES` and
  `DISCONNECT_BUFFER_BYTES` together (64 MiB each). Each entry of a `CatchupBuffer` has a tag
  and a length besides its bytes, so a full backup followed by a full offline budget is a
  frame the peer refuses (`backed.rs` 698), and every retry sends the same entries:
  "Writes made while offline buffer up to 64 MiB and flush after recovery" (`README.md` 63)
  does not hold there. Without the framing it fails too, with three sockets that may
  break: a recovery that completes at one end only resets the ledger of that end while its peer
  received nothing, and the next outage adds another full budget to the same backup.

## Observations

Noticed while modelling, not the subject of a run:

* `recover_timed_actor` sends `reader_seq`, which does not count packets still in the
  inbox. If the command is served from inside `send_event` with packets queued, the peer
  resends them and the second copy fails to decrypt. With `Draining = {}`,
  `NoCryptoMismatch` fails; this repository's client cannot get there
  (`backed_reconnect`), because the run loop announces a loss only with an empty inbox.
* `reader_seq as i32` wraps after 2^31 packets; the peer then refuses every recovery. With
  `I32_LIMIT = 2` in `backed_reconnect`, `HeaderAccepted` fails.
* Both ends write before they read, so an end may wait in a single step, a write into a
  full socket, for all the time its peer spends writing its own catch-up: the idle window
  must cover that catch-up although every byte of it makes progress. The deadline must
  cover both. Past either bound each retry starts over with the same entries ("the absolute
  ceiling must bind even a progressing peer", `backed.rs` 1701). `KeepsUp` in
  `MCRecoverExchange` states what is needed; with that premise dropped and one tick less
  in either constant of `exchange`, `Recovers` fails.
* `LedgerBound` allows the ledger `Overhead` bytes above the budget, since `write` tests the
  payload's length and charges the serialized one.
* A local write that fails tears its tunnel down without a frame to the peer (`forward.rs`
  874-882, "The peer learns of the death the usual way"). The read task, which would
  report the end, is aborted; an end of file it has already queued finds no entry and is
  dropped (743, 771), and so are the peer's later frames. The peer's half stays open until
  its own program ends. `EndReachesPeer` therefore excepts a connection whose writer
  failed; without the exception `forward_tunnels` violates it, for accepted connections
  and for destinations.
* Socket ids are random and not checked against the ids in use, and destination ids share
  a space with the sequential ids of accepted connections. `Forward` takes them to be
  distinct.
* `add_sources` may time out and report an error for a command that is still queued; the
  listener is then bound although the caller was told otherwise. `AddedIsBound` is the
  other direction.
* `bind_source_listeners` passes over a source that is not set or names no port
  (`forward.rs` 447-450) and reports no error for it, so `add_sources` answers `Ok` and
  nothing listens. `AddedIsBound` is about the other sources.
* A port may carry a plus sign (`i64::from_str`), but "+80:+90" is taken for the names of
  two environment variables, since neither side is a number or a range by its characters.
  `TunnelsAsWritten` covers the sign everywhere else.
* `ids.rs` 13 speaks of 8 rejected values per byte; the code accepts 62 of 256 and rejects
  194. The distribution is uniform either way (`UniformIds`).
* `parse_idpasskey` checks the total length but not where the slash stands
  (`HandshakeFindsKey` says what is accepted).

## Proofs

The theorems hold for every value of the constants allowed by the named assumptions of
the modules they extend. Eight modules hold proofs:

| Module | Proves |
|---|---|
| `LifecycleProofs` | the theorems about `RecoverExchange`, `EtClient`, `Session` and `Engine` |
| `BackedSteps` | what the operators of `BackedState` do; that writing, reading and each stage of the exchange keep the link in order; types |
| `BackedProofs` | the agreement of client and supervisor, what one actor guarantees by itself, what the two guarantee together, and the refinement of `Link` |
| `ForwardTables` | operators of `Forward`, how tables and connections may change, and that accepting a connection keeps them in order |
| `ForwardSteps` | that requests, refusals and answers keep tables and requests in order |
| `ForwardStreams` | when a stream of chunks stays in order, and that the local tasks and accepted connections keep it so |
| `ForwardFrames` | that passing on what was read, and the frames that arrive, keep the streams in order |
| `ForwardProofs` | that requests and answers leave the streams alone, the limits, and the theorems about `Forward` |

`BackedInv` and `ForwardInv` state the two large inductive invariants; they hold no proofs.
The other invariants stand beside their proofs, except `EngineInv`, which is in `Engine`.

### RecoverExchange

The inductive invariant `IInv` of `LifecycleProofs` adds to `ExchangeTypeOK`: offsets stay
inside their frame (`OffsetInv`), what is in flight is what one end wrote and the other
has not read (`FlowInv`), the clock has not passed the bound of a running step and no
bound passes the deadline (`TimeInv`), and an end that is live has a peer that wrote its
whole catch-up (`LiveInv`). Theorems:

* `ExchangeTypeCorrect`; `StallIsBounded` (from `TimeInv`); `LiveMeansComplete` (from
  `LiveInv`);
* `NoDeadlock`, which assumes that one of the two catch-ups fits the socket's buffer:
  from `FlowInv`, two ends that both wait would both have a full pipe ahead of them.
  `exchange_both_large` shows the assumption is needed.

### EtClient, Session, Engine

`TerminalEventIsLast` (`Spec => []DeadIsFinal`) needs to know besides the types that
nothing is sent before the supervisor runs and that a supervisor that reported its end
sends nothing more; `SessionTypeCorrect` and `SessionTerminalEventIsLast` carry this over to
the session, whose steps change the same variables, with the bounds of the engine's two
queues.

`EngineTypeCorrect` and `AddedStaysBound` rest on `EngineInv`. That the watch is sent to at
most `MaxRaises + 2` times, which `EngineTypeOK` says, needs the handle that took the count
to zero to be the only one to raise it (`Watch`), and so that `handle_count` is the number
of handles in use. `AddedIsBound` needs the reply that is not taken yet to be true as well
(`Bound`).

### Backed

`TypeCorrect` needs only that an end in an exchange has a socket for it (`TypeInv`). Three
theorems are about a single actor and hold without further conditions on the peer:

* `BackupKeptOffline`: `Spec => OfflineKeepsBackup`, an action property;
* `LedgerStaysBounded`: `Spec => []LedgerBound`, if no payload is larger than
  `DISCONNECT_BUFFER_BYTES`. A packet that a full or broken queue refuses is charged to the
  new ledger without a test (`backed.rs` 505-525), so one packet above the budget would
  break it. The invariant is that an exchange runs only in a serving actor and has set
  the live socket aside (`ExchangeOK`);
* `DeadEndsTheEvents`: `Spec => []DeadIsLast`; `EndOK` says which control states can still
  send the terminal event.

The theorems about delivery,

* `DeliveredExactlyOnce`: `Spec => []ExactlyOnce`,
* `NonceStreamsAgree`: `Spec => []NoCryptoMismatch`,
* `HeadersAccepted`: `Spec => []HeaderAccepted`,
* `OneSocketDownPerLoss`: `Spec => []SocketDownOnce`,
* `BackedImplementsLink`: `Spec => ImplementsLink`, the refinement of `Link`,

assume `Server \in Draining` and that no end writes `I32_LIMIT` packets. Both are needed:
the first two observations above drop one each. They rest on one invariant,
`IInv = TypeOK /\ LinkInv /\ ClientInv`:

* *one end* - `WriterInv`: the counters equal the number of packets written and the
  backup is a suffix of them; `ReaderInv`: the inbox continues where decryption stands and
  everything decrypted was delivered, except the packet being handed over;
  `StageInv`: an exchange finds an empty inbox and sets the live socket aside;
* *one socket* - `FreshInv`, `OffersInv`: an end that has not touched a socket has sent
  nothing on it, and its peer cannot be past its own header there; `HeaderInv`: the header
  in flight still says what its sender has read; `FramesInv`, `CatchupInv`: what is in
  flight towards a reader is exactly the next packets it lacks, up to the last one
  written while the peer still feeds the socket;
* *client and supervisor* - `ClientInv`: from the loss of the socket until its repair the
  client has no socket, and once the supervisor is told, no undelivered packet; one
  loss is announced at a time; sockets are offered only while the supervisor waits for a
  recovery. This gives the empty inbox that `StageInv` asks for at the client, and it
  is the reason the first observation is out of the client's reach.

The step that needs most of it is the arrival of the catch-up: the header was sent
several steps of both ends ago, and only `HeaderInv`, `WriterInv` and `CatchupInv`
together say that the packets cut from the backup are still the ones the reader lacks.
`NextLink` and `NextClient` treat the actions one by one; most handlers go through
`StepSettles` (an end lets go of a socket or delivers) or `StepAccepted` (an end writes).
`OneSocketDownPerLoss` adds the converse of `ClientInv`, that a client without a socket has
said so or is about to (`WakeOK`).

The refinement needs no invariant of its own. `StepVisible` says what a step can do to the
two histories: one write, one hand-over, or nothing. A write is a write of `Link` because
what was handed over earlier is found unchanged in the longer log (`WriteImplements`); a
hand-over is a read of `Link` because `ReaderInv` makes the packet decrypted last the next
one and bounds it by what the peer wrote (`HandImplements`).

### Forward

`ForwardTypeCorrect`, `TunnelsStayIsolated`, `ClosedAfterAllData`, `DestinationsStayBounded`
and `LiveStaysRegistered` state the five safety properties of `forward_tunnels`, for any
number of connections, chunks and socket ids, any caps and any queue depth.
`EndsAssumption` says that there are two ends. `IdsAssumption` says that no random socket
id is also one of the sequential ids of accepted connections, which the code does not
check (see the observations). The invariant `Inv` of `ForwardInv` has four parts:

* `TableInv` - who is who: an id names one connection of an end, the two connections of a
  tunnel know each other, every table entry leads to a connection of the right role
  and state, and a live connection is in its tables;
* `AskInv` - a request in flight belongs to a pending connection and has no answer yet,
  an answer in flight names the tunnel the request was given, and a source that has a
  mate and does not know it is about to be told;
* `StreamInv` - a stream is the chunks one connection read and its end, as events that
  wait for the engine and then as frames. Both keep the order of reading, frames are ahead of
  events, they carry the ids of their own tunnel and come after the answer that
  opened it. What the mate was passed is a prefix (`GotOK`), and what is in flight
  continues it without a gap, up to the last chunk as long as the engine still passes
  on what is read (`FlowOK`);
* `BoundInv` - the caps.

`FlowOK` is what `CloseAfterData` needs: a close is the last item of its stream, so when it
arrives everything before it has been queued, and the writer drains the queue. A
gap is excluded only while the receiver is registered; after a teardown late frames find
no entry and are dropped, and `TableInv` makes sure they find no other tunnel's entry.
`Touches` says that a step changes one connection, `Moves` that it takes items off the front
of the queues, `Quiet` that it adds nothing to a stream and takes nothing that counts; most
steps are quiet for all streams but one.

## What is only model-checked

Liveness, which TLAPS does not prove under fairness: `Delivery`, `Recovers`, `StartReturns`,
`PumpReturns`, `SessionReleases`, `ServerLossStopsWrites`, `DeathEnds`, `StopReleases`,
`AcceptsAnswered`, `EndReachesPeer`. Properties that sum packet lengths
(`RetainsWindow`) or count packets of a kind (`WaitingIsUnanswered`), which need induction over
data; so do the codecs, whose modules are recursive.

## Not modelled

* Frames that do not parse and packets with a cleared encryption flag on a live
  connection: the modelled network loses sockets and forges nothing. What the readers do
  with them is in `Wire`.
* The drop of the event receiver under a running actor in `Backed` (`EtClient` has it).
* IO errors that are not the end of the stream, file descriptors running out, a
  poisoned lock.
* Secretbox: a ciphertext opens under the nonce it was sealed with, and under no other.
* Message sizes above 4 GiB, where `compute_size` saturates; `Debug`, names, builders and
  extension sets of the generated code; the generator itself.
* `generate_id_passkey`'s constant prefix, the remote command line and the ssh argument
  vector: formatting of text.
* The content of terminal packets, and what the user of `SessionEvent` does with it.
* The crate roots, which re-export and hold constants.
