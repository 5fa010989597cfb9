--------------------------- MODULE RecoverExchange ---------------------------
(***************************************************************************)
(* The recover exchange of crates/et-proto/src/backed.rs at the level of   *)
(* its IO steps.  Both ends write their SequenceHeader, read the peer's,   *)
(* write their CatchupBuffer and read the peer's, over one socket that     *)
(* buffers a bounded amount per direction.  Each step has an idle window,  *)
(* the whole exchange an absolute deadline.  A failed exchange is tried    *)
(* again on a new socket, with the same backups to resend.                 *)
(*                                                                         *)
(* A frame is its 8-byte length followed by the body in pieces of at most  *)
(* RECOVER_IO_CHUNK bytes; every piece is one unit and one IO step.        *)
(***************************************************************************)
EXTENDS Integers

CONSTANTS
    A, B,        \* the two ends
    Body,        \* Body[p]: chunks in the body of the catch-up p has to send
    CAPACITY,    \* units a direction of the socket buffers
    IDLE,        \* RECOVER_STEP_IDLE, in ticks
    ABSOLUTE,    \* RECOVER_ABSOLUTE, in ticks
    SLOW         \* a step the socket is ready for takes at most SLOW ticks

Ends == {A, B}
Peer(p) == IF p = A THEN B ELSE A

ASSUME EndsAssumption == A # B
ASSUME BodyAssumption == Body \in [Ends -> Nat]
ASSUME CapacityAssumption == CAPACITY \in Nat /\ CAPACITY >= 2
ASSUME TimeAssumption == IDLE \in Nat \ {0} /\ ABSOLUTE \in Nat \ {0} /\ SLOW \in Nat

VARIABLES
    phase,     \* the await point of each end's exchange
    off,       \* units of the current frame already moved
    bound,     \* when the current step's timeout fires
    deadline,  \* when the exchange's absolute bound is
    wait,      \* ticks the current step has been possible and not happened
    pipe,      \* pipe[p]: units in flight towards p
    now

exchangeVars == <<phase, off, bound, deadline, wait, pipe, now>>

Writing == {"writeSeq", "writeCatchup"}
Reading == {"readSeq", "readCatchup"}
Active == Writing \cup Reading
Phase == {"idle", "live", "failed"} \cup Active

ExchangeTypeOK ==
    /\ phase \in [Ends -> Phase]
    /\ off \in [Ends -> Nat]
    /\ bound \in [Ends -> Nat]
    /\ deadline \in [Ends -> Nat]
    /\ wait \in [Ends -> Nat]
    /\ pipe \in [Ends -> Nat]
    /\ now \in Nat

ExchangeInit ==
    /\ phase = [p \in Ends |-> "idle"]
    /\ off = [p \in Ends |-> 0]
    /\ bound = [p \in Ends |-> 0]
    /\ deadline = [p \in Ends |-> 0]
    /\ wait = [p \in Ends |-> 0]
    /\ pipe = [p \in Ends |-> 0]
    /\ now = 0

\* Mutant: the reader sizes the peer's catch-up by its own.
UnitsOfOwn(p) ==
    CASE phase[p] \in {"writeSeq", "readSeq"} -> 2
      [] phase[p] \in {"writeCatchup", "readCatchup"} -> 1 + Body[p]
      [] phase[p] \notin Active -> 0

\* Units of the frame p is moving: length and body.  The body of a
\* SequenceHeader is one chunk, that of a CatchupBuffer is the sender's.
Units(p) ==
    CASE phase[p] \in {"writeSeq", "readSeq"} -> 2
      [] phase[p] = "writeCatchup" -> 1 + Body[p]
      [] phase[p] = "readCatchup" -> 1 + Body[Peer(p)]
      [] phase[p] \notin Active -> 0

Following ==
    [writeSeq |-> "readSeq", readSeq |-> "writeCatchup",
     writeCatchup |-> "readCatchup", readCatchup |-> "live"]

\* Mutant: the absolute deadline is left out.
StepBoundIdleOnly(limit) == now + IDLE

\* step_bound = min(now + idle, deadline)
StepBound(limit) == IF now + IDLE < limit THEN now + IDLE ELSE limit

\* Mutant: the peer's header is awaited before the own one is written.
StartReading(p) ==
    /\ phase[p] = "idle"
    /\ phase' = [phase EXCEPT ![p] = "readSeq"]
    /\ deadline' = [deadline EXCEPT ![p] = now + ABSOLUTE]
    /\ bound' = [bound EXCEPT ![p] = StepBound(now + ABSOLUTE)]
    /\ wait' = [wait EXCEPT ![p] = 0]
    /\ UNCHANGED <<off, pipe, now>>

\* The owner hands p the socket.
StartExchange(p) ==
    /\ phase[p] = "idle"
    /\ phase' = [phase EXCEPT ![p] = "writeSeq"]
    /\ deadline' = [deadline EXCEPT ![p] = now + ABSOLUTE]
    /\ bound' = [bound EXCEPT ![p] = StepBound(now + ABSOLUTE)]
    /\ wait' = [wait EXCEPT ![p] = 0]
    /\ UNCHANGED <<off, pipe, now>>

\* Mutant: one idle window for the whole exchange instead of one per step.
AdvanceSameWindow(p) ==
    /\ IF off[p] + 1 < Units(p)
       THEN off' = [off EXCEPT ![p] = @ + 1] /\ UNCHANGED phase
       ELSE off' = [off EXCEPT ![p] = 0] /\ phase' = [phase EXCEPT ![p] = Following[@]]
    /\ wait' = [wait EXCEPT ![p] = 0]
    /\ UNCHANGED <<bound, deadline, now>>

\* One unit moved: the next one, or the next frame, with a fresh idle window.
Advance(p) ==
    /\ IF off[p] + 1 < Units(p)
       THEN off' = [off EXCEPT ![p] = @ + 1] /\ UNCHANGED phase
       ELSE off' = [off EXCEPT ![p] = 0] /\ phase' = [phase EXCEPT ![p] = Following[@]]
    /\ bound' = [bound EXCEPT ![p] = StepBound(deadline[p])]
    /\ wait' = [wait EXCEPT ![p] = 0]
    /\ UNCHANGED <<deadline, now>>

CanWrite(p) == phase[p] \in Writing /\ pipe[Peer(p)] < CAPACITY /\ phase[Peer(p)] # "failed"

CanRead(p) == phase[p] \in Reading /\ pipe[p] > 0

WriteUnit(p) ==
    /\ CanWrite(p)
    /\ pipe' = [pipe EXCEPT ![Peer(p)] = @ + 1]
    /\ Advance(p)

ReadUnit(p) ==
    /\ CanRead(p)
    /\ pipe' = [pipe EXCEPT ![p] = @ - 1]
    /\ Advance(p)

\* The step's timeout fires.
Timeout(p) ==
    /\ phase[p] \in Active /\ now >= bound[p]
    /\ phase' = [phase EXCEPT ![p] = "failed"]
    /\ UNCHANGED <<off, bound, deadline, wait, pipe, now>>

\* The peer gave up and closed its end: a write fails, a read meets EOF.
HangUp(p) ==
    /\ phase[p] \in Active /\ phase[Peer(p)] = "failed"
    /\ phase[p] \in Reading => pipe[p] = 0
    /\ phase' = [phase EXCEPT ![p] = "failed"]
    /\ UNCHANGED <<off, bound, deadline, wait, pipe, now>>

\* Both ends are through and at least one failed: the client dials again.
Retry ==
    /\ \A p \in Ends : phase[p] \in {"live", "failed"}
    /\ \E p \in Ends : phase[p] = "failed"
    /\ phase' = [p \in Ends |-> "idle"]
    /\ off' = [p \in Ends |-> 0]
    /\ bound' = [p \in Ends |-> 0]
    /\ deadline' = [p \in Ends |-> 0]
    /\ wait' = [p \in Ends |-> 0]
    /\ pipe' = [p \in Ends |-> 0]
    /\ now' = 0

Ready(p) == phase[p] = "idle" \/ CanWrite(p) \/ CanRead(p)

\* Time passes: not past a timeout that is due, and not past a step the socket
\* has been ready for during SLOW ticks.
Tick ==
    /\ \E p \in Ends : phase[p] \notin {"live", "failed"}
    /\ \A p \in Ends : phase[p] \in Active => now < bound[p]
    /\ \A p \in Ends : Ready(p) => wait[p] < SLOW
    /\ now' = now + 1
    /\ wait' = [p \in Ends |-> IF Ready(p) THEN wait[p] + 1 ELSE wait[p]]
    /\ UNCHANGED <<phase, off, bound, deadline, pipe>>

AllLive == \A p \in Ends : phase[p] = "live"

ExchangeNext ==
    \/ \E p \in Ends : StartExchange(p) \/ WriteUnit(p) \/ ReadUnit(p) \/ Timeout(p) \/ HangUp(p)
    \/ Retry
    \/ Tick
    \/ AllLive /\ UNCHANGED exchangeVars

ExchangeSpec == ExchangeInit /\ [][ExchangeNext]_exchangeVars

-----------------------------------------------------------------------------
(* Properties. *)

\* Neither end is blocked on the other: with both ends inside the exchange,
\* the socket is ready for a step of at least one of them ("both write their
\* reader sequence first, so nobody deadlocks").
NobodyDeadlocks ==
    (\A p \in Ends : phase[p] \in Active) => \E p \in Ends : Ready(p)

\* A stalled or trickling peer holds the actor inside the exchange no longer
\* than RECOVER_ABSOLUTE, whatever the sequence of steps.
StallBounded ==
    \A p \in Ends : phase[p] \in Active => now <= deadline[p]

\* An end goes live only after the peer handed over its whole catch-up: a
\* superseded socket is never dropped for a half-transferred backup.
LiveIsComplete ==
    \A p \in Ends : phase[p] = "live" =>
        phase[Peer(p)] \in {"readCatchup", "live", "failed"}

=============================================================================
