--------------------------- MODULE LifecycleProofs ---------------------------
(***************************************************************************)
(* Proofs about the smaller components, each for any value of its          *)
(* constants: the recover exchange, the client with the session on top of  *)
(* it, and the life of a port-forward engine.                              *)
(***************************************************************************)
EXTENDS RecoverExchange, Session, Engine, FiniteSetTheorems, TLAPS

-----------------------------------------------------------------------------
(* RecoverExchange, for catch-ups, socket buffers and timeouts of any size: *)
(* the stall of an actor is bounded, an end goes live only on a complete   *)
(* catch-up, and the two ends never block each other provided one of the   *)
(* two catch-ups fits the socket's buffer.                                 *)

\* Units p has written so far, and units p has read so far.
Written(p) ==
    IF phase[p] = "idle" THEN 0
    ELSE IF phase[p] = "writeSeq" THEN off[p]
    ELSE IF phase[p] = "readSeq" THEN 2
    ELSE IF phase[p] = "writeCatchup" THEN 2 + off[p]
    ELSE 3 + Body[p]

Fetched(p) ==
    IF phase[p] \in {"idle", "writeSeq"} THEN 0
    ELSE IF phase[p] = "readSeq" THEN off[p]
    ELSE IF phase[p] = "writeCatchup" THEN 2
    ELSE IF phase[p] = "readCatchup" THEN 2 + off[p]
    ELSE 3 + Body[Peer(p)]

\* An end inside a frame has not reached its last unit; outside an exchange the
\* offset is at rest.
OffsetInv ==
    \A p \in Ends :
        /\ phase[p] \in Active => off[p] < Units(p)
        /\ phase[p] \in {"idle", "live"} => off[p] = 0

\* What is in flight is what was written and not yet read.
FlowInv ==
    \A p \in Ends :
        phase[p] # "failed" /\ phase[Peer(p)] # "failed" =>
            pipe[Peer(p)] = Written(p) - Fetched(Peer(p))

\* The bounds of the current step: within the deadline, not yet past.
TimeInv ==
    \A p \in Ends : phase[p] \in Active => now <= bound[p] /\ bound[p] <= deadline[p]

\* An end that was through before the other one failed had been handed
\* everything.
LiveInv ==
    \A p \in Ends : phase[p] = "live" =>
        phase[Peer(p)] \in {"readCatchup", "live", "failed"}

IInv == ExchangeTypeOK /\ OffsetInv /\ FlowInv /\ TimeInv /\ LiveInv

-----------------------------------------------------------------------------

\* The two ends are each other's peer.
LEMMA PeerFacts ==
    /\ \A p \in Ends : Peer(p) \in Ends /\ Peer(p) # p /\ Peer(Peer(p)) = p
    /\ \A p, q \in Ends : q = p \/ q = Peer(p)
  BY EndsAssumption DEF Ends, Peer

\* The initial state satisfies the invariant.
LEMMA InitIInv == ExchangeInit => IInv
  <1> SUFFICES ASSUME ExchangeInit PROVE IInv
    OBVIOUS
  <1> USE DEF ExchangeInit, Active, Writing, Reading
  <1>1. ExchangeTypeOK
    BY DEF ExchangeTypeOK, Phase
  <1>2. OffsetInv /\ TimeInv /\ LiveInv
    BY DEF OffsetInv, TimeInv, LiveInv
  <1>3. FlowInv
    BY PeerFacts DEF FlowInv, Written, Fetched
  <1> QED BY <1>1, <1>2, <1>3 DEF IInv

\* Moving one unit keeps the type invariant.
LEMMA AdvanceType ==
    ASSUME IInv, NEW p \in Ends, phase[p] \in Active, Advance(p),
           pipe' \in [Ends -> Nat]
    PROVE  ExchangeTypeOK'
  <1> USE DEF IInv, ExchangeTypeOK, Advance
  <1>1. Following[phase[p]] \in Phase
    BY DEF Following, Phase, Active, Writing, Reading
  <1>2. phase' \in [Ends -> Phase] /\ off' \in [Ends -> Nat]
    BY <1>1
  <1>3. bound' \in [Ends -> Nat]
    BY TimeAssumption DEF StepBound
  <1>4. wait' \in [Ends -> Nat] /\ deadline' \in [Ends -> Nat] /\ now' \in Nat
    OBVIOUS
  <1> QED BY <1>2, <1>3, <1>4

\* What one IO step does to an end: the counts of what it wrote and read, its
\* offset, and the phases it can be in afterwards.
LEMMA AdvanceFacts ==
    ASSUME IInv, NEW p \in Ends, phase[p] \in Active, Advance(p)
    PROVE  /\ phase[p] \in Writing => Written(p)' = Written(p) + 1 /\ Fetched(p)' = Fetched(p)
           /\ phase[p] \in Reading => Written(p)' = Written(p) /\ Fetched(p)' = Fetched(p) + 1
           /\ phase'[p] \in Active => off'[p] < Units(p)'
           /\ phase'[p] \in Active \cup {"live"}
           /\ phase'[p] = "live" => off'[p] = 0 /\ phase[p] = "readCatchup"
           /\ phase[p] = "readCatchup" => phase'[p] \in {"readCatchup", "live"}
  <1> DEFINE q == Peer(p)
  <1>1. /\ q \in Ends /\ q # p
        /\ off[p] \in Nat /\ off[p] < Units(p) /\ Body[p] \in Nat /\ Body[q] \in Nat
        /\ phase \in [Ends -> Phase] /\ off \in [Ends -> Nat]
    BY PeerFacts, BodyAssumption DEF IInv, ExchangeTypeOK, OffsetInv
  <1>2. CASE off[p] + 1 < Units(p)
    <2>1. off'[p] = off[p] + 1 /\ phase'[p] = phase[p]
      BY <1>1, <1>2 DEF Advance
    <2> QED
      BY <1>1, <1>2, <2>1 DEF Written, Fetched, Units, Active, Writing, Reading
  <1>3. CASE ~(off[p] + 1 < Units(p))
    <2>1. off'[p] = 0 /\ phase'[p] = Following[phase[p]]
      BY <1>1, <1>3 DEF Advance
    <2>2. CASE phase[p] = "writeSeq"
      BY <1>1, <1>3, <2>1, <2>2
         DEF Following, Written, Fetched, Units, Active, Writing, Reading
    <2>3. CASE phase[p] = "readSeq"
      BY <1>1, <1>3, <2>1, <2>3
         DEF Following, Written, Fetched, Units, Active, Writing, Reading
    <2>4. CASE phase[p] = "writeCatchup"
      BY <1>1, <1>3, <2>1, <2>4
         DEF Following, Written, Fetched, Units, Active, Writing, Reading
    <2>5. CASE phase[p] = "readCatchup"
      BY <1>1, <1>3, <2>1, <2>5
         DEF Following, Written, Fetched, Units, Active, Writing, Reading
    <2> QED BY <2>2, <2>3, <2>4, <2>5 DEF Active, Writing, Reading
  <1> QED BY <1>2, <1>3

\* One IO step, whatever it does to the socket, keeps the conjuncts that do not
\* speak of the socket.
LEMMA AdvanceRest ==
    ASSUME IInv, NEW p \in Ends, phase[p] \in Active, Advance(p)
    PROVE  OffsetInv' /\ TimeInv'
  <1>1. /\ \A r \in Ends : r # p => phase'[r] = phase[r] /\ off'[r] = off[r] /\ bound'[r] = bound[r]
        /\ phase'[p] \in Active \cup {"live"}
        /\ phase'[p] \in Active => off'[p] < Units(p)'
        /\ phase'[p] = "live" => off'[p] = 0
    BY AdvanceFacts, Zenon DEF Advance, IInv, ExchangeTypeOK
  <1>2. OffsetInv'
    <2> SUFFICES ASSUME NEW r \in Ends
                 PROVE  /\ phase'[r] \in Active => off'[r] < Units(r)'
                        /\ phase'[r] \in {"idle", "live"} => off'[r] = 0
      BY DEF OffsetInv
    <2>1. CASE r = p
      BY <1>1, <2>1 DEF Active, Writing, Reading
    <2>2. CASE r # p
      BY <1>1, <2>2, Zenon DEF IInv, OffsetInv, Units
    <2> QED BY <2>1, <2>2
  <1>3. TimeInv'
    <2> SUFFICES ASSUME NEW r \in Ends, phase'[r] \in Active
                 PROVE  now' <= bound'[r] /\ bound'[r] <= deadline'[r]
      BY DEF TimeInv
    <2>0. now \in Nat /\ deadline[p] \in Nat /\ now <= deadline[p] /\ IDLE \in Nat
      BY TimeAssumption DEF IInv, ExchangeTypeOK, TimeInv
    <2>1. CASE r = p
      <3>1. bound'[p] = StepBound(deadline[p]) /\ now' = now /\ deadline' = deadline
        BY DEF Advance, IInv, ExchangeTypeOK
      <3> QED BY <2>0, <2>1, <3>1 DEF StepBound
    <2>2. CASE r # p
      <3>1. bound'[r] = bound[r] /\ phase[r] \in Active /\ now' = now /\ deadline' = deadline
        BY <1>1, <2>2 DEF Advance
      <3> QED BY <3>1 DEF IInv, TimeInv
    <2> QED BY <2>1, <2>2
  <1> QED BY <1>2, <1>3

\* The end that does not step keeps its counts.
LEMMA AdvanceOther ==
    ASSUME IInv, NEW p \in Ends, Advance(p)
    PROVE  /\ phase'[Peer(p)] = phase[Peer(p)]
           /\ Written(Peer(p))' = Written(Peer(p))
           /\ Fetched(Peer(p))' = Fetched(Peer(p))
  <1>1. phase'[Peer(p)] = phase[Peer(p)] /\ off'[Peer(p)] = off[Peer(p)]
    BY PeerFacts DEF Advance, IInv, ExchangeTypeOK
  <1> QED BY <1>1 DEF Written, Fetched

\* The counts are numbers.
LEMMA CountType ==
    ASSUME ExchangeTypeOK, NEW p \in Ends
    PROVE  Written(p) \in Nat /\ Fetched(p) \in Nat
  BY PeerFacts, BodyAssumption DEF ExchangeTypeOK, Written, Fetched

\* Writing one unit of a frame keeps the invariant.
LEMMA StepWriteUnit ==
    ASSUME IInv, NEW p \in Ends, WriteUnit(p)
    PROVE  IInv'
  <1> DEFINE q == Peer(p)
  <1>0. /\ phase[p] \in Writing /\ phase[p] \in Active /\ Advance(p) /\ q \in Ends /\ q # p
        /\ Peer(q) = p /\ pipe \in [Ends -> Nat] /\ pipe' = [pipe EXCEPT ![q] = @ + 1]
    BY PeerFacts DEF WriteUnit, CanWrite, Active, IInv, ExchangeTypeOK
  <1>1. ExchangeTypeOK'
    BY <1>0, AdvanceType
  <1>2. OffsetInv' /\ TimeInv'
    BY <1>0, AdvanceRest
  <1>3. /\ Written(p)' = Written(p) + 1 /\ Fetched(p)' = Fetched(p)
        /\ phase'[p] \in Active \cup {"live"} /\ phase'[p] # "live"
    BY <1>0, AdvanceFacts DEF Writing
  <1>4. phase'[q] = phase[q] /\ Written(q)' = Written(q) /\ Fetched(q)' = Fetched(q)
    BY <1>0, AdvanceOther
  <1>5. FlowInv'
    <2> SUFFICES ASSUME phase'[p] # "failed", phase'[q] # "failed"
                 PROVE  /\ pipe'[q] = Written(p)' - Fetched(q)'
                        /\ pipe'[p] = Written(q)' - Fetched(p)'
      BY <1>0, PeerFacts DEF FlowInv
    <2>1. phase[p] # "failed" /\ phase[q] # "failed"
      BY <1>0, <1>4 DEF Writing
    <2>2. pipe[q] = Written(p) - Fetched(q) /\ pipe[p] = Written(q) - Fetched(p)
      BY <1>0, <2>1 DEF IInv, FlowInv
    <2>3. Written(p) \in Nat /\ Fetched(q) \in Nat /\ pipe'[q] = pipe[q] + 1 /\ pipe'[p] = pipe[p]
      BY <1>0, CountType DEF IInv
    <2> QED BY <1>3, <1>4, <2>2, <2>3
  <1>6. LiveInv'
    <2> SUFFICES ASSUME NEW r \in Ends, phase'[r] = "live"
                 PROVE  phase'[Peer(r)] \in {"readCatchup", "live", "failed"}
      BY DEF LiveInv
    <2>1. r = q /\ phase[q] = "live"
      BY <1>0, <1>3, <1>4, PeerFacts
    <2>2. phase[p] \in {"readCatchup", "live", "failed"}
      BY <1>0, <2>1 DEF IInv, LiveInv
    <2> QED BY <1>0, <2>2 DEF Writing
  <1> QED BY <1>1, <1>2, <1>5, <1>6 DEF IInv

\* Reading one unit of a frame keeps the invariant: in particular the end that
\* reads the last unit of the catch-up knows its peer has written all of it.
LEMMA StepReadUnit ==
    ASSUME IInv, NEW p \in Ends, ReadUnit(p)
    PROVE  IInv'
  <1> DEFINE q == Peer(p)
  <1>0. /\ phase[p] \in Reading /\ phase[p] \in Active /\ Advance(p) /\ q \in Ends /\ q # p
        /\ Peer(q) = p /\ pipe \in [Ends -> Nat] /\ pipe' = [pipe EXCEPT ![p] = @ - 1]
        /\ pipe[p] > 0
    BY PeerFacts DEF ReadUnit, CanRead, Active, IInv, ExchangeTypeOK
  <1>1. ExchangeTypeOK'
    <2>1. pipe' \in [Ends -> Nat]
      BY <1>0
    <2> QED BY <1>0, <2>1, AdvanceType
  <1>2. OffsetInv' /\ TimeInv'
    BY <1>0, AdvanceRest
  <1>3. /\ Written(p)' = Written(p) /\ Fetched(p)' = Fetched(p) + 1
        /\ phase'[p] = "live" => phase[p] = "readCatchup"
        /\ phase[p] = "readCatchup" => phase'[p] \in {"readCatchup", "live"}
    BY <1>0, AdvanceFacts
  <1>4. phase'[q] = phase[q] /\ Written(q)' = Written(q) /\ Fetched(q)' = Fetched(q)
    BY <1>0, AdvanceOther
  <1>5. phase[q] # "failed" =>
            pipe[q] = Written(p) - Fetched(q) /\ pipe[p] = Written(q) - Fetched(p)
    BY <1>0 DEF IInv, FlowInv, Reading
  <1>6. FlowInv'
    <2> SUFFICES ASSUME phase'[p] # "failed", phase'[q] # "failed"
                 PROVE  /\ pipe'[q] = Written(p)' - Fetched(q)'
                        /\ pipe'[p] = Written(q)' - Fetched(p)'
      BY <1>0, PeerFacts DEF FlowInv
    <2>1. /\ Written(q) \in Nat /\ Fetched(p) \in Nat
          /\ pipe'[q] = pipe[q] /\ pipe'[p] = pipe[p] - 1
      BY <1>0, CountType DEF IInv
    <2> QED BY <1>3, <1>4, <1>5, <2>1
  <1>7. LiveInv'
    <2> SUFFICES ASSUME NEW r \in Ends, phase'[r] = "live"
                 PROVE  phase'[Peer(r)] \in {"readCatchup", "live", "failed"}
      BY DEF LiveInv
    <2>1. CASE r = q
      <3>1. phase[p] \in {"readCatchup", "live", "failed"}
        BY <1>0, <1>4, <2>1 DEF IInv, LiveInv
      <3> QED BY <1>0, <1>3, <2>1, <3>1 DEF Reading
    <2>2. CASE r = p /\ phase[q] # "failed"
      <3>1. phase[p] = "readCatchup" /\ off'[p] = 0 /\ ~(off[p] + 1 < Units(p))
        BY <1>0, <1>3, <2>2, AdvanceFacts DEF Advance, IInv, ExchangeTypeOK, Reading
      <3>2. Fetched(p) = 2 + off[p] /\ Units(p) = 1 + Body[q] /\ off[p] \in Nat /\ Body[q] \in Nat
        BY <1>0, <3>1, BodyAssumption, Zenon DEF Fetched, Units, IInv, ExchangeTypeOK
      <3>3. Written(q) \in Nat /\ Written(q) >= 3 + Body[q]
        BY <1>0, <1>5, <2>2, <3>1, <3>2, CountType DEF IInv, OffsetInv
      <3>4. /\ phase[q] \in Phase /\ off[q] \in Nat
            /\ phase[q] = "writeSeq" => off[q] < 2
            /\ phase[q] = "writeCatchup" => off[q] < 1 + Body[q]
        BY <1>0 DEF IInv, ExchangeTypeOK, OffsetInv, Units, Active, Writing, Reading
      <3>5. phase[q] \in {"readCatchup", "live"}
        BY <2>2, <3>2, <3>3, <3>4 DEF Written, Phase, Active, Writing, Reading
      <3> QED BY <1>4, <2>2, <3>5
    <2>3. CASE r = p /\ phase[q] = "failed"
      BY <1>4, <2>3
    <2> QED BY <2>1, <2>2, <2>3, PeerFacts
  <1> QED BY <1>1, <1>2, <1>6, <1>7 DEF IInv

\* Being handed the socket keeps the invariant.
LEMMA StepStart ==
    ASSUME IInv, NEW p \in Ends, StartExchange(p)
    PROVE  IInv'
  <1> DEFINE q == Peer(p)
  <1>0. /\ q \in Ends /\ q # p /\ Peer(q) = p /\ phase[p] = "idle" /\ off[p] = 0
        /\ phase'[p] = "writeSeq" /\ phase'[q] = phase[q]
        /\ off' = off /\ pipe' = pipe /\ now' = now
    BY PeerFacts DEF StartExchange, IInv, ExchangeTypeOK, OffsetInv
  <1>1. ExchangeTypeOK'
    BY TimeAssumption DEF StartExchange, IInv, ExchangeTypeOK, StepBound, Phase, Active, Writing, Reading
  <1>2. OffsetInv'
    <2>1. Units(p)' = 2 /\ Units(q)' = Units(q)
      BY <1>0 DEF Units, Active, Writing, Reading
    <2> SUFFICES ASSUME NEW r \in Ends
                 PROVE  /\ phase'[r] \in Active => off'[r] < Units(r)'
                        /\ phase'[r] \in {"idle", "live"} => off'[r] = 0
      BY DEF OffsetInv
    <2>2. CASE r = p
      BY <1>0, <2>1, <2>2
    <2>3. CASE r = q
      BY <1>0, <2>1, <2>3 DEF IInv, OffsetInv
    <2> QED BY <2>2, <2>3, PeerFacts
  <1>3. FlowInv'
    <2>1. /\ Written(p)' = Written(p) /\ Fetched(p)' = Fetched(p)
          /\ Written(q)' = Written(q) /\ Fetched(q)' = Fetched(q)
      BY <1>0 DEF Written, Fetched
    <2> SUFFICES ASSUME phase'[q] # "failed"
                 PROVE  /\ pipe'[q] = Written(p)' - Fetched(q)'
                        /\ pipe'[p] = Written(q)' - Fetched(p)'
      BY <1>0, PeerFacts DEF FlowInv
    <2> QED BY <1>0, <2>1 DEF IInv, FlowInv
  <1>4. TimeInv'
    <2> SUFFICES ASSUME NEW r \in Ends, phase'[r] \in Active
                 PROVE  now' <= bound'[r] /\ bound'[r] <= deadline'[r]
      BY DEF TimeInv
    <2>1. CASE r = p
      BY <2>1, <1>0, TimeAssumption DEF StartExchange, StepBound, IInv, ExchangeTypeOK
    <2>2. CASE r = q
      BY <2>2, <1>0 DEF StartExchange, IInv, ExchangeTypeOK, TimeInv
    <2> QED BY <2>1, <2>2, PeerFacts
  <1>5. LiveInv'
    BY <1>0, PeerFacts DEF IInv, LiveInv
  <1> QED BY <1>1, <1>2, <1>3, <1>4, <1>5 DEF IInv

\* An exchange that fails, by its timeout or because the peer hung up, keeps
\* the invariant.
LEMMA StepFail ==
    ASSUME IInv, NEW p \in Ends, Timeout(p) \/ HangUp(p)
    PROVE  IInv'
  <1>0. /\ phase' = [phase EXCEPT ![p] = "failed"] /\ phase'[p] = "failed"
        /\ off' = off /\ bound' = bound /\ deadline' = deadline
        /\ wait' = wait /\ pipe' = pipe /\ now' = now
    BY DEF Timeout, HangUp, IInv, ExchangeTypeOK
  <1>1. \A r \in Ends : r # p => phase'[r] = phase[r] /\ Units(r)' = Units(r)
    BY <1>0, Zenon DEF IInv, ExchangeTypeOK, Units
  <1>2. ExchangeTypeOK'
    BY <1>0 DEF IInv, ExchangeTypeOK, Phase
  <1>3. OffsetInv' /\ TimeInv'
    BY <1>0, <1>1 DEF IInv, OffsetInv, TimeInv, Active, Writing, Reading
  <1>4. FlowInv'
    BY <1>0, PeerFacts DEF FlowInv
  <1>5. LiveInv'
    BY <1>0, <1>1, PeerFacts DEF IInv, LiveInv
  <1> QED BY <1>2, <1>3, <1>4, <1>5 DEF IInv

\* The passing of time keeps the invariant: no step outlives its bound.
LEMMA StepTick ==
    ASSUME IInv, Tick
    PROVE  IInv'
  <1>0. /\ phase' = phase /\ off' = off /\ bound' = bound /\ deadline' = deadline
        /\ pipe' = pipe /\ now' = now + 1
    BY DEF Tick
  <1>1. ExchangeTypeOK'
    BY DEF Tick, IInv, ExchangeTypeOK
  <1>2. OffsetInv' /\ FlowInv' /\ LiveInv'
    BY <1>0, Zenon DEF IInv, OffsetInv, FlowInv, LiveInv, Units, Written, Fetched
  <1>3. TimeInv'
    BY <1>0 DEF Tick, IInv, ExchangeTypeOK, TimeInv
  <1> QED BY <1>1, <1>2, <1>3 DEF IInv

\* Dialling again starts from the initial state.
LEMMA StepRetry ==
    ASSUME Retry
    PROVE  IInv'
  <1>1. ExchangeInit'
    BY DEF Retry, ExchangeInit
  <1>2. ExchangeInit' => IInv'
    BY InitIInv, PTL
  <1> QED BY <1>1, <1>2

\* Every step of the exchange keeps the invariant.
LEMMA NextIInv == IInv /\ [ExchangeNext]_exchangeVars => IInv'
  <1> SUFFICES ASSUME IInv, [ExchangeNext]_exchangeVars PROVE IInv'
    OBVIOUS
  <1>1. ASSUME NEW p \in Ends, StartExchange(p) PROVE IInv'
    BY <1>1, StepStart
  <1>2. ASSUME NEW p \in Ends, WriteUnit(p) PROVE IInv'
    BY <1>2, StepWriteUnit
  <1>3. ASSUME NEW p \in Ends, ReadUnit(p) PROVE IInv'
    BY <1>3, StepReadUnit
  <1>4. ASSUME NEW p \in Ends, Timeout(p) \/ HangUp(p) PROVE IInv'
    BY <1>4, StepFail
  <1>5. CASE Retry
    BY <1>5, StepRetry
  <1>6. CASE Tick
    BY <1>6, StepTick
  <1>7. CASE UNCHANGED exchangeVars
    BY <1>7, Zenon DEF exchangeVars, IInv, ExchangeTypeOK, OffsetInv, FlowInv, TimeInv, LiveInv, Units, Written, Fetched
  <1> QED BY <1>1, <1>2, <1>3, <1>4, <1>5, <1>6, <1>7 DEF ExchangeNext

\* The invariant holds throughout every exchange and its retries.
THEOREM Invariance == ExchangeSpec => []IInv
  BY InitIInv, NextIInv, PTL DEF ExchangeSpec

\* The exchange of backed.rs keeps the types of its state.
THEOREM ExchangeTypeCorrect == ExchangeSpec => []ExchangeTypeOK
  <1>1. IInv => ExchangeTypeOK
    BY DEF IInv
  <1> QED BY Invariance, <1>1, PTL

\* An actor is inside recover_timed_actor no longer than RECOVER_ABSOLUTE,
\* whatever the peer does, for every idle window, deadline and catch-up size.
THEOREM StallIsBounded == ExchangeSpec => []StallBounded
  <1>1. IInv => StallBounded
    <2> SUFFICES ASSUME IInv, NEW p \in Ends, phase[p] \in Active
                 PROVE  now <= deadline[p]
      BY DEF StallBounded
    <2> QED BY DEF IInv, ExchangeTypeOK, TimeInv
  <1> QED BY Invariance, <1>1, PTL

\* An end goes live only after its peer wrote its whole catch-up.
THEOREM LiveMeansComplete == ExchangeSpec => []LiveIsComplete
  <1>1. IInv => LiveIsComplete
    BY DEF IInv, LiveInv, LiveIsComplete
  <1> QED BY Invariance, <1>1, PTL

\* "Nobody deadlocks", with the condition it needs: one of the two catch-ups
\* fits what a direction of the socket buffers.
THEOREM NoDeadlock ==
    ASSUME NEW small \in Ends, 1 + Body[small] <= CAPACITY
    PROVE  ExchangeSpec => []NobodyDeadlocks
  <1>1. IInv => NobodyDeadlocks
    <2> SUFFICES ASSUME IInv, \A p \in Ends : phase[p] \in Active, \A p \in Ends : ~Ready(p)
                 PROVE  FALSE
      BY DEF NobodyDeadlocks
    <2> DEFINE other == Peer(small)
    <2>1. /\ other \in Ends /\ other # small /\ Peer(other) = small
          /\ Body[small] \in Nat /\ Body[other] \in Nat
          /\ CAPACITY \in Nat /\ CAPACITY >= 2
      BY PeerFacts, BodyAssumption, CapacityAssumption
    <2>2. \A p \in Ends : /\ phase[p] \in Writing => pipe[Peer(p)] >= CAPACITY
                          /\ phase[p] \in Reading => pipe[p] = 0
      BY <2>1, PeerFacts DEF Ready, CanWrite, CanRead, IInv, ExchangeTypeOK, Active, Writing, Reading
    <2>3. \A p \in Ends : /\ off[p] \in Nat /\ off[p] < Units(p)
                          /\ pipe[Peer(p)] = Written(p) - Fetched(Peer(p))
      BY PeerFacts DEF IInv, ExchangeTypeOK, OffsetInv, FlowInv, Active, Writing, Reading
    <2>4. CASE phase[small] \in Writing /\ phase[other] \in Writing
      <3>1. pipe[other] >= CAPACITY /\ pipe[other] = Written(small) - Fetched(other)
        BY <2>1, <2>2, <2>3, <2>4
      <3>2. pipe[small] >= CAPACITY /\ pipe[small] = Written(other) - Fetched(small)
        BY <2>1, <2>2, <2>3, <2>4
      <3>3. off[small] \in Nat /\ off[small] < Units(small)
        BY <2>3
      <3>4. off[other] \in Nat /\ off[other] < Units(other)
        BY <2>1, <2>3
      <3>5. CASE phase[small] = "writeSeq"
        <4>1. Written(small) < 2 /\ Written(small) \in Nat /\ Fetched(other) \in Nat
          BY <3>3, <3>5, <2>1, <2>4 DEF Written, Fetched, Units, Writing
        <4> QED BY <2>1, <3>1, <4>1
      <3>6. CASE phase[small] = "writeCatchup"
        <4>1. Written(small) = 2 + off[small] /\ off[small] < 1 + Body[small] /\ Fetched(small) = 2
          BY <3>3, <3>6 DEF Written, Fetched, Units
        <4>2. CASE phase[other] = "writeSeq"
          <5>1. Written(other) < 2 /\ Written(other) \in Nat
            BY <3>4, <4>2 DEF Written, Units
          <5> QED BY <2>1, <3>2, <4>1, <5>1
        <4>3. CASE phase[other] = "writeCatchup"
          <5>1. Fetched(other) = 2
            BY <4>3 DEF Fetched
          <5> QED BY <2>1, <3>1, <3>3, <4>1, <5>1
        <4> QED BY <2>4, <4>2, <4>3 DEF Writing
      <3> QED BY <2>4, <3>5, <3>6 DEF Writing
    <2>5. CASE phase[small] \in Writing /\ phase[other] \in Reading
      BY <2>1, <2>2, <2>5
    <2>6. CASE phase[small] \in Reading /\ phase[other] \in Writing
      BY <2>1, <2>2, <2>6
    <2>7. CASE phase[small] \in Reading /\ phase[other] \in Reading
      <3>1. Written(small) - Fetched(other) = 0 /\ Written(other) - Fetched(small) = 0
        BY <2>1, <2>2, <2>3, <2>7
      <3>2. /\ off[small] \in Nat /\ off[small] < Units(small)
            /\ off[other] \in Nat /\ off[other] < Units(other)
        BY <2>1, <2>3
      <3> QED BY <2>1, <2>7, <3>1, <3>2 DEF Written, Fetched, Units, Reading
    <2> QED BY <2>1, <2>4, <2>5, <2>6, <2>7 DEF Active
  <1> QED BY Invariance, <1>1, PTL

-----------------------------------------------------------------------------
(* The client and the session on top of it, for any answers of the server, *)
(* any queue depths and any use by the owner: their state stays well typed *)
(* and the terminal event is the last one.                                 *)

\* From here most leaves are first-order; those that need more cite SMT.
USE ZenonT(20)

\* What the supervisor puts on the event channel, and what the owner takes off.
NoDead == \A i \in DOMAIN events : events[i] # "Dead"

\* A packet sent is no terminal event.
LEMMA SendPacket ==
    ASSUME events \in Seq({"Packet", "Dead"}), NoDead, events' = Append(events, "Packet")
    PROVE  NoDead'
  BY SMTT(20) DEF NoDead

\* A terminal event sent is the last one.
LEMMA SendFinal ==
    ASSUME events \in Seq({"Packet", "Dead"}), NoDead, events' = Append(events, "Dead")
    PROVE  \A i \in DOMAIN events' : events'[i] = "Dead" => i = Len(events')
  BY SMTT(20) DEF NoDead

\* Taking an event brings none back.
LEMMA TakeEvent ==
    ASSUME events \in Seq({"Packet", "Dead"}), events # <<>>, events' = Tail(events), DeadIsFinal
    PROVE  /\ \A i \in DOMAIN events' : events'[i] = "Dead" => i = Len(events')
           /\ (\E i \in DOMAIN events' : events'[i] = "Dead") => \E i \in DOMAIN events : events[i] = "Dead"
  <1>1. /\ DOMAIN events = 1 .. Len(events) /\ DOMAIN events' = 1 .. Len(events')
        /\ Len(events) \in Nat /\ Len(events') = Len(events) - 1
        /\ \A i \in DOMAIN events' : events'[i] = events[i + 1]
    BY SMTT(20)
  <1> QED BY <1>1, SMTT(20) DEF DeadIsFinal

-----------------------------------------------------------------------------
(* The client. *)

\* Before the supervisor is spawned nothing is in the channel.
Spawned == sup = "none" => events = <<>>

ClientOK == TypeOK /\ DeadIsFinal /\ Spawned

\* A step that leaves the channel and the supervisor's end alone.
LEMMA ClientQuiet ==
    ASSUME ClientOK, TypeOK', UNCHANGED events,
           sup' = "none" => sup = "none",
           sup \in {"shutdown", "gone"} => sup' \in {"shutdown", "gone"}
    PROVE  ClientOK'
  BY DEF ClientOK, DeadIsFinal, Spawned

\* A step of the actor keeps the client's invariant.
LEMMA ActorOK ==
    ASSUME ClientOK, Actor
    PROVE  ClientOK'
  <1> USE DEF ClientOK
  <1>1. CASE ActorPacket
    <2>1. backed_events' \in Seq(BackedEvent)
      BY <1>1, SMTT(20) DEF ActorPacket, TypeOK, BackedEvent
    <2> QED BY <1>1, <2>1, ClientQuiet DEF ActorPacket, TypeOK
  <1>2. CASE ActorLosesSocket
    BY <1>2, ClientQuiet DEF ActorLosesSocket, TypeOK
  <1>3. CASE ActorAnnounces
    <2>1. backed_events' \in Seq(BackedEvent)
      BY <1>3, SMTT(20) DEF ActorAnnounces, TypeOK, BackedEvent
    <2> QED BY <1>3, <2>1, ClientQuiet DEF ActorAnnounces, TypeOK
  <1>4. ASSUME NEW e \in BackedEvent, ActorEnds(e) PROVE ClientOK'
    <2>1. backed_events' \in Seq(BackedEvent)
      BY <1>4, SMTT(20) DEF ActorEnds, TypeOK
    <2> QED BY <1>4, <2>1, ClientQuiet DEF ActorEnds, TypeOK
  <1>5. "Shutdown" \in BackedEvent /\ "CryptoMismatch" \in BackedEvent
    BY DEF BackedEvent
  <1> QED BY <1>1, <1>2, <1>3, <1>4, <1>5 DEF Actor, ActorShutdown, ActorMismatch

\* A supervisor that returns is gone, and adds no handle.
LEMMA ReturnOK ==
    ASSUME TypeOK, Return
    PROVE  sup' = "gone" /\ handles' \subseteq {"owner", "supervisor"}
  BY DEF TypeOK, Return

\* A step of the supervisor keeps the client's invariant.
LEMMA SupervisorOK ==
    ASSUME ClientOK, Supervisor
    PROVE  ClientOK'
  <1> USE DEF ClientOK
  <1>0. "gone" \in Sup /\ events \in Seq({"Packet", "Dead"}) /\ handles \subseteq {"owner", "supervisor"}
    BY DEF Sup, TypeOK
  <1>1. CASE Receive
    <2>1. CASE Return /\ UNCHANGED <<reason, backed_events>>
      BY <1>0, <1>1, <2>1, ReturnOK, ClientQuiet DEF Receive, TypeOK
    <2>2. CASE /\ backed_events # <<>> /\ backed_events' = Tail(backed_events) /\ UNCHANGED handles
               /\ \/ sup' \in {"forward", "dial"} /\ UNCHANGED reason
                  \/ /\ Head(backed_events) \in {"Shutdown", "CryptoMismatch"}
                     /\ sup' = "report" /\ reason' = Head(backed_events)
      <3>1. backed_events' \in Seq(BackedEvent) /\ Head(backed_events) \in BackedEvent
        BY <2>2, SMTT(20) DEF TypeOK
      <3>2. sup' \in {"forward", "dial", "report"}
        BY <2>2
      <3>4. reason' \in Reason
        BY <2>2 DEF TypeOK, Reason
      <3>5. sup' \in Sup /\ sup' # "none"
        BY <3>2 DEF Sup
      <3>6. sup \notin {"shutdown", "gone"}
        BY <1>1 DEF Receive
      <3>7. UNCHANGED <<client, actor, announce, stop, events>>
        BY <1>1 DEF Receive
      <3>8. TypeOK'
        BY <1>0, <2>2, <3>1, <3>4, <3>5, <3>7 DEF TypeOK
      <3> QED BY <3>5, <3>6, <3>7, <3>8, ClientQuiet
    <2> QED BY <1>1, <2>1, <2>2 DEF Receive
  <1>2. CASE Forward
    <2>1. CASE Return /\ UNCHANGED events
      BY <1>0, <1>2, <2>1, ReturnOK, ClientQuiet DEF Forward, TypeOK
    <2>2. CASE events' = Append(events, "Packet") /\ sup' = "recv" /\ UNCHANGED handles
      <3>1. events' \in Seq({"Packet", "Dead"}) /\ sup' \in Sup
        BY <1>0, <2>2, SMTT(20) DEF Sup
      <3>2. NoDead
        BY <1>2 DEF Forward, DeadIsFinal, NoDead
      <3>3. NoDead'
        BY <1>0, <2>2, <3>2, SendPacket
      <3>4. TypeOK'
        BY <1>2, <2>2, <3>1 DEF Forward, TypeOK
      <3> QED BY <2>2, <3>3, <3>4 DEF DeadIsFinal, NoDead, Spawned
    <2> QED BY <1>2, <2>1, <2>2 DEF Forward
  <1>3. CASE Dial
    <2>1. CASE Return /\ UNCHANGED reason
      BY <1>0, <1>3, <2>1, ReturnOK, ClientQuiet DEF Dial, TypeOK
    <2>2. CASE ~Closed /\ UNCHANGED handles
      <3>1. PICK answer \in Answer :
               CASE answer = "Returning" -> sup' = "recover" /\ UNCHANGED reason
                 [] answer = "NewClient" -> sup' = "report" /\ reason' = "ServerStateLost"
                 [] answer = "InvalidKey" -> sup' = "report" /\ reason' = "InvalidKey"
                 [] answer = "Error" -> sup' = "sleep" /\ UNCHANGED reason
        BY <1>3, <2>2, AnswersAssumption DEF Dial
      <3>2. sup' \in {"recover", "report", "sleep"} /\ reason' \in {reason, "ServerStateLost", "InvalidKey"}
        BY <3>1 DEF Answer
      <3>3. sup' \in Sup /\ sup' # "none" /\ reason' \in Reason
        BY <3>2 DEF Sup, Reason, TypeOK
      <3>4. sup \notin {"shutdown", "gone"}
        BY <1>3 DEF Dial
      <3>5. TypeOK'
        BY <1>3, <2>2, <3>3 DEF Dial, TypeOK
      <3>6. UNCHANGED events
        BY <1>3 DEF Dial
      <3> QED BY <3>3, <3>4, <3>5, <3>6, ClientQuiet
    <2> QED BY <1>3, <2>1, <2>2 DEF Dial
  <1>4. CASE Recover \/ Sleep
    <2>1. sup' \in Sup /\ sup' # "none" /\ sup \notin {"shutdown", "gone"}
      BY <1>4 DEF Recover, Sleep, Sup
    <2>2. actor' \in {"none", "up", "down", "gone"}
      BY <1>4 DEF Recover, Sleep, TypeOK
    <2>3. UNCHANGED <<client, reason, announce, stop, handles, backed_events, events>>
      BY <1>4 DEF Recover, Sleep
    <2>4. TypeOK'
      BY <2>1, <2>2, <2>3 DEF TypeOK
    <2> QED BY <2>1, <2>3, <2>4, ClientQuiet
  <1>5. CASE Report
    <2>1. sup' \in {"shutdown", "gone"} /\ handles' \subseteq {"owner", "supervisor"}
      BY <1>0, <1>5 DEF Report, Reported, Return
    <2>2. sup' \in Sup
      BY <2>1 DEF Sup
    <2>3. events' = events \/ events' = Append(events, "Dead")
      BY <1>5 DEF Report, Final
    <2>4. events' \in Seq({"Packet", "Dead"})
      BY <1>0, <2>3, SMTT(20)
    <2>5. NoDead
      BY <1>5 DEF Report, DeadIsFinal, NoDead
    <2>6. \A i \in DOMAIN events' : events'[i] = "Dead" => i = Len(events')
      BY <1>0, <2>3, <2>5, SendFinal DEF NoDead
    <2>7. TypeOK'
      BY <1>5, <2>1, <2>2, <2>4 DEF Report, TypeOK
    <2> QED BY <2>1, <2>6, <2>7 DEF DeadIsFinal, Spawned
  <1>6. CASE SupShutdown
    <2>1. sup' = "gone" /\ handles' \subseteq {"owner", "supervisor"}
      BY <1>6, ReturnOK DEF SupShutdown
    <2>2. TypeOK'
      BY <1>0, <1>6, <2>1 DEF SupShutdown, TypeOK
    <2> QED BY <1>6, <2>1, <2>2, ClientQuiet DEF SupShutdown
  <1> QED BY <1>1, <1>2, <1>3, <1>4, <1>5, <1>6 DEF Supervisor

\* The owner takes an event, finds the channel at its end, shuts the session down
\* or drops it.
LEMMA OwnerOK ==
    ASSUME ClientOK, NextEvent \/ Taken \/ Shutdown \/ DropClient
    PROVE  ClientOK'
  <1> USE DEF ClientOK
  <1>0. events \in Seq({"Packet", "Dead"}) /\ handles \subseteq {"owner", "supervisor"}
    BY DEF TypeOK
  <1>1. CASE events # <<>> /\ events' = Tail(events)
             /\ UNCHANGED <<client, sup, reason, actor, announce, stop, handles, backed_events>>
    <2>1. events' \in Seq({"Packet", "Dead"})
      BY <1>0, <1>1, SMTT(20)
    <2>2. TypeOK'
      BY <1>1, <2>1 DEF TypeOK
    <2>3. DeadIsFinal'
      BY <1>0, <1>1, TakeEvent DEF DeadIsFinal
    <2> QED BY <1>1, <2>2, <2>3 DEF Spawned
  <1>2. CASE client' = "ended" /\ UNCHANGED <<events, sup, reason, actor, announce, stop, handles, backed_events>>
    <2>1. TypeOK'
      BY <1>2 DEF TypeOK
    <2> QED BY <1>2, <2>1, ClientQuiet
  <1>3. CASE Shutdown
    <2>1. TypeOK'
      BY <1>3 DEF Shutdown, TypeOK
    <2> QED BY <1>3, <2>1, ClientQuiet DEF Shutdown
  <1>4. CASE DropClient
    <2>1. events' = <<>> /\ client' = "dropped" /\ handles' \subseteq {"owner", "supervisor"}
          /\ UNCHANGED <<sup, reason, actor, announce, stop, backed_events>>
      BY <1>0, <1>4 DEF DropClient
    <2>2. events' \in Seq({"Packet", "Dead"}) /\ DOMAIN events' = {}
      BY <2>1, SMTT(20)
    <2>3. TypeOK'
      BY <2>1, <2>2 DEF TypeOK
    <2> QED BY <2>1, <2>2, <2>3 DEF DeadIsFinal, Spawned
  <1> QED BY <1>1, <1>2, <1>3, <1>4 DEF NextEvent, Taken

\* A connect starts the supervisor on an empty channel, or fails.
LEMMA ConnectOK ==
    ASSUME ClientOK, sup = "none", NEW answer \in Answers, Connect(answer)
    PROVE  ClientOK'
  <1> USE DEF ClientOK
  <1>1. events' = <<>> /\ UNCHANGED <<reason, announce, stop, backed_events, events>>
    BY DEF Connect, Spawned
  <1>2. /\ client' \in {"connecting", "open", "failed", "ended", "dropped"}
        /\ sup' \in Sup /\ actor' \in {"none", "up", "down", "gone"}
        /\ handles' \subseteq {"owner", "supervisor"}
    BY DEF Connect, TypeOK, Sup
  <1>3. TypeOK'
    BY <1>1, <1>2 DEF TypeOK
  <1>4. DOMAIN events' = {}
    BY <1>1, SMTT(20)
  <1> QED BY <1>1, <1>3, <1>4 DEF DeadIsFinal, Spawned

\* The client's invariant holds at the start.
LEMMA InitClient == Init => ClientOK
  <1> SUFFICES ASSUME Init PROVE ClientOK
    OBVIOUS
  <1>1. /\ client \in {"connecting", "open", "failed", "ended", "dropped"} /\ sup \in Sup
        /\ reason \in Reason /\ actor \in {"none", "up", "down", "gone"}
        /\ handles \subseteq {"owner", "supervisor"}
    BY DEF Init, Sup, Reason
  <1>2. announce \in BOOLEAN /\ stop \in BOOLEAN
    BY DEF Init
  <1>3. /\ backed_events \in Seq(BackedEvent) /\ events \in Seq({"Packet", "Dead"})
        /\ events = <<>> /\ DOMAIN events = {}
    BY SMTT(20) DEF Init
  <1>4. TypeOK
    BY <1>1, <1>2, <1>3 DEF TypeOK
  <1> QED BY <1>3, <1>4 DEF ClientOK, DeadIsFinal, Spawned

ClientStart == ClientOK /\ (client = "connecting" => sup = "none")

\* The client's invariant holds throughout.
LEMMA SpecClient == Spec => []ClientOK
  <1>1. Init => ClientStart
    BY InitClient DEF ClientStart, Init
  <1>2. ClientStart /\ [Next]_vars => ClientStart'
    <2> SUFFICES ASSUME ClientStart, [Next]_vars PROVE ClientStart'
      OBVIOUS
    <2>1. ASSUME NEW answer \in Answers, Connect(answer) PROVE ClientStart'
      <3>1. sup = "none" /\ client' # "connecting"
        BY <2>1 DEF ClientStart, Connect
      <3> QED BY <2>1, <3>1, ConnectOK DEF ClientStart
    <2>2. CASE Actor
      <3>1. UNCHANGED <<client, sup>>
        BY <2>2 DEF Actor, ActorPacket, ActorLosesSocket, ActorAnnounces, ActorShutdown,
                    ActorMismatch, ActorEnds
      <3> QED BY <2>2, <3>1, ActorOK DEF ClientStart
    <2>3. CASE Supervisor
      <3>1. sup # "none" /\ UNCHANGED client
        BY <2>3 DEF Supervisor, Receive, Forward, Dial, Recover, Sleep, Report, SupShutdown
      <3> QED BY <2>3, <3>1, SupervisorOK DEF ClientStart
    <2>4. CASE NextEvent \/ Shutdown \/ DropClient
      <3>1. client' # "connecting"
        BY <2>4 DEF NextEvent, Shutdown, DropClient
      <3> QED BY <2>4, <3>1, OwnerOK DEF ClientStart
    <2>5. CASE UNCHANGED vars
      BY <2>5 DEF vars, ClientStart, ClientOK, TypeOK, DeadIsFinal, Spawned
    <2> QED BY <2>1, <2>2, <2>3, <2>4, <2>5 DEF Next, Drop
  <1> QED BY <1>1, <1>2, PTL DEF Spec, ClientStart

\* The client's event channel ends with its one terminal event, which the
\* supervisor sends from three places: after it nothing is sent, whatever the
\* server answers and whenever the owner shuts down or drops the client.
THEOREM TerminalEventIsLast == Spec => []DeadIsFinal
  BY SpecClient, PTL DEF ClientOK

-----------------------------------------------------------------------------
(* The session. *)

\* start() dials a client that has no supervisor yet.
GateOK == gate \in {"connect", "sleep"} => sup = "none"

PumpTypes ==
    /\ gate \in {"connect", "sleep", "payload", "response", "open", "failed"}
    /\ retries \in 0 .. MaxRetries
    /\ pump \in {"idle", "write", "deliver", "deliver_write"}
    /\ engine \in {"none", "stopped"} \cup Running

QueueTypes == inbound \in 0 .. INBOUND_QUEUE_DEPTH /\ outbound \in 0 .. OUTBOUND_QUEUE_DEPTH

SessionInv == ClientOK /\ GateOK /\ PumpTypes /\ QueueTypes /\ halt \in BOOLEAN

\* The session's invariant holds at the start.
LEMMA InitSession == SessionInit => SessionInv
  <1> SUFFICES ASSUME SessionInit PROVE SessionInv
    OBVIOUS
  <1>1. ClientOK
    BY InitClient DEF SessionInit
  <1>2. GateOK
    BY DEF SessionInit, Init, GateOK
  <1>3. PumpTypes /\ QueueTypes
    BY SessionAssumption, SMTT(20) DEF SessionInit, PumpTypes, QueueTypes
  <1>4. halt \in BOOLEAN
    BY DEF SessionInit
  <1> QED BY <1>1, <1>2, <1>3, <1>4 DEF SessionInv

\* start().
LEMMA StartOK ==
    ASSUME SessionInv,
           StartConnect \/ StartSleep \/ StartWrite \/ StartReceive \/ StartRefused
           \/ StartEnded \/ StartTimeout
    PROVE  SessionInv'
  <1> USE DEF SessionInv
  <1>1. CASE StartConnect
    <2>1. PICK answer \in Answers :
             /\ Connect(answer)
             /\ gate' \in IF answer = "NewClient" THEN {"payload"} ELSE AfterRefusal(answer)
             /\ retries' = IF gate' = "sleep" /\ retries < MaxRetries THEN retries + 1 ELSE retries
      BY <1>1 DEF StartConnect
    <2>2. sup = "none"
      BY <1>1 DEF StartConnect, GateOK
    <2>3. ClientOK'
      BY <2>1, <2>2, ConnectOK
    <2>4. GateOK'
      BY <2>1, <2>2 DEF GateOK, Connect, AfterRefusal
    <2>5. PumpTypes' /\ QueueTypes'
      <3>1. gate' \in {"payload", "sleep", "failed"}
        BY <2>1 DEF AfterRefusal
      <3>2. retries' \in 0 .. MaxRetries
        BY <2>1, SessionAssumption, SMTT(20) DEF PumpTypes
      <3> QED BY <1>1, <3>1, <3>2 DEF StartConnect, engine_vars, PumpTypes, QueueTypes
    <2>6. halt' \in BOOLEAN
      BY <1>1 DEF StartConnect, engine_vars
    <2> QED BY <2>3, <2>4, <2>5, <2>6
  <1>2. CASE StartSleep
    <2>1. UNCHANGED <<sup, reason, actor, announce, stop, handles, backed_events, events,
                      retries, pump, engine, halt, inbound, outbound>>
          /\ gate' = "connect" /\ client' = "connecting" /\ gate = "sleep"
      BY <1>2 DEF StartSleep, engine_vars
    <2>2. TypeOK'
      BY <2>1 DEF ClientOK, TypeOK
    <2>3. ClientOK'
      BY <2>1, <2>2, ClientQuiet
    <2>4. GateOK' /\ PumpTypes' /\ QueueTypes'
      BY <2>1 DEF GateOK, PumpTypes, QueueTypes
    <2>5. halt' \in BOOLEAN
      BY <2>1
    <2> QED BY <2>3, <2>4, <2>5
  <1>3. CASE StartFails
    <2>1. ClientOK'
      BY <1>3, OwnerOK DEF StartFails
    <2>2. GateOK' /\ PumpTypes' /\ QueueTypes'
      BY <1>3 DEF StartFails, engine_vars, GateOK, PumpTypes, QueueTypes
    <2>3. halt' \in BOOLEAN
      BY <1>3 DEF StartFails, engine_vars
    <2> QED BY <2>1, <2>2, <2>3
  <1>4. CASE gate' = "response" /\ UNCHANGED <<vars, retries, pump, engine_vars>>
    <2>1. ClientOK'
      BY <1>4 DEF vars, ClientOK, TypeOK, DeadIsFinal, Spawned
    <2>2. GateOK' /\ PumpTypes' /\ QueueTypes'
      BY <1>4 DEF engine_vars, GateOK, PumpTypes, QueueTypes
    <2>3. halt' \in BOOLEAN
      BY <1>4 DEF engine_vars
    <2> QED BY <2>1, <2>2, <2>3
  <1>5. CASE StartReceive
    <2>1. ClientOK'
      BY <1>5, OwnerOK DEF StartReceive
    <2>2. gate' \in {"response", "open"} /\ engine' \in {engine, "none", "select"}
      BY <1>5 DEF StartReceive
    <2>3. GateOK' /\ PumpTypes' /\ QueueTypes'
      BY <1>5, <2>2 DEF StartReceive, GateOK, PumpTypes, QueueTypes, Running
    <2>4. halt' \in BOOLEAN
      BY <1>5 DEF StartReceive
    <2> QED BY <2>1, <2>3, <2>4
  <1> QED BY <1>1, <1>2, <1>3, <1>4, <1>5 DEF StartWrite, StartRefused, StartEnded, StartTimeout

\* The engine, and the parts of the pump that leave the client alone.
LEMMA EngineOK ==
    ASSUME SessionInv,
           \/ EngineTake \/ EngineEvent \/ EngineSend \/ EngineLocal \/ EngineStop
           \/ PumpFrame \/ SendInput \/ WriteDone \/ Deliver \/ DeliverTick \/ StartForwarding
    PROVE  SessionInv'
  <1> USE DEF SessionInv
  <1>1. UNCHANGED <<vars, gate, retries, halt>>
    BY DEF EngineTake, EngineEvent, EngineSend, EngineLocal, EngineStop, PumpFrame, SendInput,
           WriteDone, Deliver, DeliverTick, StartForwarding, client_vars, gate_vars, engine_vars
  <1>2. ClientOK' /\ GateOK'
    BY <1>1 DEF vars, ClientOK, TypeOK, DeadIsFinal, Spawned, GateOK
  <1>3. halt' \in BOOLEAN
    BY <1>1
  <1>4. engine' \in {"none", "stopped"} \cup Running
    BY DEF EngineTake, EngineEvent, EngineSend, EngineLocal, EngineStop, PumpFrame, SendInput,
           WriteDone, Deliver, DeliverTick, StartForwarding, engine_vars, PumpTypes, Running
  <1>5. pump' \in {"idle", "write", "deliver", "deliver_write"}
    BY DEF EngineTake, EngineEvent, EngineSend, EngineLocal, EngineStop, PumpFrame, SendInput,
           WriteDone, Deliver, DeliverTick, StartForwarding, PumpTypes
  <1>6. QueueTypes'
    BY SessionAssumption, SMTT(20)
       DEF EngineTake, EngineEvent, EngineSend, EngineLocal, EngineStop, PumpFrame, SendInput,
           WriteDone, Deliver, DeliverTick, StartForwarding, engine_vars, QueueTypes
  <1> QED BY <1>1, <1>2, <1>3, <1>4, <1>5, <1>6 DEF PumpTypes

\* The pump takes an event, or the session is shut down or dropped, or a task of
\* the client runs.
LEMMA PumpOK ==
    ASSUME SessionInv,
           PumpEvent \/ PumpNone \/ SessionShutdown \/ DropSession \/ ClientStep
    PROVE  SessionInv'
  <1> USE DEF SessionInv
  <1>1. ClientOK'
    BY OwnerOK, ActorOK, SupervisorOK
       DEF PumpEvent, PumpNone, SessionShutdown, DropSession, Drop, ClientStep
  <1>2. UNCHANGED <<gate, retries, engine, inbound>>
    BY DEF PumpEvent, PumpNone, SessionShutdown, DropSession, ClientStep, gate_vars, engine_vars
  <1>3. sup = "none" => sup' = "none"
    <2>1. CASE ClientStep
      BY <2>1 DEF ClientStep, Actor, ActorPacket, ActorLosesSocket, ActorAnnounces, ActorShutdown,
                  ActorMismatch, ActorEnds, Supervisor, Receive, Forward, Dial, Recover, Sleep,
                  Report, SupShutdown
    <2>2. CASE PumpEvent \/ PumpNone \/ SessionShutdown \/ DropSession
      BY <2>2 DEF PumpEvent, Taken, PumpNone, NextEvent, SessionShutdown, Shutdown, DropSession,
                  Drop, DropClient
    <2> QED BY <2>1, <2>2
  <1>4. pump' \in {pump, "idle", "deliver"} /\ outbound' \in {outbound, 0}
    BY DEF PumpEvent, PumpNone, SessionShutdown, DropSession, ClientStep, engine_vars
  <1>5. PumpTypes' /\ QueueTypes'
    BY <1>2, <1>4, SessionAssumption, SMTT(20) DEF PumpTypes, QueueTypes
  <1>6. halt' = halt \/ halt' = (engine # "none")
    BY DEF PumpEvent, PumpNone, SessionShutdown, DropSession, ClientStep, engine_vars
  <1>7. halt' \in BOOLEAN
    BY <1>6
  <1> QED BY <1>1, <1>2, <1>3, <1>5, <1>7 DEF GateOK

\* The session's invariant holds throughout.
LEMMA SpecSession == SessionSpec => []SessionInv
  <1>1. SessionInv /\ [SessionNext]_session_vars => SessionInv'
    <2> SUFFICES ASSUME SessionInv, [SessionNext]_session_vars PROVE SessionInv'
      OBVIOUS
    <2>1. CASE UNCHANGED session_vars
      <3>1. ClientOK' /\ GateOK'
        BY <2>1 DEF session_vars, vars, SessionInv, ClientOK, TypeOK, DeadIsFinal, Spawned, GateOK
      <3>2. PumpTypes' /\ QueueTypes'
        BY <2>1 DEF session_vars, SessionInv, PumpTypes, QueueTypes
      <3>3. halt' \in BOOLEAN
        BY <2>1 DEF session_vars, SessionInv
      <3> QED BY <3>1, <3>2, <3>3 DEF SessionInv
    <2> QED BY <2>1, StartOK, EngineOK, PumpOK DEF SessionNext
  <1> QED BY InitSession, <1>1, PTL DEF SessionSpec

\* The session's state stays well typed: retries and both queues to the engine
\* keep to their limits wherever the pump is cancelled.
THEOREM SessionTypeCorrect == SessionSpec => []SessionTypeOK
  <1>1. SessionInv => SessionTypeOK
    BY DEF SessionInv, ClientOK, PumpTypes, QueueTypes, SessionTypeOK
  <1> QED BY SpecSession, <1>1, PTL

\* In a session, too, the terminal event is the last one the client's supervisor
\* sends, also across the retries of start().
THEOREM SessionTerminalEventIsLast == SessionSpec => []DeadIsFinal
  BY SpecSession, PTL DEF SessionInv, ClientOK

-----------------------------------------------------------------------------
(* The life of a port-forward engine, for any number of handles, sources   *)
(* and shutdown() calls and any queue depths: the state stays well typed,  *)
(* and add_sources reports as bound only what is.                          *)

\* The count of handles follows a handle that is cloned or dropped.
LEMMA HoldersFinite == IsFiniteSet(Holders)
  <1>1. Holders \in SUBSET Handles
    BY DEF Holders
  <1> QED BY <1>1, FS_Subset, EngineAssumption

\* A clone is counted.
LEMMA HoldersGain ==
    ASSUME user \in [Handles -> User], NEW g \in Handles, g \notin Holders,
           NEW u \in {"live", "shutdown", "add"}, user' = [user EXCEPT ![g] = u]
    PROVE  Cardinality(Holders') = Cardinality(Holders) + 1
  <1>1. Holders' = Holders \cup {g}
    BY DEF Holders
  <1> QED BY <1>1, HoldersFinite, FS_AddElement

\* A dropped handle is no longer counted.
LEMMA HoldersLose ==
    ASSUME user \in [Handles -> User], NEW g \in Holders,
           NEW u \in User \ {"live", "shutdown", "add"}, user' = [user EXCEPT ![g] = u]
    PROVE  Cardinality(Holders') = Cardinality(Holders) - 1
  <1>1. Holders' = Holders \ {g}
    BY DEF Holders
  <1> QED BY <1>1, HoldersFinite, FS_RemoveElement

\* A call in progress does not change the count.
LEMMA HoldersStay ==
    ASSUME user \in [Handles -> User], NEW g \in Handles, NEW u \in User,
           g \in Holders <=> u \in {"live", "shutdown", "add"},
           user' = [user EXCEPT ![g] = u]
    PROVE  Cardinality(Holders') = Cardinality(Holders)
  <1>1. Holders' = Holders
    BY DEF Holders
  <1> QED BY <1>1

\* As long as somebody holds a handle the count is not zero.
LEMMA HolderCounts ==
    ASSUME NEW h \in Holders
    PROVE  Cardinality(Holders) \in Nat \ {0}
  BY HoldersFinite, FS_CardinalityType, FS_EmptySet

-----------------------------------------------------------------------------
(* The invariant. *)

\* The engine's invariant holds at the start.
LEMMA InitEngine == EngineInit => EngineInv
  <1> SUFFICES ASSUME EngineInit PROVE EngineInv
    OBVIOUS
  <1>1. user \in [Handles -> User]
    BY DEF EngineInit, User
  <1>2. handle_count = Cardinality(Holders)
    <2>1. Holders = {First}
      BY EngineAssumption DEF EngineInit, Holders
    <2> QED BY <2>1, FS_Singleton DEF EngineInit
  <1>3. Queue
    BY EngineAssumption, SMTT(20) DEF EngineInit, Queue
  <1>4. Listeners
    BY EngineAssumption, SMTT(20) DEF EngineInit, Listeners, Sources, Task
  <1>5. Watch
    <2>1. raised \in BOOLEAN
      BY DEF EngineInit
    <2> QED BY <2>1, EngineAssumption, SMTT(20) DEF EngineInit, Watch, DropRaised
  <1>6. Bound
    BY DEF EngineInit, Bound
  <1> QED BY <1>1, <1>2, <1>3, <1>4, <1>5, <1>6 DEF EngineInv

\* A step that leaves the handles, the watch and the queues alone keeps what is
\* said of them.
LEMMA WatchSame ==
    ASSUME Watch, UNCHANGED <<handle_count, raised, version, seen>>,
           \A h \in Handles : user'[h] = "last" <=> user[h] = "last",
           loop' = "stopped" <=> loop = "stopped"
    PROVE  Watch'
  <1>1. DropRaised' <=> DropRaised
    BY DEF DropRaised
  <1>2. raised' \in BOOLEAN
    BY DEF Watch
  <1> QED BY <1>1, <1>2 DEF Watch

\* What was reported without error is still served, if no listener stopped without a
\* shutdown.
LEMMA BoundSame ==
    ASSUME Bound, Listeners, UNCHANGED raised,
           loop' = "stopped" => loop = "stopped",
           \A h \in Adders : reply'[h] = "noerror" \/ result'[h] = "noerror"
                             => reply[h] = "noerror" \/ result[h] = "noerror" \/ task'[h].at \in Served,
           \A h \in Adders : task[h].at \in Served => task'[h].at \in Served \/ raised
    PROVE  Bound'
  BY DEF Bound

\* Clones and drops of a handle, and the calls on it.
LEMMA NextHandle ==
    ASSUME EngineInv, NEW h \in Handles,
           \/ \E g \in Handles : Clone(h, g)
           \/ DropCount(h) \/ DropFields(h) \/ ShutdownRaise(h) \/ ShutdownQueue(h)
    PROVE  EngineInv'
  <1> USE DEF EngineInv
  <1>0. h \in Holders => handle_count \in Nat \ {0}
    BY HolderCounts
  <1>1. ASSUME NEW g \in Handles, Clone(h, g) PROVE EngineInv'
    <2>1. user' \in [Handles -> User]
      BY <1>1 DEF Clone, User
    <2>2. handle_count' = Cardinality(Holders')
      <3>1. g \notin Holders
        BY <1>1 DEF Clone, Holders
      <3> QED BY <1>1, <3>1, HoldersGain DEF Clone
    <2>3. Queue' /\ Listeners' /\ Bound'
      BY <1>1 DEF Clone, Queue, Listeners, Bound
    <2>4. Watch'
      <3>1. handle_count \in Nat \ {0}
        BY <1>0, <1>1 DEF Clone, Holders
      <3>2. handle_count' \in Nat \ {0}
        BY <1>1, <3>1, SMTT(20) DEF Clone
      <3>3. ~DropRaised /\ ~DropRaised'
        BY <3>1, <3>2 DEF DropRaised
      <3>4. \A f \in Handles : user'[f] # "last"
        BY <1>1, <3>1 DEF Clone, Watch
      <3>5. raised' \in BOOLEAN
        BY <1>1 DEF Clone, Watch
      <3> QED BY <1>1, <3>3, <3>4, <3>5 DEF Clone, Watch
    <2> QED BY <2>1, <2>2, <2>3, <2>4
  <1>2. CASE DropCount(h)
    <2>1. handle_count \in Nat \ {0}
      BY <1>0, <1>2 DEF DropCount, Holders
    <2>2. PICK u \in {"last", "other"} : user' = [user EXCEPT ![h] = u] /\ (u = "last" <=> Last)
      BY <1>2 DEF DropCount
    <2>3. user' \in [Handles -> User]
      BY <2>2 DEF User
    <2>4. handle_count' = Cardinality(Holders')
      <3>1. h \in Holders /\ u \in User \ {"live", "shutdown", "add"}
        BY <1>2 DEF DropCount, Holders, User
      <3> QED BY <1>2, <2>2, <3>1, HoldersLose DEF DropCount
    <2>5. Queue' /\ Listeners' /\ Bound'
      BY <1>2 DEF DropCount, Queue, Listeners, Bound
    <2>6. Watch'
      <3>1. \A f \in Handles : user[f] # "last"
        BY <2>1 DEF Watch
      <3>2. ~DropRaised
        BY <2>1 DEF DropRaised
      <3>3. handle_count' = 0 <=> u = "last"
        BY <1>2, <2>1, <2>2, SMTT(20) DEF DropCount, Last
      <3>4. \A f \in Handles : user'[f] = "last" => f = h /\ u = "last"
        BY <2>2, <3>1
      <3>5. u = "last" => user'[h] = "last"
        BY <2>2
      <3>6. ~DropRaised'
        BY <3>3, <3>5 DEF DropRaised
      <3>7. raised' \in BOOLEAN
        BY <1>2 DEF DropCount, Watch
      <3> QED BY <1>2, <3>2, <3>3, <3>4, <3>6, <3>7 DEF DropCount, Watch
    <2> QED BY <2>3, <2>4, <2>5, <2>6
  <1>3. CASE DropFields(h)
    <2>1. user' \in [Handles -> User]
      BY <1>3 DEF DropFields, User
    <2>2. handle_count' = Cardinality(Holders')
      <3>1. h \notin Holders /\ "gone" \in User /\ "gone" \notin {"live", "shutdown", "add"}
        BY <1>3 DEF DropFields, Holders, User
      <3> QED BY <1>3, <3>1, HoldersStay DEF DropFields
    <2>3. version' \in Nat /\ version' >= version /\ (raised => raised')
      BY <1>3, SMTT(20) DEF DropFields, Raise, Watch
    <2>4. Queue' /\ Listeners'
      BY <1>3, <2>3, SMTT(20) DEF DropFields, Queue, Listeners, Watch
    <2>5. Bound'
      BY <1>3, <2>3 DEF DropFields, Bound
    <2>6. Watch'
      <3>1. CASE user[h] = "last"
        <4>1. handle_count = 0 /\ \A f \in Handles : user[f] = "last" => f = h
          BY <3>1 DEF Watch
        <4>2. \A f \in Handles : user'[f] # "last"
          BY <1>3, <4>1 DEF DropFields
        <4>3. ~DropRaised /\ DropRaised'
          BY <1>3, <3>1, <4>1, <4>2 DEF DropFields, DropRaised
        <4>4. raised' \in BOOLEAN
          BY <1>3, <3>1 DEF DropFields, Raise
        <4>5. version' = version + 1 /\ seen' = seen /\ loop' = loop
          BY <1>3, <3>1 DEF DropFields, Raise
        <4> QED BY <4>2, <4>3, <4>4, <4>5, EngineAssumption, SMTT(20) DEF Watch
      <3>2. CASE user[h] # "last"
        <4>1. \A f \in Handles : user'[f] = "last" <=> user[f] = "last"
          BY <1>3, <3>2 DEF DropFields
        <4> QED BY <1>3, <3>2, <4>1, WatchSame DEF DropFields
      <3> QED BY <3>1, <3>2
    <2> QED BY <2>1, <2>2, <2>4, <2>5, <2>6
  <1>4. CASE ShutdownRaise(h)
    <2>1. user' \in [Handles -> User]
      BY <1>4 DEF ShutdownRaise, User
    <2>2. handle_count' = Cardinality(Holders')
      <3>1. h \in Holders /\ "shutdown" \in User /\ "shutdown" \in {"live", "shutdown", "add"}
        BY <1>4 DEF ShutdownRaise, Holders, User
      <3> QED BY <1>4, <3>1, HoldersStay DEF ShutdownRaise
    <2>3. version \in Nat /\ version' = version + 1 /\ raised' = TRUE /\ version < MaxRaises
      BY <1>4 DEF ShutdownRaise, Raise, Watch
    <2>4. Queue' /\ Listeners'
      BY <1>4, <2>3, SMTT(20) DEF ShutdownRaise, Queue, Listeners
    <2>5. Bound'
      BY <1>4, <2>3 DEF ShutdownRaise, Bound
    <2>6. Watch'
      <3>1. \A f \in Handles : user'[f] = "last" <=> user[f] = "last"
        BY <1>4 DEF ShutdownRaise
      <3>2. raised' \in BOOLEAN
        BY <2>3
      <3>3. handle_count' = handle_count /\ seen' = seen /\ version' <= MaxRaises
        BY <1>4, <2>3, EngineAssumption, SMTT(20) DEF ShutdownRaise
      <3> QED BY <2>3, <3>1, <3>2, <3>3, EngineAssumption, SMTT(20) DEF Watch
    <2> QED BY <2>1, <2>2, <2>4, <2>5, <2>6
  <1>5. CASE ShutdownQueue(h)
    <2>1. user' \in [Handles -> User]
      BY <1>5 DEF ShutdownQueue, User
    <2>2. handle_count' = Cardinality(Holders')
      <3>1. h \in Holders /\ "live" \in User /\ "live" \in {"live", "shutdown", "add"}
        BY <1>5 DEF ShutdownQueue, Holders, User
      <3> QED BY <1>5, <3>1, HoldersStay DEF ShutdownQueue
    <2>3. Queue'
      <3>1. cmds' = cmds \/ (CmdRoom /\ cmds' = Append(cmds, "Shutdown"))
        BY <1>5 DEF ShutdownQueue
      <3>2. cmds' \in Seq(Adders \cup {"Shutdown"}) /\ Len(cmds') <= CMD_QUEUE_DEPTH
        BY <3>1, EngineAssumption, SMTT(20) DEF Queue, CmdRoom
      <3> QED BY <1>5, <3>2 DEF ShutdownQueue, Queue
    <2>4. Listeners' /\ Bound'
      BY <1>5 DEF ShutdownQueue, Listeners, Bound
    <2>5. \A f \in Handles : user'[f] = "last" <=> user[f] = "last"
      BY <1>5 DEF ShutdownQueue
    <2>6. Watch'
      BY <1>5, <2>5, WatchSame DEF ShutdownQueue
    <2> QED BY <2>1, <2>2, <2>3, <2>4, <2>6
  <1> QED BY <1>1, <1>2, <1>3, <1>4, <1>5

\* add_sources.
LEMMA NextAdder ==
    ASSUME EngineInv, NEW h \in Adders, AddSources(h) \/ AddReturn(h)
    PROVE  EngineInv'
  <1> USE DEF EngineInv
  <1>0. h \in Handles
    BY EngineAssumption
  <1>1. CASE AddSources(h)
    <2>1. (cmds' = cmds /\ user' = user) \/ (CmdRoom /\ cmds' = Append(cmds, h) /\ user' = [user EXCEPT ![h] = "add"])
      BY <1>1 DEF AddSources
    <2>2. user' \in [Handles -> User]
      BY <2>1 DEF User
    <2>3. handle_count' = Cardinality(Holders')
      <3>1. h \in Holders /\ "add" \in User /\ "add" \in {"live", "shutdown", "add"}
        BY <1>0, <1>1 DEF AddSources, Holders, User
      <3>2. user' = user => Holders' = Holders
        BY DEF Holders
      <3>3. Cardinality(Holders') = Cardinality(Holders)
        BY <1>0, <2>1, <3>1, <3>2, HoldersStay
      <3> QED BY <1>1, <3>3 DEF AddSources
    <2>4. Queue'
      <3>0. cmds \in Seq(Adders \cup {"Shutdown"}) /\ h \in Adders \cup {"Shutdown"}
            /\ Len(cmds) <= CMD_QUEUE_DEPTH /\ CMD_QUEUE_DEPTH \in Nat
        BY EngineAssumption DEF Queue
      <3>1. cmds' \in Seq(Adders \cup {"Shutdown"}) /\ Len(cmds') <= CMD_QUEUE_DEPTH
        BY <2>1, <3>0, SMTT(20) DEF CmdRoom
      <3>2. result' = result \/ result' = [result EXCEPT ![h] = "error"]
        BY <1>1 DEF AddSources
      <3>3. result' \in [Adders -> {"none", "noerror", "error"}]
        BY <3>2 DEF Queue
      <3> QED BY <1>1, <3>1, <3>3 DEF AddSources, Queue
    <2>5. Listeners' /\ Bound'
      BY <1>1 DEF AddSources, Listeners, Bound, Queue
    <2>6. \A f \in Handles : user'[f] = "last" <=> user[f] = "last"
      BY <1>1, <2>1 DEF AddSources
    <2>7. Watch'
      BY <1>1, <2>6, WatchSame DEF AddSources
    <2> QED BY <2>2, <2>3, <2>4, <2>5, <2>7
  <1>2. CASE AddReturn(h)
    <2>1. PICK r \in {"noerror", "error"} :
             result' = [result EXCEPT ![h] = r] /\ (r = "noerror" => reply[h] = "noerror")
      BY <1>2 DEF AddReturn
    <2>2. user' \in [Handles -> User]
      BY <1>2 DEF AddReturn, User
    <2>3. handle_count' = Cardinality(Holders')
      <3>1. h \in Holders /\ "live" \in User /\ "live" \in {"live", "shutdown", "add"}
        BY <1>0, <1>2 DEF AddReturn, Holders, User
      <3> QED BY <1>0, <1>2, <3>1, HoldersStay DEF AddReturn
    <2>4. Queue'
      BY <1>2, <2>1 DEF AddReturn, Queue
    <2>5. Listeners'
      BY <1>2 DEF AddReturn, Listeners
    <2>6. Bound'
      BY <1>2, <2>1 DEF AddReturn, Bound, Queue
    <2>7. \A f \in Handles : user'[f] = "last" <=> user[f] = "last"
      BY <1>2 DEF AddReturn
    <2>8. Watch'
      BY <1>2, <2>7, WatchSame DEF AddReturn
    <2> QED BY <2>2, <2>3, <2>4, <2>5, <2>6, <2>8
  <1> QED BY <1>1, <1>2

\* The run loop ends, and raises the watch once more.
LEMMA NextStop ==
    ASSUME EngineInv, loop = "select", Stop
    PROVE  EngineInv'
  <1> USE DEF EngineInv
  <1>1. user' \in [Handles -> User] /\ Holders' = Holders /\ handle_count' = handle_count
    BY DEF Stop, Holders
  <1>2. Queue'
    <2>1. cmds' = <<>> /\ result' = result
      BY DEF Stop
    <2>2. reply' \in [Adders -> {"none", "noerror", "error", "dropped"}]
      BY DEF Stop, Queue
    <2> QED BY <2>1, <2>2, EngineAssumption, SMTT(20) DEF Queue
  <1>3. version \in Nat /\ version' = version + 1 /\ raised' = TRUE
    BY DEF Stop, FinalRaise, Raise, Watch
  <1>4. Listeners'
    BY <1>3, EngineAssumption, SMTT(20) DEF Stop, Listeners
  <1>5. Bound'
    BY <1>3 DEF Bound
  <1>6. Watch'
    <2>1. DropRaised' <=> DropRaised
      BY DEF Stop, DropRaised
    <2>2. raised' \in BOOLEAN
      BY <1>3
    <2>3. loop' = "stopped" /\ seen' = seen /\ user' = user
      BY DEF Stop
    <2> QED BY <1>1, <1>3, <2>1, <2>2, <2>3, EngineAssumption, SMTT(20) DEF Watch
  <1> QED BY <1>1, <1>2, <1>4, <1>5, <1>6

\* A step of the run loop keeps the engine's invariant.
LEMMA NextLoop ==
    ASSUME EngineInv, TakeCommand \/ TakeNone \/ TakeWork \/ Unblock \/ Preempt \/ Connected
    PROVE  EngineInv'
  <1> USE DEF EngineInv
  <1>1. CASE TakeCommand
    <2>1. CASE Head(cmds) = "Shutdown"
      BY <1>1, <2>1, NextStop DEF TakeCommand
    <2>2. CASE Head(cmds) # "Shutdown"
      <3> DEFINE c == Head(cmds)
      <3>1. cmds \in Seq(Adders \cup {"Shutdown"}) /\ cmds # <<>>
        BY <1>1 DEF TakeCommand, Queue
      <3>2. c \in Adders /\ c \in Sources
        BY <2>2, <3>1, SMTT(20) DEF Sources
      <3>3. Tail(cmds) \in Seq(Adders \cup {"Shutdown"}) /\ Len(Tail(cmds)) = Len(cmds) - 1
        BY <3>1, SMTT(20)
      <3>4. /\ cmds' = Tail(cmds) /\ Reply(c)
            /\ task' = task \/ task' = [task EXCEPT ![c] = [at |-> "accept", seen |-> seen]]
            /\ UNCHANGED <<user, handle_count, raised, version, seen, result, loop, accepted>>
        BY <1>1, <2>2 DEF TakeCommand, Bind
      <3> HIDE DEF c
      <3>5. user' \in [Handles -> User] /\ Holders' = Holders
        BY <3>4 DEF Holders
      <3>6. reply' \in [Adders -> {"none", "noerror", "error", "dropped"}]
        BY <3>2, <3>4 DEF Reply, Queue
      <3>7. Queue'
        BY <3>1, <3>3, <3>4, <3>6, EngineAssumption, SMTT(20) DEF Queue
      <3>8. /\ task' \in [Sources -> [at : Task, seen : Nat]]
            /\ \A s \in Sources : task'[s].seen <= version
            /\ \A s \in Sources : task[s].at \in Served => task'[s].at \in Served
        <4>1. task \in [Sources -> [at : Task, seen : Nat]]
              /\ (\A s \in Sources : task[s].seen <= version) /\ seen \in Nat /\ seen <= version
          BY SMTT(20) DEF Listeners, Watch
        <4>2. CASE task' = task
          BY <4>1, <4>2
        <4>3. CASE task' = [task EXCEPT ![c] = [at |-> "accept", seen |-> seen]]
          BY <3>2, <4>1, <4>3 DEF Served, Task
        <4> QED BY <3>4, <4>2, <4>3
      <3>9. Listeners'
        BY <3>4, <3>8 DEF Listeners
      <3>10. Bound'
        <4>1. \A h \in Adders : reply'[h] = "noerror" => reply[h] = "noerror" \/ task'[h].at \in Served
          BY <3>2, <3>4 DEF Reply, Queue, Served
        <4>2. Adders \subseteq Sources
          BY DEF Sources
        <4> QED BY <3>4, <3>8, <4>1, <4>2, BoundSame
      <3>11. Watch'
        BY <3>4, WatchSame
      <3> QED BY <3>4, <3>5, <3>7, <3>9, <3>10, <3>11
    <2> QED BY <2>1, <2>2
  <1>2. CASE TakeNone
    BY <1>2, NextStop DEF TakeNone
  <1>3. ASSUME \/ TakeWork \/ Unblock \/ Connected PROVE EngineInv'
    <2>1. /\ UNCHANGED <<user, handle_count, raised, version, seen, cmds, reply, result, task>>
          /\ loop # "stopped" /\ loop' \in {"select", "blocked", "connect"}
          /\ accepted' \in 0 .. EVENT_QUEUE_DEPTH
      BY <1>3, EngineAssumption, SMTT(20) DEF TakeWork, Unblock, Connected, Listeners
    <2>2. user' \in [Handles -> User] /\ Holders' = Holders
      BY <2>1 DEF Holders
    <2>3. Queue' /\ Listeners' /\ Bound'
      BY <2>1 DEF Queue, Listeners, Bound
    <2>4. Watch'
      BY <2>1, WatchSame
    <2> QED BY <2>1, <2>2, <2>3, <2>4
  <1>4. CASE Preempt
    <2>1. user' \in [Handles -> User] /\ Holders' = Holders /\ handle_count' = handle_count
      BY <1>4 DEF Preempt, Holders
    <2>2. Queue' /\ Listeners' /\ Bound'
      BY <1>4 DEF Preempt, Queue, Listeners, Bound
    <2>3. Watch'
      <3>1. DropRaised' <=> DropRaised
        BY <1>4 DEF Preempt, DropRaised
      <3>2. raised' \in BOOLEAN
        BY <1>4 DEF Preempt, Watch
      <3> QED BY <1>4, <3>1, <3>2, SMTT(20) DEF Preempt, Watch
    <2> QED BY <2>1, <2>2, <2>3
  <1> QED BY <1>1, <1>2, <1>3, <1>4

\* The accept tasks.
LEMMA NextTask ==
    ASSUME EngineInv, NEW s \in Sources,
           Accepts(s) \/ AcceptRetries(s) \/ AcceptSends(s) \/ AcceptStops(s)
    PROVE  EngineInv'
  <1> USE DEF EngineInv
  <1>1. UNCHANGED <<user, handle_count, raised, version, seen, cmds, reply, result, loop>>
    BY DEF Accepts, AcceptRetries, AcceptSends, AcceptStops
  <1>2. /\ task' \in [Sources -> [at : Task, seen : Nat]]
        /\ \A u \in Sources : task'[u].seen <= version
    BY SMTT(20) DEF Accepts, AcceptRetries, AcceptSends, AcceptStops, At, Listeners, Watch, Task
  <1>3. accepted' \in 0 .. EVENT_QUEUE_DEPTH
    BY EngineAssumption, SMTT(20) DEF Accepts, AcceptRetries, AcceptSends, AcceptStops, Listeners
  <1>4. \A u \in Sources : task[u].at \in Served => task'[u].at \in Served \/ raised
    <2>1. CASE loop = "stopped"
      BY <2>1 DEF Bound
    <2>2. CASE loop # "stopped"
      BY <2>2, SMTT(20) DEF Accepts, AcceptRetries, AcceptSends, AcceptStops, At, Listeners, Served, Task
    <2> QED BY <2>1, <2>2
  <1>5. user' \in [Handles -> User] /\ Holders' = Holders
    BY <1>1 DEF Holders
  <1>6. Queue' /\ Listeners'
    BY <1>1, <1>2, <1>3 DEF Queue, Listeners
  <1>7. Bound'
    <2>1. Adders \subseteq Sources
      BY DEF Sources
    <2> QED BY <1>1, <1>4, <2>1, BoundSame
  <1>8. Watch'
    BY <1>1, WatchSame
  <1> QED BY <1>1, <1>5, <1>6, <1>7, <1>8

\* The engine's invariant holds throughout.
LEMMA SpecEngine == EngineSpec => []EngineInv
  <1>1. EngineInv /\ [EngineNext]_engineVars => EngineInv'
    <2> SUFFICES ASSUME EngineInv, [EngineNext]_engineVars PROVE EngineInv'
      OBVIOUS
    <2>1. CASE UNCHANGED engineVars
      <3>1. Holders' = Holders
        BY <2>1 DEF engineVars, Holders
      <3>2. DropRaised' <=> DropRaised
        BY <2>1 DEF engineVars, DropRaised
      <3>3. Queue' /\ Listeners' /\ Bound'
        BY <2>1 DEF engineVars, EngineInv, Queue, Listeners, Bound
      <3>4. Watch'
        BY <2>1, WatchSame DEF engineVars, EngineInv
      <3> QED BY <2>1, <3>1, <3>3, <3>4 DEF engineVars, EngineInv
    <2> QED BY <2>1, NextHandle, NextAdder, NextLoop, NextTask DEF EngineNext
  <1> QED BY InitEngine, <1>1, PTL DEF EngineSpec

\* The engine's state stays well typed: the count of handles is the number of
\* clones that were not dropped, the queues keep to their depths, and the watch
\* is raised by shutdown() and at most once each by the last handle and the loop.
THEOREM EngineTypeCorrect == EngineSpec => []EngineTypeOK
  <1>1. EngineInv => EngineTypeOK
    <2> SUFFICES ASSUME EngineInv PROVE EngineTypeOK
      OBVIOUS
    <2> USE DEF EngineInv
    <2>1. raised \in BOOLEAN
      BY DEF Watch
    <2>2. version \in 0 .. MaxRaises + 2 /\ seen \in 0 .. version
      BY EngineAssumption, SMTT(20) DEF Watch
    <2>3. (\A i \in DOMAIN cmds : cmds[i] \in Handles \cup {"Shutdown"}) /\ Len(cmds) <= CMD_QUEUE_DEPTH
      BY EngineAssumption, SMTT(20) DEF Queue
    <2>4. \A s \in Sources : task[s].at \in Task
                              /\ task[s].seen \in 0 .. version
      BY <2>2, SMTT(20) DEF Listeners
    <2> QED BY <2>1, <2>2, <2>3, <2>4 DEF EngineTypeOK, Holders, Queue, Listeners
  <1> QED BY SpecEngine, <1>1, PTL

\* add_sources returns no error only when every source that names a port is bound:
\* its listener is up until the engine is told to stop, although the reply and the
\* timeout race.  A source that names no port has none, and no error either.
THEOREM AddedStaysBound == EngineSpec => []AddedIsBound
  <1>1. EngineInv => AddedIsBound
    BY DEF EngineInv, Bound, AddedIsBound
  <1> QED BY SpecEngine, <1>1, PTL

=============================================================================
