-------------------------- MODULE MCRecoverExchange --------------------------
(* Small instances of RecoverExchange for TLC, with a history variable that
   tells the runs on a timely link from the others. *)
EXTENDS RecoverExchange, TLC

VARIABLE late       \* some step took more than a tick after the socket was ready

\* One catch-up larger than the socket buffers, the other small.
OneLarge == A :> 4 @@ B :> 2
\* Both larger than the socket buffers.
BothLarge == A :> 3 @@ B :> 3

MCInit == ExchangeInit /\ late = FALSE
MCNext == ExchangeNext /\ late' = (late \/ \E p \in Ends : wait'[p] > 1)

\* The runtime polls ready IO, timers fire, the clock runs, the client redials.
MCFairSpec ==
    /\ MCInit /\ [][MCNext]_<<exchangeVars, late>>
    /\ WF_exchangeVars(\E p \in Ends : StartExchange(p) \/ WriteUnit(p) \/ ReadUnit(p))
    /\ WF_exchangeVars(\E p \in Ends : Timeout(p) \/ HangUp(p))
    /\ WF_exchangeVars(Retry)
    /\ WF_exchangeVars(Tick)

\* What a link that moves every unit within a tick needs, in ticks.  Both ends write
\* before they read, so one catch-up has to fit the socket's buffer, and an end whose
\* catch-up does not has to wait in one step for all of the other's.  The absolute
\* bound has to cover both bodies; nine ticks go to the headers and lengths.
KeepsUp ==
    /\ \E p \in Ends : Body[p] + 1 <= CAPACITY /\ IDLE >= Body[p] + 4
    /\ IDLE >= 5
    /\ ABSOLUTE >= Body[A] + Body[B] + 9

\* A slow link that keeps moving recovers: when it keeps up with the two bounds, no
\* timeout and no race with a late chunk keeps the session from coming back ("a
\* slow-but-progressing peer recovers").  One that does not keep up is abandoned and
\* tried again from the start, as the test
\* recover_absolute_cap_binds_even_a_progressing_peer demands.
Recovers == KeepsUp /\ [](~late) => <>AllLive

=============================================================================
