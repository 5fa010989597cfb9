-------------------------------- MODULE Link --------------------------------
(***************************************************************************)
(* What a backed connection promises its two owners: a full-duplex,        *)
(* reliable, ordered packet stream.  There are no sockets, no reconnects   *)
(* and no nonces here; each end writes packets and reads what the other    *)
(* end wrote, in order and exactly once.                                   *)
(***************************************************************************)
EXTENDS Naturals, Sequences

CONSTANTS Peers,       \* the two ends
          Other(_),    \* the opposite end
          Packet       \* what can be written

VARIABLES written,     \* written[p]: packets p wrote
          read         \* read[p]: packets p was handed

vars == <<written, read>>

Init ==
    /\ written = [p \in Peers |-> <<>>]
    /\ read = [p \in Peers |-> <<>>]

Write(p) ==
    /\ Len(written'[p]) = Len(written[p]) + 1   \* implied, and quick to rule out
    /\ UNCHANGED read
    /\ \E x \in Packet : written' = [written EXCEPT ![p] = Append(@, x)]

Read(p) ==
    /\ Len(read[p]) < Len(written[Other(p)])
    /\ read' = [read EXCEPT ![p] = Append(@, written[Other(p)][Len(read[p]) + 1])]
    /\ UNCHANGED written

Next == \E p \in Peers : Write(p) \/ Read(p)

Spec == Init /\ [][Next]_vars

=============================================================================
