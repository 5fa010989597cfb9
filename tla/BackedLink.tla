----------------------------- MODULE BackedLink -----------------------------
(***************************************************************************)
(* Backed implements Link: what an end wrote is its log, and what it read   *)
(* is what it was handed, looked up in the log of its peer.                 *)
(***************************************************************************)
EXTENDS Backed

\* Packet k of a log, stamped with its number: packets of equal contents differ.
Stamped(log, k) == <<k, log[k]>>
Stamps == (1 .. MaxWrites[Client] + MaxWrites[Server]) \X Packet

Written == [p \in Peers |-> [i \in DOMAIN sent[p] |-> Stamped(sent[p], i)]]
Handed ==
    [p \in Peers |-> [i \in DOMAIN delivered[p] |-> Stamped(sent[Other(p)], delivered[p][i])]]

L == INSTANCE Link WITH Packet <- Stamps, written <- Written, read <- Handed

\* The two actors and their sockets implement a reliable ordered link: every
\* step of the actors, the owners and the network is a write, the hand-over of
\* the next packet, or invisible to the two applications.
ImplementsLink == L!Spec

=============================================================================
