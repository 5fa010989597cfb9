----------------------------- MODULE MCForward ------------------------------
(* Instances of Forward for TLC. *)
EXTENDS Forward, TLC

TwoFromA    == ("A" :> 2) @@ ("B" :> 0)
DistinctIds == ("A" :> {21, 22}) @@ ("B" :> {11, 12})
Ordered     == <<2, 0, 1, 0>>

=============================================================================
