------------------------------ MODULE MCBacked ------------------------------
(* Small instances of Backed for TLC. *)
EXTENDS BackedLink, TLC

\* Packets written by the client and by the server.
Writes12 == Client :> 1 @@ Server :> 2
Writes22 == Client :> 2 @@ Server :> 2
Writes40 == Client :> 4 @@ Server :> 0
=============================================================================
