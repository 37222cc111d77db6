------------------------------ MODULE MCAttempts ------------------------------
(***************************************************************************)
(* An instance of Attempts for TLC, in TUN mode: there every candidate may *)
(* refuse for good and fail, so what happens outside of it happens here,   *)
(* too.  The light server a accepts over TLS and is listed with QUIC, over *)
(* which it may refuse; the heavy one, b, never has to accept; r has no    *)
(* transport of its own and gets the one the user asked for, Redstone.     *)
(* The subscription holds a and b, or r instead of a for a while.          *)
(***************************************************************************)
EXTENDS Attempts, TLC

CONSTANTS a, b, game

MCWeight == (a :> 1) @@ (b :> 3) @@ (game :> 1)
MCTransport == (a :> "quic") @@ (b :> "quic") @@ (game :> "")
MCLists == {<<b, game>>, <<b, a>>}
MCAccepting == {<<a, "tls">>}

=============================================================================
