--------------------------- MODULE MCSocketManager ---------------------------
(* Instances of SocketManager for TLC: two goroutines share one channel; one *)
(* of them subscribes, and also uses another.                                *)
EXTENDS SocketManager, TLC

CONSTANTS u1, u2, n1, n2, r1

SharesOne == u1 :> {n1, n2} @@ u2 :> {n1}
=============================================================================
