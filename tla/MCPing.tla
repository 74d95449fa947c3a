------------------------------- MODULE MCPing -------------------------------
(* Instances of Ping for TLC.                                                *)
EXTENDS Ping, TLC

CONSTANTS p1, p2, r1, r2
=============================================================================
