---------------------------- MODULE MCConnection ----------------------------
(* Instances of Connection for TLC.                                          *)
EXTENDS Connection, TLC

CONSTANTS u1, u2

(* "Auto-reconnect + backoff | Done" (docs/implementation-status.md): a lost *)
(* socket is replaced while attempts are left, dials that fail included.     *)
AutoReconnects == Lost ~> Works \/ MayStopTrying
=============================================================================
