---------------------------- MODULE MCHeartbeat ----------------------------
(* Small instances of Heartbeat for TLC. *)
EXTENDS Heartbeat

CONSTANTS a, b

TwoHosts == {a, b}
=============================================================================
