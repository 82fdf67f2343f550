----------------------------- MODULE MCSnapshot -----------------------------
(* A small instance of Snapshot for TLC. *)
EXTENDS Snapshot

CONSTANTS a, b, c

ThreeHosts == <<a, b, c>>
TwoMessages == {<<a, 1>>, <<b, 1>>}
=============================================================================
