------------------------- MODULE MCFailureDetector -------------------------
(* Small instances of FailureDetector for TLC. *)
EXTENDS FailureDetector

CONSTANTS p1, p2, p3

ThreePeers == {p1, p2, p3}
=============================================================================
