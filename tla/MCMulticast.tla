---------------------------- MODULE MCMulticast ----------------------------
(* Small instances of Multicast for TLC. *)
EXTENDS MulticastInv

OneSender == {1}
TwoSenders == {1, 2}
=============================================================================
