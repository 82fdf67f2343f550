----------------------- MODULE MCContinuousMsgSender -----------------------
(* A small instance of ContinuousMsgSender for TLC. *)
EXTENDS ContinuousMsgSender

CONSTANTS r1, r2

TwoRecipients == {r1, r2}
=============================================================================
