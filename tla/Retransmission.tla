--------------------------- MODULE Retransmission ---------------------------
(***************************************************************************)
(* What a ContinuousMsgSender promises its service: a queued message is    *)
(* sent to every recipient again and again until the recipient has         *)
(* answered.  There is no thread, lock or condition variable here; Round is *)
(* the step by which Multicast models a round of the two senders.          *)
(***************************************************************************)
EXTENDS Naturals

CONSTANTS MsgIds, Recipients

VARIABLES
    pending,   \* SUBSET (MsgIds \X Recipients): queued and not yet answered
    wire,      \* datagrams in transit to a recipient
    acks       \* the pairs whose answer has been sent back

vars == <<pending, wire, acks>>

Init == pending = {} /\ wire = {} /\ acks = {}

Queue(k) ==
    /\ pending' = pending \cup ({k} \X Recipients)
    /\ UNCHANGED <<wire, acks>>

Round ==
    /\ pending # {}
    /\ wire' = wire \cup pending
    /\ UNCHANGED <<pending, acks>>

\* A recipient is given up only when its answer arrived.
Remove(d) ==
    /\ d \in acks
    /\ pending' = pending \ {d}
    /\ UNCHANGED <<wire, acks>>

Arrive(d) ==
    /\ d \in wire
    /\ wire' = wire \ {d}
    /\ acks' = acks \cup {d}
    /\ UNCHANGED pending

Lose(d) ==
    /\ d \in wire
    /\ wire' = wire \ {d}
    /\ UNCHANGED <<pending, acks>>

Next ==
    \/ \E k \in MsgIds : Queue(k)
    \/ Round
    \/ \E d \in MsgIds \X Recipients : Remove(d) \/ Arrive(d) \/ Lose(d)

Spec == Init /\ [][Next]_vars
=============================================================================
