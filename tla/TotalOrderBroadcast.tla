------------------------ MODULE TotalOrderBroadcast ------------------------
(***************************************************************************)
(* What the multicast service promises: every process delivers messages    *)
(* that were multicast, none twice, and the delivery logs of all processes *)
(* are prefixes of one sequence.  No message exchange appears here.        *)
(***************************************************************************)
EXTENDS Naturals, Sequences

CONSTANTS Proc, Id

VARIABLES
    sent,       \* the messages multicast so far
    delivered   \* [Proc -> Seq(Id)]: the delivery log of each process

Extends(old, new) ==
    Len(old) <= Len(new) /\ \A i \in 1..Len(old) : new[i] = old[i]

\* Position by position, two logs hold the same messages.
Consistent(logs) ==
    \A p, q \in Proc : \A i \in 1..Len(logs[p]) :
        i <= Len(logs[q]) => logs[p][i] = logs[q][i]

NoRepeats(log) == \A i, j \in 1..Len(log) : log[i] = log[j] => i = j

Init == sent = {} /\ delivered = [p \in Proc |-> <<>>]

Multicast(k) ==
    /\ k \notin sent
    /\ sent' = sent \cup {k}
    /\ UNCHANGED delivered

\* p delivers one or more messages; the agreement between the logs is part of
\* the step.
Deliver(p) ==
    /\ UNCHANGED sent
    /\ \A q \in Proc \ {p} : delivered'[q] = delivered[q]
    /\ delivered'[p] \in Seq(sent)
    /\ Extends(delivered[p], delivered'[p])
    /\ NoRepeats(delivered'[p])
    /\ Consistent(delivered')

Next == (\E k \in Id : Multicast(k)) \/ (\E p \in Proc : Deliver(p))

Spec == Init /\ [][Next]_<<sent, delivered>>
=============================================================================
