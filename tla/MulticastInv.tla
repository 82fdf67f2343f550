---------------------------- MODULE MulticastInv ----------------------------
(***************************************************************************)
(* The inductive invariant of Multicast over links that keep Data(k) ahead *)
(* of Seq(k) (Fifo).  For a process p, a message k is first unknown; then  *)
(* proposed (an undeliverable entry and a cached Ack); then settled (its   *)
(* Seq was processed: a deliverable entry, or delivered).                  *)
(***************************************************************************)
EXTENDS Multicast

Proposals(k) == proposedSeqIdMap[k]

\* The number p proposed for k, or 0: still cached by p, or already recorded
\* by the sender of k when the Seq of k removed it from the cache of p.
Proposal(p, k) ==
    IF ackMessageCache[p][k] # 0 THEN ackMessageCache[p][k] ELSE Proposals(k)[p]

\* createSeqMessage gives k the number seq of process w.
FinalIs(k, seq, w) ==
    w \in Proc /\ Complete(Proposals(k)) /\ Wins(Proposals(k), w)
               /\ seq = Proposals(k)[w]

Final(k) == \E w \in Proc : FinalIs(k, Proposals(k)[w], w)

\* The final number and proposer of a message that has them.
FinalProposer(k) == CHOOSE w \in Proc : Wins(Proposals(k), w)
FinalSeq(k) == Proposals(k)[FinalProposer(k)]

\* The order of the final numbers: the order of delivery.
Before(j, k) ==
    \/ FinalSeq(j) < FinalSeq(k)
    \/ FinalSeq(j) = FinalSeq(k) /\ FinalProposer(j) < FinalProposer(k)

Settled(p, k) ==
    k \in DeliveredAt(p) \/ \E e \in queue[p] : e.id = k /\ e.deliverable

----------------------------------------------------------------------------
(* Sender side.                                                            *)

\* A sender only sends Data it has multicast, to processes whose proposal it
\* does not know yet.
DataUnanswered ==
    \A p \in Proc : \A m \in dataMsgs[p] :
        /\ Sender(m.id) = p
        /\ m.id[2] <= msgId[p]
        /\ Proposals(m.id)[m.to] = 0

ProposalsOfSent ==
    \A k \in Id, p \in Proc : Proposals(k)[p] # 0 => k[2] <= msgId[Sender(k)]

\* Every Seq carries the final number of its id.
SeqIsFinal ==
    /\ \A p \in Proc : \A m \in seqMsgs[p] : FinalIs(m.id, m.seq, m.proposer)
    /\ \A m \in net : m.type = "Seq" => FinalIs(m.id, m.seq, m.proposer)

SenderInv == DataUnanswered /\ ProposalsOfSent /\ SeqIsFinal

----------------------------------------------------------------------------
(* Receiver side: the life of a message at a process.                      *)

AckIsProposal ==
    \A m \in net : m.type = "Ack" =>
        m.seq # 0 /\ m.seq = Proposal(m.proposer, m.id)

CacheAgrees ==
    \A p \in Proc, k \in Id :
        ackMessageCache[p][k] # 0 /\ Proposals(k)[p] # 0
            => ackMessageCache[p][k] = Proposals(k)[p]

ProposedIsHeld ==
    /\ \A p \in Proc : \A e \in queue[p] : ~ e.deliverable =>
            /\ e.proposer = p
            /\ e.seq = ackMessageCache[p][e.id]
            /\ e.seq # 0
            /\ e.id \in pendingMsgSet[p]
    /\ \A p \in Proc, k \in Id : ackMessageCache[p][k] # 0 =>
            \E e \in queue[p] : e.id = k /\ ~ e.deliverable

QueueIdsUnique ==
    \A p \in Proc : \A e \in queue[p] :
        /\ e.id \notin DeliveredAt(p)
        /\ \A f \in queue[p] : e.id = f.id => e = f

SettledIsFinal ==
    /\ \A p \in Proc : \A e \in queue[p] :
            e.deliverable => FinalIs(e.id, e.seq, e.proposer)
    /\ \A p \in Proc : \A k \in DeliveredAt(p) : Final(k)
    /\ \A p \in Proc, k \in Id : Settled(p, k) => DataMessage(k, p) \notin net

SeenIsKnown ==
    \A p \in Proc, k \in Id :
        Proposal(p, k) # 0 \/ k \in pendingMsgSet[p]
            => ackMessageCache[p][k] # 0 \/ Settled(p, k)

NothingReady ==
    \A p \in Proc : Ready(queue[p]) = {}

PhaseInv ==
    /\ AckIsProposal /\ CacheAgrees /\ ProposedIsHeld /\ QueueIdsUnique
    /\ SettledIsFinal /\ SeenIsKnown /\ NothingReady /\ NoCrash

----------------------------------------------------------------------------
(* The order of delivery.                                                  *)

BelowLatest ==
    \A p \in Proc :
        /\ \A e \in queue[p] : e.seq <= latestSeqId[p]
        /\ \A k \in Id : Proposal(p, k) <= latestSeqId[p]
        /\ \A k \in DeliveredAt(p) : FinalSeq(k) <= latestSeqId[p]

ProposalsUnique ==
    \A p \in Proc, j, k \in Id :
        Proposal(p, j) # 0 /\ Proposal(p, j) = Proposal(p, k) => j = k

DeliveredInOrder ==
    \A p \in Proc : \A i, j \in 1..Len(delivered[p]) :
        i < j => Before(delivered[p][i], delivered[p][j])

DeliveredBeforeQueued ==
    \A p \in Proc : \A k \in DeliveredAt(p), e \in queue[p] :
        \/ FinalSeq(k) < e.seq
        \/ e.deliverable /\ FinalSeq(k) = e.seq /\ FinalProposer(k) < e.proposer

OrderInv ==
    BelowLatest /\ ProposalsUnique /\ DeliveredInOrder /\ DeliveredBeforeQueued

----------------------------------------------------------------------------
(* What holds over any network: only what is held was proposed.            *)

Held(p, k) == k \in DeliveredAt(p) \/ \E e \in queue[p] : e.id = k

AckIsHeld == \A m \in net : m.type = "Ack" => Held(m.proposer, m.id)

ProposerHolds ==
    \A p \in Proc, k \in Id :
        Proposals(k)[p] # 0 \/ ackMessageCache[p][k] # 0 => Held(p, k)

SettledIsComplete ==
    \A p \in Proc :
        /\ \A k \in DeliveredAt(p) : Complete(Proposals(k))
        /\ \A e \in queue[p] : e.deliverable => Complete(Proposals(e.id))

HoldInv == AckIsHeld /\ ProposerHolds /\ SettledIsComplete
=============================================================================
