--------------------------- MODULE MulticastProofs ---------------------------
(***************************************************************************)
(* Proofs about Multicast for every number of processes, senders and       *)
(* messages and every bound on losses and numbers.                         *)
(***************************************************************************)
EXTENDS MulticastInv, FiniteSetTheorems, SequenceTheorems, TLAPS

----------------------------------------------------------------------------
(* The operators of the hold-back queue.                                   *)

\* Mark keeps the queue a finite set of entries.
LEMMA MarkType ==
    ASSUME NEW q \in SUBSET PendingMsg, IsFiniteSet(q),
           NEW k \in Id, NEW seq \in Nat, NEW w \in Proc
    PROVE  Mark(q, k, seq, w) \in SUBSET PendingMsg /\ IsFiniteSet(Mark(q, k, seq, w))
<1> DEFINE mark(e) == IF e.id = k /\ \A f \in q : f.id = k => ~ Less(f, e)
                      THEN [id |-> k, seq |-> seq, proposer |-> w, deliverable |-> TRUE]
                      ELSE e
           h == [e \in q |-> mark(e)]
           T == Mark(q, k, seq, w)
<1>1. \A e \in q : mark(e) \in PendingMsg
  BY DEF PendingMsg
<1>2. T = {mark(e) : e \in q}
  BY DEF Mark
<1>3. h \in Surjection(q, T)
  <2> HIDE DEF mark
  <2>1. h \in [q -> T]
    BY <1>2
  <2>2. \A t \in T : \E e \in q : h[e] = t
    BY <1>2
  <2> QED  BY <2>1, <2>2 DEF Surjection
<1>4. IsFiniteSet(T)
  <2> HIDE DEF T, h
  <2> QED  BY <1>3, FS_Surjection
<1> HIDE DEF mark
<1> QED  BY <1>1, <1>2, <1>4

\* The ids of a sorted batch form a sequence that lists the batch.
LEMMA SortedIds ==
    ASSUME NEW S \in SUBSET PendingMsg, IsFiniteSet(S), NEW s \in Sorted(S)
    PROVE  /\ Ids(s) \in Seq(Id)
           /\ Len(Ids(s)) = Cardinality(S)
           /\ Cardinality(S) \in Nat
           /\ \A i \in 1..Cardinality(S) : s[i] \in S /\ Ids(s)[i] = s[i].id
<1>1. Cardinality(S) \in Nat
  BY FS_CardinalityType
<1>2. s \in [1..Cardinality(S) -> S]
  BY DEF Sorted
<1>3. Len(s) = Cardinality(S)
  BY <1>1, <1>2
<1>4. \A i \in 1..Cardinality(S) : s[i] \in S /\ s[i].id \in Id
  BY <1>2 DEF PendingMsg
<1>5. Ids(s) = [i \in 1..Cardinality(S) |-> s[i].id]
  BY <1>3 DEF Ids
<1> QED  BY <1>1, <1>4, <1>5

----------------------------------------------------------------------------
(* Type correctness.                                                       *)

\* The types hold when every process has just started (constructor state).
LEMMA TypeInit == Init => TypeOK
<1> SUFFICES ASSUME Init PROVE TypeOK
  OBVIOUS
<1>1. \A p \in Proc : IsFiniteSet(queue[p])
  BY FS_EmptySet DEF Init
<1> QED
  BY <1>1, NAssumption DEF Init, TypeOK

\* The datagrams a handler sends are messages.
LEMMA ReceiveType ==
    ASSUME TypeOK, NEW m \in net, NEW out \in SUBSET Message,
           ReceiveAndSend(m, out)
    PROVE  net' \subseteq Message
BY DEF TypeOK, ReceiveAndSend

\* What createDataMessage, createOrGetAckMessage, createSeqMessage and
\* createSeqAckMessage build are datagrams of their kind.
LEMMA MessageTypes ==
    ASSUME NEW k \in Id, NEW p \in Proc, NEW n \in Nat, NEW w \in Proc
    PROVE  /\ Sender(k) \in Proc
           /\ DataMessage(k, p) \in DataMsg
           /\ AckMessage(k, n, p) \in AckMsg
           /\ SeqMessage(k, p, n, w) \in SeqMsg
           /\ SeqAckMessage(k, p) \in SeqAckMsg
BY SendersAssumption
   DEF Id, Sender, DataMessage, AckMessage, SeqMessage, SeqAckMessage,
       DataMsg, AckMsg, SeqMsg, SeqAckMsg

\* What a received datagram carries.
LEMMA ReceivedMessage ==
    ASSUME TypeOK, NEW m \in net
    PROVE  /\ m.id \in Id /\ m.to \in Proc
           /\ m.type = "Data" => m \in DataMsg /\ m = DataMessage(m.id, m.to)
           /\ m.type = "Ack" => m \in AckMsg
           /\ m.type = "Seq" => m \in SeqMsg
           /\ m.type = "SeqAck" => m \in SeqAckMsg
BY DEF TypeOK, Message, DataMsg, AckMsg, SeqMsg, SeqAckMsg, DataMessage

\* Every handler and every round of a sender thread keeps the types.
LEMMA TypeNext == TypeOK /\ [Next]_vars => TypeOK'
<1> SUFFICES ASSUME TypeOK, [Next]_vars PROVE TypeOK'
  OBVIOUS
<1>1. ASSUME NEW p \in Proc, multicast(p) PROVE TypeOK'
  <2>1. <<p, msgId[p] + 1>> \in Id
    BY <1>1, MsgCountAssumption DEF multicast, TypeOK, Id
  <2>2. dataMsgs' \in [Proc -> SUBSET DataMsg]
    BY <1>1, <2>1, MessageTypes DEF multicast, TypeOK
  <2>3. msgId' \in [Proc -> Nat]
    BY <1>1 DEF multicast, TypeOK
  <2> QED
    BY <1>1, <2>2, <2>3 DEF multicast, TypeOK
<1>2. ASSUME NEW p \in Proc, SendDataMsgs(p) PROVE TypeOK'
  BY <1>2 DEF SendDataMsgs, TypeOK, Message
<1>3. ASSUME NEW p \in Proc, SendSeqMsgs(p) PROVE TypeOK'
  BY <1>3 DEF SendSeqMsgs, TypeOK, Message
<1>4. ASSUME NEW p \in Proc, NEW m \in net, processDataMsg(p, m) PROVE TypeOK'
  <2>1. m.id \in Id
    BY ReceivedMessage
  <2>2. CASE AddDataMsg(p, m)
    <3> DEFINE e == [id |-> m.id, seq |-> ProposedSeq(p), proposer |-> p,
                     deliverable |-> FALSE]
    <3>1. ProposedSeq(p) \in Nat
      BY DEF TypeOK, ProposedSeq
    <3>2. net' \subseteq Message
      BY <2>1, <2>2, <3>1, ReceiveType, MessageTypes DEF AddDataMsg, Message
    <3>3. e \in PendingMsg
      BY <2>1, <3>1 DEF PendingMsg
    <3> HIDE DEF e
    <3>4. queue' = [queue EXCEPT ![p] = @ \cup {e}]
      BY <2>2 DEF AddDataMsg, e
    <3>5. queue' \in [Proc -> SUBSET PendingMsg]
      BY <3>3, <3>4 DEF TypeOK
    <3>6. \A r \in Proc : IsFiniteSet(queue'[r])
      BY <3>4, FS_AddElement DEF TypeOK
    <3>7. ackMessageCache' \in [Proc -> [Id -> Nat]]
      <4>1. [ackMessageCache[p] EXCEPT ![m.id] = ProposedSeq(p)] \in [Id -> Nat]
        BY <2>1, <3>1 DEF TypeOK
      <4> QED  BY <2>2, <4>1 DEF AddDataMsg, TypeOK
    <3>8. /\ latestSeqId' \in [Proc -> Nat]
          /\ pendingMsgSet' \in [Proc -> SUBSET Id]
      BY <2>1, <2>2 DEF AddDataMsg, TypeOK
    <3>9. UNCHANGED <<msgId, dataMsgs, seqMsgs, proposedSeqIdMap, delivered,
                      crashed, lost>>
      BY <1>4, <2>2 DEF processDataMsg, AddDataMsg
    <3> QED
      BY <3>2, <3>5, <3>6, <3>7, <3>8, <3>9 DEF TypeOK
  <2>3. CASE RepeatAck(p, m)
    <3>1. net' \subseteq Message
      <4>1. ackMessageCache[p][m.id] \in Nat
        BY <2>1 DEF TypeOK
      <4> QED  BY <2>1, <2>3, <4>1, ReceiveType, MessageTypes DEF RepeatAck, Message
    <3> QED
      BY <1>4, <2>3, <3>1 DEF processDataMsg, RepeatAck, TypeOK
  <2>4. CASE AckLookupFails(p, m)
    <3>1. net' \subseteq Message
      BY <2>4, ReceiveType DEF AckLookupFails
    <3> QED
      BY <1>4, <2>4, <3>1 DEF processDataMsg, AckLookupFails, TypeOK
  <2> QED  BY <1>4, <2>2, <2>3, <2>4 DEF processDataMsg
<1>5. ASSUME NEW p \in Proc, NEW m \in net, processAckMsg(p, m) PROVE TypeOK'
  <2> DEFINE proposals == [proposedSeqIdMap[m.id] EXCEPT ![m.proposer] = m.seq]
  <2>1. m \in AckMsg
    BY <1>5, ReceivedMessage DEF processAckMsg, Arrives
  <2>2. net' \subseteq Message
    BY <1>5, ReceiveType DEF processAckMsg
  <2>3. proposals \in [Proc -> Nat]
    BY <2>1 DEF TypeOK, AckMsg
  <2>4. CASE /\ DataMessage(m.id, m.proposer) \in dataMsgs[p]
             /\ dataMsgs' = [dataMsgs EXCEPT ![p] = @ \ {DataMessage(m.id, m.proposer)}]
             /\ proposedSeqIdMap' = [proposedSeqIdMap EXCEPT ![m.id] = proposals]
             /\ QueueSeqMsg(p, m.id, proposals)
    <3>1. seqMsgs' \in [Proc -> SUBSET SeqMsg]
      <4> HIDE DEF proposals
      <4>1. CASE Complete(proposals)
        <5>1. PICK w \in Proc :
                seqMsgs' = [seqMsgs EXCEPT ![p] =
                    @ \cup {SeqMessage(m.id, r, proposals[w], w) : r \in Proc}]
          BY <2>4, <4>1 DEF QueueSeqMsg
        <5>2. \A r \in Proc : SeqMessage(m.id, r, proposals[w], w) \in SeqMsg
          BY <2>1, <2>3, MessageTypes DEF AckMsg
        <5> QED  BY <5>1, <5>2 DEF TypeOK
      <4>2. CASE ~ Complete(proposals)
        BY <2>4, <4>2 DEF QueueSeqMsg, TypeOK
      <4> QED  BY <4>1, <4>2
    <3>2. dataMsgs' \in [Proc -> SUBSET DataMsg]
      BY <2>4 DEF TypeOK
    <3>3. proposedSeqIdMap' \in [Id -> [Proc -> Nat]]
      BY <2>1, <2>3, <2>4 DEF TypeOK, AckMsg
    <3> QED
      BY <1>5, <2>2, <3>1, <3>2, <3>3 DEF processAckMsg, TypeOK
  <2>5. CASE UNCHANGED <<dataMsgs, proposedSeqIdMap, seqMsgs>>
    BY <1>5, <2>2, <2>5 DEF processAckMsg, TypeOK
  <2> QED  BY <1>5, <2>4, <2>5 DEF processAckMsg
<1>6. ASSUME NEW p \in Proc, NEW m \in net, processSeqMsg(p, m) PROVE TypeOK'
  <2>1. m \in SeqMsg
    BY <1>6, ReceivedMessage DEF processSeqMsg, Arrives
  <2>2. net' \subseteq Message
    BY <1>6, <2>1, ReceiveType, MessageTypes DEF processSeqMsg, Message, SeqMsg
  <2>3. ackMessageCache' \in [Proc -> [Id -> Nat]]
    BY <1>6, <2>1 DEF processSeqMsg, TypeOK, SeqMsg
  <2>4. latestSeqId' \in [Proc -> Nat]
    BY <1>6, <2>1 DEF processSeqMsg, TypeOK, SeqMsg
  <2>5. CASE markDeliverable(p, m)
    <3> DEFINE q == Mark(queue[p], m.id, m.seq, m.proposer)
    <3>1. q \in SUBSET PendingMsg /\ IsFiniteSet(q)
      BY <2>1, MarkType DEF TypeOK, SeqMsg
    <3>2. PICK s \in Sorted(Ready(q)) :
            delivered' = [delivered EXCEPT ![p] = @ \o Ids(s)]
      BY <2>5 DEF markDeliverable
    <3>3. /\ queue' = [queue EXCEPT ![p] = q \ Ready(q)]
          /\ pendingMsgSet' = [pendingMsgSet EXCEPT ![p] =
                                IF Ready(q) # {} THEN @ \ {m.id} ELSE @]
      BY <2>5 DEF markDeliverable
    <3> HIDE DEF q
    <3>4. Ready(q) \in SUBSET q
      BY DEF Ready
    <3>5. IsFiniteSet(Ready(q)) /\ IsFiniteSet(q \ Ready(q))
      BY <3>1, <3>4, FS_Subset
    <3>6. Ids(s) \in Seq(Id)
      BY <3>1, <3>4, <3>5, SortedIds
    <3>7. delivered' \in [Proc -> Seq(Id)]
      BY <3>2, <3>6, ConcatProperties DEF TypeOK
    <3>8. queue' \in [Proc -> SUBSET PendingMsg] /\ \A r \in Proc : IsFiniteSet(queue'[r])
      BY <3>1, <3>3, <3>5 DEF TypeOK
    <3>9. pendingMsgSet' \in [Proc -> SUBSET Id]
      BY <3>3 DEF TypeOK
    <3> QED
      BY <1>6, <2>2, <2>3, <2>4, <3>7, <3>8, <3>9 DEF processSeqMsg, TypeOK
  <2>6. CASE UNCHANGED <<queue, pendingMsgSet, delivered>>
    BY <1>6, <2>2, <2>3, <2>4, <2>6 DEF processSeqMsg, TypeOK
  <2> QED  BY <1>6, <2>5, <2>6 DEF processSeqMsg
<1>7. ASSUME NEW p \in Proc, NEW m \in net, processSeqAckMsg(p, m) PROVE TypeOK'
  <2>1. net' \subseteq Message
    BY <1>7, ReceiveType DEF processSeqAckMsg
  <2> QED
    BY <1>7, <2>1 DEF processSeqAckMsg, TypeOK
<1>8. ASSUME NEW m \in net, Lose(m) PROVE TypeOK'
  BY <1>8 DEF Lose, TypeOK
<1>9. CASE UNCHANGED vars
  BY <1>9 DEF vars, TypeOK
<1> QED
  BY <1>1, <1>2, <1>3, <1>4, <1>5, <1>6, <1>7, <1>8, <1>9 DEF Next, Receive

\* Every reachable state is well typed: in particular no handler stores a
\* value the code's types do not allow, and the hold-back queues are finite.
THEOREM TypeCorrect == Spec => []TypeOK
BY TypeInit, TypeNext, PTL DEF Spec

----------------------------------------------------------------------------
(* Proposals and final numbers.                                            *)

\* A datagram in transit after a receipt was in transit before, or was sent.
LEMMA NetAfter ==
    ASSUME NEW m, NEW out, ReceiveAndSend(m, out)
    PROVE  \A x \in net' : x \in net \/ x \in out
BY DEF ReceiveAndSend

\* At most one process wins.
LEMMA WinnerUnique ==
    ASSUME NEW proposals \in [Proc -> Nat], NEW v \in Proc, NEW w \in Proc,
           Wins(proposals, v), Wins(proposals, w)
    PROVE  v = w
<1>1. v \in Nat /\ w \in Nat
  BY NAssumption DEF Proc
<1>2. proposals[v] \in Nat /\ proposals[w] \in Nat
  OBVIOUS
<1> QED  BY <1>1, <1>2 DEF Wins

\* The final number of a message and its proposer are determined.
LEMMA FinalUnique ==
    ASSUME TypeOK, NEW k \in Id, NEW s, NEW w, FinalIs(k, s, w)
    PROVE  /\ w \in Proc /\ w = FinalProposer(k) /\ s = FinalSeq(k)
           /\ s \in Nat /\ s > 0
           /\ \A p \in Proc : Proposals(k)[p] > 0 /\ Proposals(k)[p] <= s
<1>1. Proposals(k) \in [Proc -> Nat]
  BY DEF TypeOK, Proposals
<1>2. w \in Proc /\ Wins(Proposals(k), w) /\ s = Proposals(k)[w]
  BY DEF FinalIs
<1>3. FinalProposer(k) \in Proc /\ Wins(Proposals(k), FinalProposer(k))
  BY <1>2 DEF FinalProposer
<1>4. w = FinalProposer(k)
  BY <1>1, <1>2, <1>3, WinnerUnique
<1>5. \A p \in Proc : Proposals(k)[p] > 0
  BY DEF FinalIs, Complete
<1>6. \A p \in Proc : Proposals(k)[p] <= s
  BY <1>1, <1>2 DEF Wins
<1> QED  BY <1>1, <1>2, <1>4, <1>5, <1>6 DEF FinalSeq

\* A recorded proposal is never changed.
LEMMA ProposalsStable ==
    ASSUME TypeOK, DataUnanswered, [Next]_vars, NEW k \in Id
    PROVE  /\ \A p \in Proc : Proposals(k)[p] # 0 => Proposals(k)'[p] = Proposals(k)[p]
           /\ Complete(Proposals(k)) => Proposals(k)' = Proposals(k)
<1>1. CASE UNCHANGED proposedSeqIdMap
  BY <1>1 DEF Proposals
<1>2. ASSUME NEW r \in Proc, NEW m \in net, processAckMsg(r, m),
             ~ UNCHANGED proposedSeqIdMap
      PROVE  /\ \A p \in Proc : Proposals(k)[p] # 0
                    => Proposals(k)'[p] = Proposals(k)[p]
             /\ Complete(Proposals(k)) => Proposals(k)' = Proposals(k)
  <2>1. m \in AckMsg
    BY <1>2, ReceivedMessage DEF processAckMsg, Arrives
  <2>2. /\ DataMessage(m.id, m.proposer) \in dataMsgs[r]
        /\ proposedSeqIdMap' = [proposedSeqIdMap EXCEPT ![m.id] =
                [proposedSeqIdMap[m.id] EXCEPT ![m.proposer] = m.seq]]
    BY <1>2 DEF processAckMsg
  <2>3. Proposals(m.id)[m.proposer] = 0
    BY <2>2 DEF DataUnanswered, DataMessage
  <2>4. m.id \in Id /\ m.proposer \in Proc
    BY <2>1 DEF AckMsg
  <2>5. \A p \in Proc : Proposals(k)[p] # 0 => Proposals(k)'[p] = Proposals(k)[p]
    BY <2>2, <2>3, <2>4 DEF Proposals, TypeOK
  <2>6. ASSUME Complete(Proposals(k)) PROVE Proposals(k)' = Proposals(k)
    <3>1. k # m.id
      BY <2>3, <2>4, <2>6 DEF Complete
    <3> QED  BY <2>2, <3>1 DEF Proposals, TypeOK
  <2> QED  BY <2>5, <2>6
<1>3. UNCHANGED proposedSeqIdMap \/ \E r \in Proc, m \in net : processAckMsg(r, m)
  BY DEF Next, Receive, vars, multicast, SendDataMsgs, SendSeqMsgs,
         processDataMsg, processSeqMsg, processSeqAckMsg, Lose
<1> QED  BY <1>1, <1>2, <1>3

\* So a final number stays final.
LEMMA FinalStable ==
    ASSUME TypeOK, DataUnanswered, [Next]_vars, NEW k \in Id, NEW s, NEW w,
           FinalIs(k, s, w)
    PROVE  FinalIs(k, s, w)'
<1>1. Complete(Proposals(k))
  BY DEF FinalIs
<1>2. Proposals(k)' = Proposals(k)
  BY <1>1, ProposalsStable
<1> QED  BY <1>2 DEF FinalIs

----------------------------------------------------------------------------
(* The sender side of the invariant.                                       *)

\* No step disturbs what a sender knows: Data only goes to processes that
\* have not proposed, and every Seq carries the final number of its id.
LEMMA SenderInvNext ==
    TypeOK /\ SenderInv /\ [Next]_vars => SenderInv'
<1> SUFFICES ASSUME TypeOK, SenderInv, [Next]_vars PROVE SenderInv'
  OBVIOUS
<1> USE DEF SenderInv
<1>1. ASSUME UNCHANGED <<msgId, dataMsgs, proposedSeqIdMap>>
      PROVE  DataUnanswered' /\ ProposalsOfSent'
  BY <1>1 DEF DataUnanswered, ProposalsOfSent, Proposals
<1>2. ASSUME \A p \in Proc : seqMsgs'[p] \subseteq seqMsgs[p],
             \A x \in net' : x.type = "Seq" => x \in net \/ \E p \in Proc : x \in seqMsgs[p]
      PROVE  SeqIsFinal'
  <2>1. \A p \in Proc : \A x \in seqMsgs[p] : FinalIs(x.id, x.seq, x.proposer)'
    <3> SUFFICES ASSUME NEW p \in Proc, NEW x \in seqMsgs[p]
                 PROVE  FinalIs(x.id, x.seq, x.proposer)'
      OBVIOUS
    <3>1. x.id \in Id
      BY DEF TypeOK, SeqMsg
    <3> QED  BY <3>1, FinalStable DEF SeqIsFinal
  <2>2. \A x \in net : x.type = "Seq" => FinalIs(x.id, x.seq, x.proposer)'
    BY ReceivedMessage, FinalStable DEF SeqIsFinal
  <2> QED  BY <1>2, <2>1, <2>2 DEF SeqIsFinal
<1>3. ASSUME NEW p \in Proc, multicast(p) PROVE SenderInv'
  <2>1. SeqIsFinal'
    BY <1>3, <1>2 DEF multicast
  <2>2. /\ msgId' = [msgId EXCEPT ![p] = @ + 1]
        /\ proposedSeqIdMap' = proposedSeqIdMap
        /\ dataMsgs' = [dataMsgs EXCEPT ![p] =
                          @ \cup {DataMessage(<<p, msgId[p] + 1>>, r) : r \in Proc}]
    BY <1>3 DEF multicast
  <2>3. msgId[p] \in Nat /\ <<p, msgId[p] + 1>> \in Id
    BY <1>3, MsgCountAssumption DEF multicast, TypeOK, Id
  <2>4. ProposalsOfSent'
    <3>1. \A r \in Proc : msgId'[r] \in Nat /\ msgId[r] \in Nat /\ msgId'[r] >= msgId[r]
      BY <2>2 DEF TypeOK
    <3>2. \A k \in Id : Sender(k) \in Proc /\ k[2] \in Nat
      BY MessageTypes, SendersAssumption DEF Id, Sender
    <3> QED  BY <2>2, <3>1, <3>2 DEF ProposalsOfSent, Proposals
  <2>5. DataUnanswered'
    <3> SUFFICES ASSUME NEW r \in Proc, NEW x \in dataMsgs'[r]
                 PROVE  /\ Sender(x.id) = r /\ x.id[2] <= msgId'[r]
                        /\ proposedSeqIdMap'[x.id][x.to] = 0
      BY DEF DataUnanswered, Proposals
    <3>1. CASE x \in dataMsgs[r]
      <4>1. x.id[2] <= msgId[r] /\ Sender(x.id) = r /\ Proposals(x.id)[x.to] = 0
        BY <3>1 DEF DataUnanswered
      <4>2. x.id \in Id
        BY <3>1 DEF TypeOK, DataMsg
      <4>3. x.id[2] \in Nat
        BY <4>2 DEF Id
      <4>4. msgId[r] \in Nat /\ msgId'[r] >= msgId[r] /\ msgId'[r] \in Nat
        BY <2>2 DEF TypeOK
      <4> QED  BY <2>2, <4>1, <4>3, <4>4 DEF Proposals
    <3>2. CASE x \notin dataMsgs[r]
      <4>1. r = p
        BY <2>2, <3>2 DEF TypeOK
      <4>2. PICK v \in Proc : x = DataMessage(<<p, msgId[p] + 1>>, v)
        BY <2>2, <3>2, <4>1 DEF TypeOK
      <4>3. x.id = <<p, msgId[p] + 1>> /\ x.to = v
        BY <4>2 DEF DataMessage
      <4>4. x.id[1] = p /\ x.id[2] = msgId[p] + 1
        BY <4>3
      <4>5. proposedSeqIdMap[x.id][v] = 0
        BY <2>3, <4>3, <4>4 DEF ProposalsOfSent, Sender, Proposals
      <4> QED  BY <2>2, <2>3, <4>1, <4>3, <4>4, <4>5 DEF Sender, TypeOK
    <3> QED  BY <3>1, <3>2
  <2> QED  BY <2>1, <2>4, <2>5
<1>4. ASSUME NEW p \in Proc, SendDataMsgs(p) PROVE SenderInv'
  <2>1. \A x \in dataMsgs[p] : x.type = "Data"
    BY DEF TypeOK, DataMsg
  <2>2. \A x \in net' : x.type = "Seq" => x \in net
    BY <1>4, <2>1 DEF SendDataMsgs
  <2> QED  BY <1>1, <1>2, <1>4, <2>2 DEF SendDataMsgs
<1>5. ASSUME NEW p \in Proc, SendSeqMsgs(p) PROVE SenderInv'
  BY <1>1, <1>2, <1>5 DEF SendSeqMsgs
<1>6. ASSUME NEW p \in Proc, NEW m \in net, processDataMsg(p, m) PROVE SenderInv'
  <2>1. \A x \in net' : x.type = "Seq" => x \in net
    BY <1>6 DEF processDataMsg, AddDataMsg, RepeatAck, AckLookupFails,
                ReceiveAndSend, AckMessage
  <2> QED  BY <1>1, <1>2, <1>6, <2>1 DEF processDataMsg
<1>7. ASSUME NEW p \in Proc, NEW m \in net, processSeqMsg(p, m) PROVE SenderInv'
  <2>1. \A x \in net' : x.type = "Seq" => x \in net
    BY <1>7 DEF processSeqMsg, ReceiveAndSend, SeqAckMessage
  <2> QED  BY <1>1, <1>2, <1>7, <2>1 DEF processSeqMsg
<1>8. ASSUME NEW p \in Proc, NEW m \in net, processSeqAckMsg(p, m) PROVE SenderInv'
  <2>1. \A x \in net' : x.type = "Seq" => x \in net
    BY <1>8 DEF processSeqAckMsg, ReceiveAndSend
  <2>2. \A r \in Proc : seqMsgs'[r] \subseteq seqMsgs[r]
    BY <1>8 DEF processSeqAckMsg, TypeOK
  <2> QED  BY <1>1, <1>2, <1>8, <2>1, <2>2 DEF processSeqAckMsg
<1>9. ASSUME NEW p \in Proc, NEW m \in net, processAckMsg(p, m) PROVE SenderInv'
  <2>1. \A x \in net' : x \in net
    BY <1>9, NetAfter DEF processAckMsg
  <2>2. CASE UNCHANGED <<dataMsgs, proposedSeqIdMap, seqMsgs>>
    BY <1>1, <1>2, <1>9, <2>1, <2>2 DEF processAckMsg
  <2>3. CASE ~ UNCHANGED <<dataMsgs, proposedSeqIdMap, seqMsgs>>
    <3> DEFINE d == DataMessage(m.id, m.proposer)
               proposals == [proposedSeqIdMap[m.id] EXCEPT ![m.proposer] = m.seq]
    <3>1. /\ d \in dataMsgs[p]
          /\ dataMsgs' = [dataMsgs EXCEPT ![p] = @ \ {d}]
          /\ proposedSeqIdMap' = [proposedSeqIdMap EXCEPT ![m.id] = proposals]
          /\ QueueSeqMsg(p, m.id, proposals)
          /\ msgId' = msgId
      BY <1>9, <2>3 DEF processAckMsg
    <3>2. m \in AckMsg
      BY <1>9, ReceivedMessage DEF processAckMsg, Arrives
    <3>3. m.id \in Id /\ m.proposer \in Proc /\ m.seq \in Nat
      BY <3>2 DEF AckMsg
    <3>4. d.id = m.id /\ d.to = m.proposer
      BY DEF DataMessage
    <3>5. Proposals(m.id)' = proposals
      BY <3>1, <3>3 DEF Proposals, TypeOK
    <3> HIDE DEF d
    <3>6. DataUnanswered'
      <4> SUFFICES ASSUME NEW r \in Proc, NEW x \in dataMsgs'[r]
                   PROVE  /\ Sender(x.id) = r /\ x.id[2] <= msgId'[r]
                          /\ proposedSeqIdMap'[x.id][x.to] = 0
        BY DEF DataUnanswered, Proposals
      <4>1. x \in dataMsgs[r] /\ (r = p => x # d)
        BY <3>1 DEF TypeOK
      <4>2. Sender(x.id) = r /\ x.id[2] <= msgId[r] /\ Proposals(x.id)[x.to] = 0
        BY <4>1 DEF DataUnanswered
      <4>3. Sender(m.id) = p
        BY <3>1, <3>4 DEF DataUnanswered
      <4>4. x = DataMessage(x.id, x.to) /\ x.id \in Id /\ x.to \in Proc
        BY <4>1 DEF TypeOK, DataMsg, DataMessage
      <4>5. ~ (x.id = m.id /\ x.to = m.proposer)
        BY <4>1, <4>2, <4>3, <4>4 DEF d
      <4> QED  BY <3>1, <3>3, <4>2, <4>4, <4>5 DEF Proposals, TypeOK
    <3>7. ProposalsOfSent'
      <4>1. m.id[2] <= msgId[Sender(m.id)]
        BY <3>1, <3>4 DEF DataUnanswered
      <4>2. \A k \in Id, r \in Proc :
                k # m.id => proposedSeqIdMap'[k][r] = proposedSeqIdMap[k][r]
        BY <3>1, <3>3 DEF TypeOK
      <4> QED  BY <3>1, <4>1, <4>2 DEF ProposalsOfSent, Proposals
    <3>8. SeqIsFinal'
      <4>1. CASE Complete(proposals)
        <5>1. PICK w \in Proc :
                /\ Wins(proposals, w)
                /\ seqMsgs' = [seqMsgs EXCEPT ![p] =
                      @ \cup {SeqMessage(m.id, r, proposals[w], w) : r \in Proc}]
          BY <3>1, <4>1 DEF QueueSeqMsg
        <5> PICK final \in Nat : final = proposals[w]
          BY <3>3 DEF TypeOK
        <5>2. FinalIs(m.id, final, w)'
          BY <3>5, <4>1, <5>1 DEF FinalIs
        <5>3. \A x \in net' : x.type = "Seq" => FinalIs(x.id, x.seq, x.proposer)'
          BY <2>1, ReceivedMessage, FinalStable DEF SeqIsFinal
        <5>4. ASSUME NEW r \in Proc, NEW x \in seqMsgs'[r]
              PROVE  FinalIs(x.id, x.seq, x.proposer)'
          <6>1. CASE x \in seqMsgs[r]
            <7>1. x.id \in Id
              BY <6>1 DEF TypeOK, SeqMsg
            <7> QED  BY <6>1, <7>1, FinalStable DEF SeqIsFinal
          <6>2. CASE x \notin seqMsgs[r]
            <7>1. \E v \in Proc : x = SeqMessage(m.id, v, proposals[w], w)
              BY <5>1, <6>2 DEF TypeOK
            <7>2. x.id = m.id /\ x.seq = final /\ x.proposer = w
              BY <7>1 DEF SeqMessage
            <7> QED  BY <5>2, <7>2
          <6> QED  BY <6>1, <6>2
        <5> QED  BY <5>3, <5>4 DEF SeqIsFinal
      <4>2. CASE ~ Complete(proposals)
        <5>1. seqMsgs' = seqMsgs
          BY <3>1, <4>2 DEF QueueSeqMsg
        <5> QED  BY <1>2, <2>1, <5>1
      <4> QED  BY <4>1, <4>2
    <3> QED  BY <3>6, <3>7, <3>8
  <2> QED  BY <2>2, <2>3
<1>10. ASSUME NEW m \in net, Lose(m) PROVE SenderInv'
  BY <1>1, <1>2, <1>10 DEF Lose
<1>11. CASE UNCHANGED vars
  BY <1>1, <1>2, <1>11 DEF vars
<1> QED
  BY <1>3, <1>4, <1>5, <1>6, <1>7, <1>8, <1>9, <1>10, <1>11 DEF Next, Receive

----------------------------------------------------------------------------
(* The hold-back queue.                                                    *)

\* With unique ids, Mark replaces the one entry of the id.
LEMMA MarkUnique ==
    ASSUME NEW q \in SUBSET PendingMsg, NEW seq \in Nat, NEW w \in Proc,
           NEW e \in q, \A f, g \in q : f.id = g.id => f = g
    PROVE  Mark(q, e.id, seq, w) = (q \ {e}) \cup
              {[id |-> e.id, seq |-> seq, proposer |-> w, deliverable |-> TRUE]}
<1> DEFINE e1 == [id |-> e.id, seq |-> seq, proposer |-> w, deliverable |-> TRUE]
<1>1. ~ Less(e, e)
  BY NAssumption DEF PendingMsg, Less, Proc
<1>3. \A f \in q : f.id = e.id => f = e
  OBVIOUS
<1>4. Mark(q, e.id, seq, w) = {IF f = e THEN e1 ELSE f : f \in q}
  <2>1. \A f \in q : (f.id = e.id /\ \A g \in q : g.id = e.id => ~ Less(g, f)) <=> f = e
    BY <1>1, <1>3
  <2>2. \A f \in q :
          (IF f.id = e.id /\ \A g \in q : g.id = e.id => ~ Less(g, f)
           THEN [id |-> e.id, seq |-> seq, proposer |-> w, deliverable |-> TRUE]
           ELSE f) = (IF f = e THEN e1 ELSE f)
    BY <2>1, Zenon
  <2> HIDE DEF e1
  <2> QED  BY <2>2, Zenon DEF Mark
<1> HIDE DEF e1
<1>5. {IF f = e THEN e1 ELSE f : f \in q} = (q \ {e}) \cup {e1}
  OBVIOUS
<1> QED  BY <1>4, <1>5 DEF e1

\* Everything in front of a ready entry is delivered with it: what stays in
\* the queue has a larger number, and nothing of it is ready.
LEMMA ReadyBelowRest ==
    ASSUME NEW q \in SUBSET PendingMsg, NEW f \in Ready(q), NEW e \in q \ Ready(q)
    PROVE  f.seq < e.seq
<1>1. f \in q /\ f.deliverable /\ \A u \in q : Less(u, f) => u.deliverable
  BY DEF Ready
<1>2. \A u \in q : ~ u.deliverable => f.seq < u.seq
  <2> SUFFICES ASSUME NEW u \in q, ~ u.deliverable PROVE f.seq < u.seq
    OBVIOUS
  <2>1. ~ Less(u, f)
    BY <1>1
  <2>2. u.seq \in Nat /\ f.seq \in Nat /\ u.deliverable # f.deliverable
    BY <1>1 DEF PendingMsg
  <2> QED  BY <1>1, <2>1, <2>2 DEF Less
<1>3. CASE ~ e.deliverable
  BY <1>2, <1>3
<1>4. CASE e.deliverable
  <2>1. PICK u \in q : Less(u, e) /\ ~ u.deliverable
    BY <1>4 DEF Ready
  <2>2. u.seq <= e.seq
    BY <2>1 DEF Less, PendingMsg
  <2>3. u.seq \in Nat /\ f.seq \in Nat /\ e.seq \in Nat
    BY <1>1 DEF PendingMsg
  <2> QED  BY <1>2, <2>1, <2>2, <2>3
<1> QED  BY <1>3, <1>4

\* The delivery loop stops only when the front entry is undeliverable or
\* the deque is empty.
LEMMA RestNotReady ==
    ASSUME NEW q \in SUBSET PendingMsg
    PROVE  Ready(q \ Ready(q)) = {}
BY DEF Ready

\* Appending the ids of a batch to a log.
LEMMA AppendIds ==
    ASSUME NEW log \in Seq(Id), NEW S \in SUBSET PendingMsg, IsFiniteSet(S),
           NEW s \in Sorted(S)
    PROVE  LET new == log \o Ids(s) IN
           /\ new \in Seq(Id)
           /\ Len(log) \in Nat /\ Cardinality(S) \in Nat
           /\ Len(new) = Len(log) + Cardinality(S)
           /\ \A i \in 1..Len(log) : new[i] = log[i]
           /\ \A i \in 1..Cardinality(S) : new[Len(log) + i] = s[i].id
           /\ \A i \in (Len(log) + 1)..Len(new) :
                /\ i - Len(log) \in 1..Cardinality(S)
                /\ s[i - Len(log)] \in S
                /\ new[i] = s[i - Len(log)].id
<1>1. /\ Ids(s) \in Seq(Id)
      /\ Len(Ids(s)) = Cardinality(S)
      /\ Cardinality(S) \in Nat
      /\ \A i \in 1..Cardinality(S) : s[i] \in S /\ Ids(s)[i] = s[i].id
  BY SortedIds
<1> DEFINE t == Ids(s)
           new == log \o t
<1> HIDE DEF t
<1>2. Len(log) \in Nat
  BY LenProperties
<1>3. /\ new \in Seq(Id)
      /\ Len(new) = Len(log) + Len(t)
      /\ \A i \in 1..(Len(log) + Len(t)) :
            new[i] = IF i <= Len(log) THEN log[i] ELSE t[i - Len(log)]
  BY <1>1, ConcatProperties DEF t
<1>4. Len(t) = Cardinality(S) /\ \A i \in 1..Cardinality(S) : s[i] \in S /\ t[i] = s[i].id
  BY <1>1 DEF t
<1> HIDE DEF new
<1> DEFINE c == Cardinality(S)
<1> HIDE DEF c
<1>5. c \in Nat /\ Len(t) = c /\ \A i \in 1..c : s[i] \in S /\ t[i] = s[i].id
  BY <1>1, <1>4 DEF c
<1>6. \A i \in 1..Len(log) : new[i] = log[i]
  BY <1>2, <1>3, <1>5
<1>7. \A i \in 1..c : new[Len(log) + i] = s[i].id
  <2> SUFFICES ASSUME NEW i \in 1..c PROVE new[Len(log) + i] = s[i].id
    OBVIOUS
  <2>1. /\ Len(log) + i \in 1..(Len(log) + Len(t))
        /\ ~ (Len(log) + i <= Len(log)) /\ (Len(log) + i) - Len(log) = i
    BY <1>2, <1>5
  <2> QED  BY <1>3, <1>5, <2>1
<1>8. \A i \in (Len(log) + 1)..Len(new) :
        i - Len(log) \in 1..c /\ s[i - Len(log)] \in S /\ new[i] = s[i - Len(log)].id
  <2> SUFFICES ASSUME NEW i \in (Len(log) + 1)..Len(new)
               PROVE  i - Len(log) \in 1..c /\ s[i - Len(log)] \in S
                      /\ new[i] = s[i - Len(log)].id
    OBVIOUS
  <2>1. i - Len(log) \in 1..c /\ i \in 1..(Len(log) + Len(t)) /\ ~ (i <= Len(log))
    BY <1>2, <1>3, <1>5
  <2> QED  BY <1>3, <1>5, <2>1
<1> QED
  BY <1>2, <1>3, <1>5, <1>6, <1>7, <1>8 DEF new, t, c

----------------------------------------------------------------------------
(* The receiver side of the invariant.                                     *)

\* The state the receiver side is about, the network excepted.
receiver == <<proposedSeqIdMap, ackMessageCache, queue, pendingMsgSet, delivered, crashed>>

\* Only issued ids reach the callback.
LEMMA DeliveredIds ==
    ASSUME TypeOK, NEW p \in Proc PROVE DeliveredAt(p) \subseteq Id
BY ElementOfSeq DEF TypeOK, DeliveredAt

\* A settled message has its final number, so every process proposed for it.
LEMMA SettledComplete ==
    ASSUME TypeOK, SettledIsFinal, NEW p \in Proc, NEW k \in Id, Settled(p, k)
    PROVE  Final(k) /\ Complete(Proposals(k))
<1>1. CASE k \in DeliveredAt(p)
  BY <1>1 DEF SettledIsFinal, Final, FinalIs
<1>2. CASE \E e \in queue[p] : e.id = k /\ e.deliverable
  BY <1>2 DEF SettledIsFinal, Final, FinalIs
<1> QED  BY <1>1, <1>2 DEF Settled

\* Steps that only change the network: new Acks repeat proposals and new Data
\* go to processes whose proposal is not recorded.
LEMMA PhaseNetwork ==
    ASSUME TypeOK, PhaseInv, UNCHANGED receiver,
           \A x \in net' : x.type = "Ack" =>
                x \in net \/ (x.seq # 0 /\ x.seq = Proposal(x.proposer, x.id)),
           \A k \in Id, p \in Proc : DataMessage(k, p) \in net' =>
                DataMessage(k, p) \in net \/ Proposals(k)[p] = 0
    PROVE  PhaseInv'
<1> USE DEF PhaseInv, receiver
<1>1. AckIsProposal'
  BY DEF AckIsProposal, Proposal, Proposals
<1>2. CacheAgrees' /\ ProposedIsHeld' /\ NothingReady' /\ NoCrash'
  BY DEF CacheAgrees, ProposedIsHeld, NothingReady, NoCrash, Proposals
<1>3. \A p \in Proc : DeliveredAt(p)' = DeliveredAt(p)
  BY DEF DeliveredAt
<1>4. \A p \in Proc, k \in Id : Settled(p, k)' <=> Settled(p, k)
  BY <1>3 DEF Settled
<1>5. QueueIdsUnique'
  BY <1>3 DEF QueueIdsUnique
<1>6. SeenIsKnown'
  BY <1>4 DEF SeenIsKnown, Proposal, Proposals
<1>7. \A k, n, w : FinalIs(k, n, w)' <=> FinalIs(k, n, w)
  BY DEF FinalIs, Proposals
<1>8. \A k : Final(k)' <=> Final(k)
  BY <1>7 DEF Final, Proposals
<1>9. ASSUME NEW p \in Proc, NEW k \in Id, Settled(p, k)
      PROVE  DataMessage(k, p) \notin net'
  <2>1. Proposals(k)[p] # 0
    BY <1>9, SettledComplete DEF Complete
  <2> QED  BY <1>9, <2>1 DEF SettledIsFinal
<1>10. SettledIsFinal'
  BY <1>3, <1>4, <1>7, <1>8, <1>9 DEF SettledIsFinal
<1> QED  BY <1>1, <1>2, <1>5, <1>6, <1>10

\* Recording a proposal does not change what was proposed.
LEMMA AckKeepsProposals ==
    ASSUME TypeOK, SenderInv, PhaseInv, NEW r \in Proc, NEW m \in net,
           processAckMsg(r, m)
    PROVE  /\ \A p \in Proc, k \in Id : Proposal(p, k)' = Proposal(p, k)
           /\ CacheAgrees'
<1>1. CASE UNCHANGED proposedSeqIdMap
  BY <1>1 DEF processAckMsg, Proposal, Proposals, PhaseInv, CacheAgrees
<1>2. CASE ~ UNCHANGED proposedSeqIdMap
  <2>1. /\ DataMessage(m.id, m.proposer) \in dataMsgs[r]
        /\ proposedSeqIdMap' = [proposedSeqIdMap EXCEPT ![m.id] =
                [proposedSeqIdMap[m.id] EXCEPT ![m.proposer] = m.seq]]
        /\ ackMessageCache' = ackMessageCache
        /\ m.type = "Ack"
    BY <1>2 DEF processAckMsg, Arrives
  <2>2. m.id \in Id /\ m.proposer \in Proc
    BY <2>1, ReceivedMessage DEF AckMsg
  <2>3. Proposals(m.id)[m.proposer] = 0
    BY <2>1 DEF SenderInv, DataUnanswered, DataMessage
  <2>4. m.seq # 0 /\ m.seq = Proposal(m.proposer, m.id)
    BY <2>1 DEF PhaseInv, AckIsProposal
  <2>5. m.seq = ackMessageCache[m.proposer][m.id]
    BY <2>3, <2>4 DEF Proposal
  <2>6. \A p \in Proc, k \in Id :
            Proposals(k)'[p] = IF p = m.proposer /\ k = m.id THEN m.seq ELSE Proposals(k)[p]
    BY <2>1, <2>2 DEF Proposals, TypeOK
  <2>7. \A p \in Proc, k \in Id : Proposal(p, k)' = Proposal(p, k)
    BY <2>1, <2>4, <2>5, <2>6 DEF Proposal
  <2>8. CacheAgrees'
    BY <2>1, <2>5, <2>6 DEF PhaseInv, CacheAgrees
  <2> QED  BY <2>7, <2>8
<1> QED  BY <1>1, <1>2

\* processAckMsg keeps the receivers' invariant: a proposal moves from the
\* Ack to proposedSeqIdMap.
LEMMA PhaseAck ==
    ASSUME TypeOK, SenderInv, PhaseInv, [Next]_vars,
           NEW r \in Proc, NEW m \in net, processAckMsg(r, m)
    PROVE  PhaseInv'
<1> USE DEF PhaseInv
<1>1. /\ \A p \in Proc, k \in Id : Proposal(p, k)' = Proposal(p, k)
      /\ CacheAgrees'
  BY AckKeepsProposals
<1>2. UNCHANGED <<ackMessageCache, queue, pendingMsgSet, delivered, crashed>>
  BY DEF processAckMsg
<1>3. \A x \in net' : x \in net
  BY NetAfter DEF processAckMsg
<1>4. AckIsProposal'
  <2> SUFFICES ASSUME NEW x \in net', x.type = "Ack"
               PROVE  x.seq # 0 /\ x.seq = Proposal(x.proposer, x.id)'
    BY DEF AckIsProposal
  <2>1. x.proposer \in Proc /\ x.id \in Id
    BY <1>3, ReceivedMessage DEF AckMsg
  <2> QED  BY <1>1, <1>3, <2>1 DEF AckIsProposal
<1>5. ProposedIsHeld' /\ NothingReady' /\ NoCrash'
  BY <1>2 DEF ProposedIsHeld, NothingReady, NoCrash
<1>6. \A p \in Proc : DeliveredAt(p)' = DeliveredAt(p)
  BY <1>2 DEF DeliveredAt
<1>7. \A p \in Proc, k \in Id : Settled(p, k)' <=> Settled(p, k)
  BY <1>2, <1>6 DEF Settled
<1>8. QueueIdsUnique'
  BY <1>2, <1>6 DEF QueueIdsUnique
<1>9. SeenIsKnown'
  BY <1>1, <1>2, <1>7 DEF SeenIsKnown
<1>10. SettledIsFinal'
  <2>1. ASSUME NEW p \in Proc, NEW e \in queue'[p], e.deliverable
        PROVE  FinalIs(e.id, e.seq, e.proposer)'
    <3>1. e.id \in Id
      BY <1>2 DEF TypeOK, PendingMsg
    <3> QED  BY <1>2, <2>1, <3>1, FinalStable DEF SettledIsFinal, SenderInv
  <2>2. ASSUME NEW p \in Proc, NEW k \in DeliveredAt(p)'
        PROVE  Final(k)'
    <3>1. k \in Id /\ k \in DeliveredAt(p)
      BY <1>6, DeliveredIds
    <3>2. Settled(p, k)
      BY <3>1 DEF Settled
    <3>3. Final(k) /\ Proposals(k)' = Proposals(k)
      BY <3>1, <3>2, SettledComplete, ProposalsStable DEF SenderInv
    <3> QED  BY <3>3 DEF Final, FinalIs
  <2>3. \A p \in Proc, k \in Id : Settled(p, k)' => DataMessage(k, p) \notin net'
    BY <1>3, <1>7 DEF SettledIsFinal
  <2> QED  BY <2>1, <2>2, <2>3 DEF SettledIsFinal
<1> QED  BY <1>1, <1>4, <1>5, <1>8, <1>9, <1>10

\* A Data that addToQueue accepts is new to the process.
LEMMA NewData ==
    ASSUME TypeOK, PhaseInv, NEW p \in Proc, NEW k \in Id,
           DataMessage(k, p) \in net, k \notin pendingMsgSet[p]
    PROVE  /\ ackMessageCache[p][k] = 0 /\ Proposal(p, k) = 0
           /\ ~ Settled(p, k)
           /\ k \notin DeliveredAt(p)
           /\ \A e \in queue[p] : e.id # k
<1> USE DEF PhaseInv
<1>1. ~ Settled(p, k)
  BY DEF SettledIsFinal
<1>2. \A e \in queue[p] : e.id # k
  BY <1>1 DEF Settled, ProposedIsHeld
<1>3. ackMessageCache[p][k] = 0
  BY <1>2 DEF ProposedIsHeld
<1>4. Proposal(p, k) = 0
  BY <1>1, <1>3 DEF SeenIsKnown
<1> QED  BY <1>1, <1>2, <1>3, <1>4 DEF Settled

\* A first Data keeps the receivers' invariant: the message becomes held
\* and its Ack cached.
LEMMA PhaseAdd ==
    ASSUME TypeOK, PhaseInv, NEW p \in Proc, NEW m \in net,
           processDataMsg(p, m), AddDataMsg(p, m)
    PROVE  PhaseInv'
<1> USE DEF PhaseInv
<1> DEFINE k == m.id
           n == ProposedSeq(p)
           e0 == [id |-> k, seq |-> n, proposer |-> p, deliverable |-> FALSE]
<1>1. k \in Id /\ m = DataMessage(k, p)
  BY ReceivedMessage DEF processDataMsg, Arrives
<1>2. n \in Nat /\ n # 0
  BY DEF ProposedSeq, TypeOK
<1>3. /\ k \notin pendingMsgSet[p]
      /\ pendingMsgSet' = [pendingMsgSet EXCEPT ![p] = @ \cup {k}]
      /\ queue' = [queue EXCEPT ![p] = @ \cup {e0}]
      /\ ackMessageCache' = [ackMessageCache EXCEPT ![p][k] = n]
      /\ UNCHANGED <<proposedSeqIdMap, delivered, crashed>>
      /\ \A x \in net' : x \in net \/ x = AckMessage(k, n, p)
  BY NetAfter DEF AddDataMsg, processDataMsg
<1>4. /\ ackMessageCache[p][k] = 0 /\ Proposal(p, k) = 0
      /\ ~ Settled(p, k)
      /\ k \notin DeliveredAt(p)
      /\ \A e \in queue[p] : e.id # k
  BY <1>1, <1>3, NewData
<1>5. e0.id = k /\ e0.seq = n /\ e0.proposer = p /\ e0.deliverable = FALSE
  OBVIOUS
<1> HIDE DEF k, n, e0
<1>6. \A r \in Proc, j \in Id :
        ackMessageCache'[r][j] = IF r = p /\ j = k THEN n ELSE ackMessageCache[r][j]
  BY <1>1, <1>3 DEF TypeOK
<1>7. /\ queue'[p] = queue[p] \cup {e0}
      /\ pendingMsgSet'[p] = pendingMsgSet[p] \cup {k}
      /\ \A r \in Proc : r # p => queue'[r] = queue[r] /\ pendingMsgSet'[r] = pendingMsgSet[r]
  BY <1>3 DEF TypeOK
<1>8. \A r \in Proc, j \in Id :
        Proposal(r, j)' = IF r = p /\ j = k THEN n ELSE Proposal(r, j)
  BY <1>2, <1>3, <1>6 DEF Proposal, Proposals
<1>9. \A r \in Proc : DeliveredAt(r)' = DeliveredAt(r)
  BY <1>3 DEF DeliveredAt
<1>10. \A r \in Proc, j \in Id : Settled(r, j)' <=> Settled(r, j)
  BY <1>5, <1>7, <1>9 DEF Settled
<1>11. AckIsProposal'
  <2> SUFFICES ASSUME NEW x \in net', x.type = "Ack"
               PROVE  x.seq # 0 /\ x.seq = Proposal(x.proposer, x.id)'
    BY DEF AckIsProposal
  <2>1. CASE x \in net
    <3>1. x.proposer \in Proc /\ x.id \in Id
      BY <2>1, ReceivedMessage DEF AckMsg
    <3>2. x.seq # 0 /\ x.seq = Proposal(x.proposer, x.id)
      BY <2>1 DEF AckIsProposal
    <3> QED  BY <1>4, <1>8, <3>1, <3>2
  <2>2. CASE x = AckMessage(k, n, p)
    <3>1. x.seq = n /\ x.id = k /\ x.proposer = p
      BY <2>2 DEF AckMessage
    <3> QED  BY <1>1, <1>2, <1>8, <3>1
  <2> QED  BY <1>3, <2>1, <2>2
<1>12. CacheAgrees'
  <2>1. Proposals(k)[p] = 0
    BY <1>4 DEF Proposal
  <2> QED  BY <1>3, <1>6, <2>1 DEF CacheAgrees, Proposals
<1>13. ProposedIsHeld'
  <2>1. ASSUME NEW r \in Proc, NEW e \in queue'[r], ~ e.deliverable
        PROVE  /\ e.proposer = r /\ e.seq = ackMessageCache'[r][e.id]
               /\ e.seq # 0 /\ e.id \in pendingMsgSet'[r]
    <3>1. CASE e = e0 /\ r = p
      BY <1>1, <1>2, <1>5, <1>6, <1>7, <3>1
    <3>2. CASE e \in queue[r]
      <4>1. e.id \in Id
        BY <3>2 DEF TypeOK, PendingMsg
      <4>2. ~ (r = p /\ e.id = k)
        BY <1>4, <3>2
      <4> QED  BY <1>6, <1>7, <2>1, <3>2, <4>1, <4>2 DEF ProposedIsHeld
    <3> QED  BY <1>7, <3>1, <3>2
  <2>2. ASSUME NEW r \in Proc, NEW j \in Id, ackMessageCache'[r][j] # 0
        PROVE  \E e \in queue'[r] : e.id = j /\ ~ e.deliverable
    <3>1. CASE r = p /\ j = k
      BY <1>5, <1>7, <3>1
    <3>2. CASE ~ (r = p /\ j = k)
      <4>1. PICK e \in queue[r] : e.id = j /\ ~ e.deliverable
        BY <1>6, <2>2, <3>2 DEF ProposedIsHeld
      <4> QED  BY <1>7, <4>1
    <3> QED  BY <3>1, <3>2
  <2> QED  BY <2>1, <2>2 DEF ProposedIsHeld
<1>14. QueueIdsUnique'
  BY <1>4, <1>5, <1>7, <1>9 DEF QueueIdsUnique
<1>15. SettledIsFinal'
  <2>1. ASSUME NEW r \in Proc, NEW e \in queue'[r], e.deliverable
        PROVE  FinalIs(e.id, e.seq, e.proposer)'
    <3>1. e \in queue[r]
      BY <1>5, <1>7, <2>1
    <3>2. FinalIs(e.id, e.seq, e.proposer)
      BY <2>1, <3>1 DEF SettledIsFinal
    <3> QED  BY <1>3, <3>2 DEF FinalIs, Proposals
  <2>2. ASSUME NEW r \in Proc, NEW j \in DeliveredAt(r)'
        PROVE  Final(j)'
    BY <1>3, <1>9 DEF SettledIsFinal, Final, FinalIs, Proposals
  <2>3. ASSUME NEW r \in Proc, NEW j \in Id, Settled(r, j)'
        PROVE  DataMessage(j, r) \notin net'
    <3>1. DataMessage(j, r) # AckMessage(k, n, p)
      BY DEF DataMessage, AckMessage
    <3> QED  BY <1>3, <1>10, <2>3, <3>1 DEF SettledIsFinal
  <2> QED  BY <2>1, <2>2, <2>3 DEF SettledIsFinal
<1>16. SeenIsKnown'
  BY <1>2, <1>6, <1>7, <1>8, <1>10 DEF SeenIsKnown
<1>17. NothingReady'
  <2> SUFFICES ASSUME NEW r \in Proc, NEW e \in Ready(queue'[r])
               PROVE  FALSE
    BY DEF NothingReady
  <2>1. e \in queue[r] /\ e.deliverable
    BY <1>5, <1>7 DEF Ready
  <2>2. PICK f \in queue[r] : Less(f, e) /\ ~ f.deliverable
    BY <2>1 DEF NothingReady, Ready
  <2> QED  BY <1>7, <2>2 DEF Ready
<1>18. NoCrash'
  BY <1>3 DEF NoCrash
<1> QED  BY <1>11, <1>12, <1>13, <1>14, <1>15, <1>16, <1>17, <1>18

\* processDataMsg keeps the receivers' invariant, and its lookup of the
\* cached Ack succeeds.
LEMMA PhaseData ==
    ASSUME TypeOK, PhaseInv, NEW p \in Proc, NEW m \in net, processDataMsg(p, m)
    PROVE  PhaseInv'
<1>1. m.id \in Id /\ m = DataMessage(m.id, p)
  BY ReceivedMessage DEF processDataMsg, Arrives
<1>2. ASSUME m.id \in pendingMsgSet[p] PROVE ackMessageCache[p][m.id] # 0
  BY <1>1, <1>2 DEF PhaseInv, SeenIsKnown, SettledIsFinal
<1>3. CASE AddDataMsg(p, m)
  BY <1>3, PhaseAdd
<1>4. CASE RepeatAck(p, m)
  <2>1. UNCHANGED receiver
    BY <1>4 DEF RepeatAck, processDataMsg, receiver
  <2>2. \A x \in net' : x \in net \/ x = AckMessage(m.id, ackMessageCache[p][m.id], p)
    BY <1>4, NetAfter DEF RepeatAck
  <2>3. \A x : x = AckMessage(m.id, ackMessageCache[p][m.id], p) =>
            x.seq # 0 /\ x.seq = Proposal(x.proposer, x.id)
    BY <1>4 DEF RepeatAck, AckMessage, Proposal
  <2>4. \A j \in Id, r \in Proc :
            DataMessage(j, r) # AckMessage(m.id, ackMessageCache[p][m.id], p)
    BY DEF DataMessage, AckMessage
  <2> QED  BY <2>1, <2>2, <2>3, <2>4, PhaseNetwork
<1>5. ~ AckLookupFails(p, m)
  BY <1>2 DEF AckLookupFails
<1> QED  BY <1>3, <1>4, <1>5 DEF processDataMsg

\* A Seq for a message that is already settled changes nothing here.
LEMMA SeqRepeated ==
    ASSUME TypeOK, SenderInv, PhaseInv, NEW p \in Proc, NEW m \in net,
           processSeqMsg(p, m), ackMessageCache[p][m.id] = 0
    PROVE  UNCHANGED receiver
<1> USE DEF PhaseInv
<1>1. m \in SeqMsg
  BY ReceivedMessage DEF processSeqMsg, Arrives
<1>2. m.id \in Id /\ m.seq \in Nat /\ m.proposer \in Proc
  BY <1>1 DEF SeqMsg
<1>3. FinalIs(m.id, m.seq, m.proposer)
  BY DEF SenderInv, SeqIsFinal, processSeqMsg, Arrives
<1>4. ackMessageCache' = ackMessageCache
  BY <1>2 DEF processSeqMsg, TypeOK
<1>5. CASE UNCHANGED <<queue, pendingMsgSet, delivered>>
  BY <1>4, <1>5 DEF processSeqMsg, receiver
<1>6. CASE markDeliverable(p, m)
  <2> DEFINE q == Mark(queue[p], m.id, m.seq, m.proposer)
  <2>1. \A e \in queue[p] : e.id = m.id =>
            e = [id |-> m.id, seq |-> m.seq, proposer |-> m.proposer, deliverable |-> TRUE]
    <3> SUFFICES ASSUME NEW e \in queue[p], e.id = m.id
                 PROVE  e = [id |-> m.id, seq |-> m.seq, proposer |-> m.proposer,
                             deliverable |-> TRUE]
      OBVIOUS
    <3>1. e \in PendingMsg
      BY DEF TypeOK
    <3>2. e.deliverable
      BY DEF ProposedIsHeld
    <3>3. FinalIs(e.id, e.seq, e.proposer)
      BY <3>2 DEF SettledIsFinal
    <3>4. e.seq = m.seq /\ e.proposer = m.proposer
      BY <1>2, <1>3, <3>3, FinalUnique
    <3> QED  BY <3>1, <3>2, <3>4 DEF PendingMsg
  <2>2. q = queue[p]
    BY <2>1, Zenon DEF Mark
  <2>3. Ready(q) = {}
    BY <2>2 DEF NothingReady
  <2>4. PICK s \in Sorted(Ready(q)) : delivered' = [delivered EXCEPT ![p] = @ \o Ids(s)]
    BY <1>6 DEF markDeliverable
  <2>5. delivered[p] \o Ids(s) = delivered[p]
    <3>1. Cardinality(Ready(q)) = 0
      BY <2>3, FS_EmptySet
    <3>2. Len(s) = 0
      BY <2>4, <3>1 DEF Sorted
    <3>3. Ids(s) = << >>
      BY <3>2 DEF Ids
    <3> QED  BY <3>3, ConcatEmptySeq DEF TypeOK
  <2>6. delivered' = delivered
    BY <2>4, <2>5 DEF TypeOK
  <2>7. queue' = queue /\ pendingMsgSet' = pendingMsgSet
    BY <1>6, <2>2, <2>3 DEF markDeliverable, TypeOK
  <2> QED  BY <1>4, <2>6, <2>7 DEF processSeqMsg, receiver
<1> QED  BY <1>5, <1>6 DEF processSeqMsg

\* What the first Seq of a message does: its entry e gets the final number and
\* the ready entries move from the queue q to the log, in the order s.
SeqEffect(p, m, e, q, s) ==
    /\ m.id \in Id /\ m.seq \in Nat /\ m.proposer \in Proc
    /\ FinalIs(m.id, m.seq, m.proposer)
    /\ e \in queue[p] /\ e.id = m.id /\ ~ e.deliverable
    /\ e.seq = ackMessageCache[p][m.id]
    /\ e.seq = Proposals(m.id)[p]
    /\ q = (queue[p] \ {e}) \cup {[id |-> m.id, seq |-> m.seq,
                                   proposer |-> m.proposer, deliverable |-> TRUE]}
    /\ q \in SUBSET PendingMsg /\ IsFiniteSet(Ready(q))
    /\ s \in Sorted(Ready(q))
    /\ delivered' = [delivered EXCEPT ![p] = @ \o Ids(s)]
    /\ queue' = [queue EXCEPT ![p] = q \ Ready(q)]
    /\ pendingMsgSet' = [pendingMsgSet EXCEPT ![p] =
                            IF Ready(q) # {} THEN @ \ {m.id} ELSE @]
    /\ ackMessageCache' = [ackMessageCache EXCEPT ![p][m.id] = 0]
    /\ latestSeqId' = [latestSeqId EXCEPT ![p] = IF m.seq > @ THEN m.seq ELSE @]
    /\ UNCHANGED <<proposedSeqIdMap, crashed>>

\* The first Seq of a message at a process marks the entry it holds and
\* delivers the deliverable front.
LEMMA SeqFirst ==
    ASSUME TypeOK, SenderInv, PhaseInv, NEW p \in Proc, NEW m \in net,
           processSeqMsg(p, m), ackMessageCache[p][m.id] # 0
    PROVE  \E e, q, s : SeqEffect(p, m, e, q, s)
<1> USE DEF PhaseInv
<1>1. m \in SeqMsg
  BY ReceivedMessage DEF processSeqMsg, Arrives
<1>2. m.id \in Id /\ m.seq \in Nat /\ m.proposer \in Proc
  BY <1>1 DEF SeqMsg
<1>3. FinalIs(m.id, m.seq, m.proposer)
  BY DEF SenderInv, SeqIsFinal, processSeqMsg, Arrives
<1>4. PICK e \in queue[p] : e.id = m.id /\ ~ e.deliverable
  BY <1>2 DEF ProposedIsHeld
<1>5. e.seq = ackMessageCache[p][m.id] /\ m.id \in pendingMsgSet[p]
  BY <1>4 DEF ProposedIsHeld
<1>6. Proposals(m.id)[p] # 0
  BY <1>3 DEF FinalIs, Complete
<1>7. e.seq = Proposals(m.id)[p]
  BY <1>2, <1>5, <1>6 DEF CacheAgrees
<1> DEFINE q == Mark(queue[p], m.id, m.seq, m.proposer)
<1>8. q = (queue[p] \ {e}) \cup {[id |-> m.id, seq |-> m.seq,
                                  proposer |-> m.proposer, deliverable |-> TRUE]}
  <2>1. \A f, g \in queue[p] : f.id = g.id => f = g
    BY DEF QueueIdsUnique
  <2>2. queue[p] \in SUBSET PendingMsg
    BY DEF TypeOK
  <2> QED  BY <1>2, <1>4, <2>1, <2>2, MarkUnique
<1>9. q \in SUBSET PendingMsg /\ IsFiniteSet(Ready(q))
  <2>1. q \in SUBSET PendingMsg /\ IsFiniteSet(q)
    BY <1>2, MarkType DEF TypeOK
  <2>2. Ready(q) \in SUBSET q
    BY DEF Ready
  <2> QED  BY <2>1, <2>2, FS_Subset
<1>10. markDeliverable(p, m)
  BY <1>5 DEF processSeqMsg
<1>11. PICK s \in Sorted(Ready(q)) : delivered' = [delivered EXCEPT ![p] = @ \o Ids(s)]
  BY <1>10 DEF markDeliverable
<1>12. /\ queue' = [queue EXCEPT ![p] = q \ Ready(q)]
       /\ pendingMsgSet' = [pendingMsgSet EXCEPT ![p] =
                                IF Ready(q) # {} THEN @ \ {m.id} ELSE @]
  BY <1>10 DEF markDeliverable
<1>13. Marked(p, m)
  BY <1>4, <1>5 DEF Marked
<1>14. /\ ackMessageCache' = [ackMessageCache EXCEPT ![p][m.id] = 0]
       /\ latestSeqId' = [latestSeqId EXCEPT ![p] = IF m.seq > @ THEN m.seq ELSE @]
       /\ UNCHANGED <<proposedSeqIdMap, crashed>>
  BY <1>13 DEF processSeqMsg
<1> HIDE DEF q
<1>15. SeqEffect(p, m, e, q, s)
  BY <1>2, <1>3, <1>4, <1>5, <1>7, <1>8, <1>9, <1>11, <1>12, <1>14 DEF SeqEffect
<1> QED  BY <1>15

\* The delivered ids after the front of a deque was delivered.
LEMMA DeliveredAfter ==
    ASSUME TypeOK, NEW p \in Proc, NEW q \in SUBSET PendingMsg, IsFiniteSet(Ready(q)),
           NEW s \in Sorted(Ready(q)), delivered' = [delivered EXCEPT ![p] = @ \o Ids(s)]
    PROVE  /\ DeliveredAt(p)' = DeliveredAt(p) \cup {f.id : f \in Ready(q)}
           /\ \A r \in Proc : r # p => DeliveredAt(r)' = DeliveredAt(r)
<1> DEFINE log == delivered[p]
           new == log \o Ids(s)
           S == Ready(q)
<1>1. log \in Seq(Id) /\ S \in SUBSET PendingMsg /\ IsFiniteSet(S) /\ s \in Sorted(S)
  BY DEF TypeOK, Ready
<1>2. delivered'[p] = new /\ \A r \in Proc : r # p => delivered'[r] = delivered[r]
  BY DEF TypeOK
<1>3. /\ Len(log) \in Nat /\ Cardinality(S) \in Nat
      /\ Len(new) = Len(log) + Cardinality(S)
      /\ \A i \in 1..Len(log) : new[i] = log[i]
      /\ \A i \in 1..Cardinality(S) : new[Len(log) + i] = s[i].id
      /\ \A i \in (Len(log) + 1)..Len(new) :
            i - Len(log) \in 1..Cardinality(S) /\ s[i - Len(log)] \in S
            /\ new[i] = s[i - Len(log)].id
  BY <1>1, AppendIds
<1>4. \A f \in S : \E i \in 1..Cardinality(S) : s[i] = f
  BY <1>1 DEF Sorted
<1> HIDE DEF S, new, log
<1>5. {new[i] : i \in 1..Len(new)} = {log[i] : i \in 1..Len(log)} \cup {f.id : f \in S}
  <2>1. ASSUME NEW i \in 1..Len(new)
        PROVE  new[i] \in {log[j] : j \in 1..Len(log)} \cup {f.id : f \in S}
    <3>1. CASE i <= Len(log)
      <4>1. i \in 1..Len(log)
        BY <1>3, <3>1
      <4> QED  BY <1>3, <4>1
    <3>2. CASE ~ (i <= Len(log))
      <4>1. i \in (Len(log) + 1)..Len(new)
        BY <1>3, <3>2
      <4> QED  BY <1>3, <4>1
    <3> QED  BY <3>1, <3>2
  <2>2. ASSUME NEW i \in 1..Len(log) PROVE log[i] \in {new[j] : j \in 1..Len(new)}
    <3>1. i \in 1..Len(new) /\ new[i] = log[i]
      BY <1>3
    <3> QED  BY <3>1
  <2>3. ASSUME NEW f \in S PROVE f.id \in {new[j] : j \in 1..Len(new)}
    <3>1. PICK i \in 1..Cardinality(S) : s[i] = f
      BY <1>4
    <3>2. Len(log) + i \in 1..Len(new) /\ new[Len(log) + i] = f.id
      BY <1>3, <3>1
    <3> QED  BY <3>2
  <2> QED  BY <2>1, <2>2, <2>3
<1>6. DeliveredAt(p)' = {new[i] : i \in 1..Len(new)}
  BY <1>2 DEF DeliveredAt
<1>7. DeliveredAt(p) = {log[i] : i \in 1..Len(log)}
  BY DEF DeliveredAt, log
<1>8. \A r \in Proc : r # p => DeliveredAt(r)' = DeliveredAt(r)
  BY <1>2 DEF DeliveredAt
<1> QED  BY <1>5, <1>6, <1>7, <1>8 DEF S

\* The delivered ids after the first Seq of a message.
LEMMA DeliveredAfterSeq ==
    ASSUME TypeOK, NEW p \in Proc, NEW m, NEW e, NEW q, NEW s, SeqEffect(p, m, e, q, s)
    PROVE  /\ DeliveredAt(p)' = DeliveredAt(p) \cup {f.id : f \in Ready(q)}
           /\ \A r \in Proc : r # p => DeliveredAt(r)' = DeliveredAt(r)
BY DeliveredAfter DEF SeqEffect

\* The network after a Seq: the SeqAck is new and, on a link that keeps the
\* order, the Data of the same message is gone.
LEMMA NetAfterSeq ==
    ASSUME NEW p \in Proc, NEW m \in net, processSeqMsg(p, m)
    PROVE  /\ \A x \in net' : x.type = "Ack" => x \in net
           /\ \A k, r : DataMessage(k, r) \in net' =>
                    /\ DataMessage(k, r) \in net
                    /\ Fifo => ~ (k = m.id /\ r = p)
<1>1. \A k, r : DataMessage(k, r) # SeqAckMessage(m.id, p)
  BY DEF DataMessage, SeqAckMessage
<1>2. SeqAckMessage(m.id, p).type # "Ack"
  BY DEF SeqAckMessage
<1>3. Fifo => Overtaken(m) = {DataMessage(m.id, p)}
  BY DEF processSeqMsg, Arrives, Overtaken
<1>4. ReceiveAndSend(m, {SeqAckMessage(m.id, p)})
  BY DEF processSeqMsg
<1> QED  BY <1>1, <1>2, <1>3, <1>4 DEF ReceiveAndSend

\* processSeqMsg keeps the receivers' invariant, for a first Seq and for a
\* duplicate.
LEMMA PhaseSeq ==
    ASSUME TypeOK, SenderInv, PhaseInv, Fifo, NEW p \in Proc, NEW m \in net,
           processSeqMsg(p, m)
    PROVE  PhaseInv'
<1> USE DEF PhaseInv
<1>1. CASE ackMessageCache[p][m.id] = 0
  BY <1>1, SeqRepeated, NetAfterSeq, PhaseNetwork
<1>2. CASE ackMessageCache[p][m.id] # 0
  <2>1. PICK e0, q, s : SeqEffect(p, m, e0, q, s)
    BY <1>2, SeqFirst
  <2> DEFINE k == m.id
             R == Ready(q)
             e1 == [id |-> k, seq |-> m.seq, proposer |-> m.proposer,
                    deliverable |-> TRUE]
  <2>2. /\ k \in Id /\ FinalIs(k, m.seq, m.proposer)
        /\ e0 \in queue[p] /\ e0.id = k /\ ~ e0.deliverable
        /\ e0.seq = ackMessageCache[p][k] /\ e0.seq = Proposals(k)[p]
        /\ q = (queue[p] \ {e0}) \cup {e1} /\ q \in SUBSET PendingMsg
        /\ UNCHANGED <<proposedSeqIdMap, crashed>>
    BY <2>1 DEF SeqEffect
  <2>3. e1.id = k /\ e1.deliverable /\ e1.seq = m.seq /\ e1.proposer = m.proposer
    OBVIOUS
  <2>4. R \in SUBSET q /\ \A f \in R : f.deliverable
    BY DEF Ready
  <2>5. /\ DeliveredAt(p)' = DeliveredAt(p) \cup {f.id : f \in R}
        /\ \A r \in Proc : r # p => DeliveredAt(r)' = DeliveredAt(r)
    BY <2>1, DeliveredAfterSeq
  <2>6. /\ queue'[p] = q \ R
        /\ pendingMsgSet'[p] \subseteq pendingMsgSet[p]
        /\ \A j \in pendingMsgSet[p] : j # k => j \in pendingMsgSet'[p]
        /\ \A r \in Proc : r # p => queue'[r] = queue[r] /\ pendingMsgSet'[r] = pendingMsgSet[r]
    BY <2>1 DEF SeqEffect, TypeOK
  <2>7. \A r \in Proc, j \in Id :
          ackMessageCache'[r][j] = IF r = p /\ j = k THEN 0 ELSE ackMessageCache[r][j]
    BY <2>1, <2>2 DEF SeqEffect, TypeOK
  <2>8. /\ \A x \in net' : x.type = "Ack" => x \in net
        /\ \A j \in Id, r \in Proc : DataMessage(j, r) \in net' =>
                DataMessage(j, r) \in net /\ ~ (j = k /\ r = p)
    BY NetAfterSeq
  <2> HIDE DEF k, R, e1
  <2>9. \A r \in Proc, j \in Id : Proposal(r, j)' = Proposal(r, j)
    BY <1>2, <2>2, <2>7 DEF Proposal, Proposals
  <2>10. \A f, g \in q : f.id = g.id => f = g
    BY <2>2, <2>3 DEF QueueIdsUnique
  <2>11. \A f \in q : f.id \notin DeliveredAt(p)
    BY <2>2, <2>3 DEF QueueIdsUnique
  <2>12. \A f \in q : f.deliverable => FinalIs(f.id, f.seq, f.proposer)
    BY <2>2, <2>3 DEF SettledIsFinal
  <2>13. \A r \in Proc, j \in Id :
            Settled(r, j)' <=> Settled(r, j) \/ (r = p /\ j = k)
    <3>1. \A r \in Proc, j \in Id : r # p => (Settled(r, j)' <=> Settled(r, j))
      BY <2>5, <2>6 DEF Settled
    <3>2. ASSUME NEW j \in Id, Settled(p, j)' PROVE Settled(p, j) \/ j = k
      <4>1. CASE j \in DeliveredAt(p)
        BY <4>1 DEF Settled
      <4>2. CASE \E f \in q : f.id = j /\ f.deliverable
        BY <2>2, <2>3, <4>2 DEF Settled
      <4> QED  BY <2>4, <2>5, <2>6, <3>2, <4>1, <4>2 DEF Settled
    <3>3. \A f \in q : f.deliverable => Settled(p, f.id)'
      BY <2>5, <2>6 DEF Settled
    <3>4. ASSUME NEW j \in Id, Settled(p, j) \/ j = k PROVE Settled(p, j)'
      <4>1. CASE j \in DeliveredAt(p)
        BY <2>5, <4>1 DEF Settled
      <4>2. CASE \E f \in queue[p] : f.id = j /\ f.deliverable
        BY <2>2, <3>3, <4>2
      <4>3. CASE j = k
        BY <2>2, <2>3, <3>3, <4>3
      <4> QED  BY <3>4, <4>1, <4>2, <4>3 DEF Settled
    <3> QED  BY <3>1, <3>2, <3>4
  <2>14. AckIsProposal'
    <3> SUFFICES ASSUME NEW x \in net', x.type = "Ack"
                 PROVE  x.seq # 0 /\ x.seq = Proposal(x.proposer, x.id)'
      BY DEF AckIsProposal
    <3>1. x \in net /\ x.proposer \in Proc /\ x.id \in Id
      BY <2>8, ReceivedMessage DEF AckMsg
    <3> QED  BY <2>9, <3>1 DEF AckIsProposal
  <2>15. CacheAgrees'
    BY <2>2, <2>7 DEF CacheAgrees, Proposals
  <2>16. ProposedIsHeld'
    <3>1. ASSUME NEW r \in Proc, NEW e \in queue'[r], ~ e.deliverable
          PROVE  /\ e.proposer = r /\ e.seq = ackMessageCache'[r][e.id]
                 /\ e.seq # 0 /\ e.id \in pendingMsgSet'[r]
      <4>1. e \in queue[r] /\ ~ (r = p /\ e = e0)
        BY <2>2, <2>3, <2>6, <3>1
      <4>2. ~ (r = p /\ e.id = k)
        BY <2>2, <4>1 DEF QueueIdsUnique
      <4>3. e.id \in Id
        BY <4>1 DEF TypeOK, PendingMsg
      <4>4. /\ e.proposer = r /\ e.seq = ackMessageCache[r][e.id]
            /\ e.seq # 0 /\ e.id \in pendingMsgSet[r]
        BY <3>1, <4>1 DEF ProposedIsHeld
      <4> QED  BY <2>6, <2>7, <4>2, <4>3, <4>4
    <3>2. ASSUME NEW r \in Proc, NEW j \in Id, ackMessageCache'[r][j] # 0
          PROVE  \E e \in queue'[r] : e.id = j /\ ~ e.deliverable
      <4>1. ackMessageCache[r][j] # 0 /\ ~ (r = p /\ j = k)
        BY <2>7, <3>2
      <4>2. PICK e \in queue[r] : e.id = j /\ ~ e.deliverable
        BY <4>1 DEF ProposedIsHeld
      <4>3. r = p => e # e0
        BY <2>2, <4>1, <4>2
      <4> QED  BY <2>2, <2>4, <2>6, <4>2, <4>3
    <3> QED  BY <3>1, <3>2 DEF ProposedIsHeld
  <2>17. QueueIdsUnique'
    <3>1. \A e \in q \ R : e.id \notin DeliveredAt(p)'
      BY <2>4, <2>5, <2>10, <2>11
    <3>2. \A e, f \in q \ R : e.id = f.id => e = f
      BY <2>10
    <3> QED  BY <2>5, <2>6, <3>1, <3>2 DEF QueueIdsUnique
  <2>18. SettledIsFinal'
    <3>1. \A j, n, w : FinalIs(j, n, w)' <=> FinalIs(j, n, w)
      BY <2>2 DEF FinalIs, Proposals
    <3>2. \A j : Final(j)' <=> Final(j)
      BY <2>2, <3>1 DEF Final, Proposals
    <3>3. \A r \in Proc : \A e \in queue'[r] :
                e.deliverable => FinalIs(e.id, e.seq, e.proposer)'
      BY <2>6, <2>12, <3>1 DEF SettledIsFinal
    <3>4. \A f \in R : Final(f.id)
      BY <2>4, <2>12 DEF Final, FinalIs
    <3>5. \A r \in Proc : \A j \in DeliveredAt(r)' : Final(j)'
      BY <2>5, <3>2, <3>4 DEF SettledIsFinal
    <3>6. \A r \in Proc, j \in Id : Settled(r, j)' => DataMessage(j, r) \notin net'
      BY <2>8, <2>13 DEF SettledIsFinal
    <3> QED  BY <3>3, <3>5, <3>6 DEF SettledIsFinal
  <2>19. SeenIsKnown'
    <3>1. \A r \in Proc, j \in Id : j \in pendingMsgSet'[r] => j \in pendingMsgSet[r]
      BY <2>6
    <3> QED  BY <2>7, <2>9, <2>13, <3>1 DEF SeenIsKnown
  <2>20. NothingReady'
    <3>1. Ready(q \ R) = {}
      BY <2>2, RestNotReady DEF R
    <3> QED  BY <2>6, <3>1 DEF NothingReady
  <2>21. NoCrash'
    BY <2>2 DEF NoCrash
  <2> QED
    BY <2>14, <2>15, <2>16, <2>17, <2>18, <2>19, <2>20, <2>21
<1> QED  BY <1>1, <1>2

\* Every step keeps the receivers' invariant.
LEMMA PhaseInvNext ==
    ASSUME Fifo, TypeOK, SenderInv, PhaseInv, [Next]_vars
    PROVE  PhaseInv'
<1>1. ASSUME NEW p \in Proc, multicast(p) PROVE PhaseInv'
  BY <1>1, PhaseNetwork DEF multicast, receiver
<1>2. ASSUME NEW p \in Proc, SendDataMsgs(p) PROVE PhaseInv'
  <2>1. UNCHANGED receiver
    BY <1>2 DEF SendDataMsgs, receiver
  <2>2. \A x \in dataMsgs[p] : x.type = "Data" /\ Proposals(x.id)[x.to] = 0
    BY DEF SenderInv, DataUnanswered, TypeOK, DataMsg
  <2>3. \A x \in net' : x \in net \/ x \in dataMsgs[p]
    BY <1>2 DEF SendDataMsgs
  <2>4. \A k \in Id, r \in Proc : DataMessage(k, r) \in net' =>
            DataMessage(k, r) \in net \/ Proposals(k)[r] = 0
    BY <2>2, <2>3 DEF DataMessage
  <2> QED  BY <2>1, <2>2, <2>3, <2>4, PhaseNetwork
<1>3. ASSUME NEW p \in Proc, SendSeqMsgs(p) PROVE PhaseInv'
  <2>1. UNCHANGED receiver
    BY <1>3 DEF SendSeqMsgs, receiver
  <2>2. \A x \in seqMsgs[p] : x.type = "Seq"
    BY DEF TypeOK, SeqMsg
  <2>3. \A x \in net' : x \in net \/ x \in seqMsgs[p]
    BY <1>3 DEF SendSeqMsgs
  <2>4. \A k \in Id, r \in Proc : DataMessage(k, r).type = "Data"
    BY DEF DataMessage
  <2> QED  BY <2>1, <2>2, <2>3, <2>4, PhaseNetwork
<1>4. ASSUME NEW p \in Proc, NEW m \in net, processSeqAckMsg(p, m) PROVE PhaseInv'
  <2>1. UNCHANGED receiver
    BY <1>4 DEF processSeqAckMsg, receiver
  <2>2. \A x \in net' : x \in net
    BY <1>4, NetAfter DEF processSeqAckMsg
  <2> QED  BY <2>1, <2>2, PhaseNetwork
<1>5. ASSUME NEW m \in net, Lose(m) PROVE PhaseInv'
  BY <1>5, PhaseNetwork DEF Lose, receiver
<1>6. CASE UNCHANGED vars
  BY <1>6, PhaseNetwork DEF vars, receiver
<1> QED
  BY <1>1, <1>2, <1>3, <1>4, <1>5, <1>6, PhaseAck, PhaseData, PhaseSeq
  DEF Next, Receive

----------------------------------------------------------------------------
(* The order of delivery.                                                  *)

\* Ranks of delivered messages are numbers, and steps keep them.
LEMMA DeliveredRank ==
    ASSUME TypeOK, PhaseInv, NEW p \in Proc, NEW k \in DeliveredAt(p)
    PROVE  /\ k \in Id /\ FinalIs(k, FinalSeq(k), FinalProposer(k))
           /\ FinalSeq(k) \in Nat /\ FinalProposer(k) \in Proc
<1>1. k \in Id
  BY DeliveredIds
<1>2. PICK w \in Proc : FinalIs(k, Proposals(k)[w], w)
  BY DEF PhaseInv, SettledIsFinal, Final
<1> QED  BY <1>1, <1>2, FinalUnique

\* The final number and proposer of a message never change once
\* createSeqMessage has fixed them.
LEMMA RankStable ==
    ASSUME TypeOK, SenderInv, [Next]_vars, NEW k \in Id, Final(k)
    PROVE  FinalSeq(k)' = FinalSeq(k) /\ FinalProposer(k)' = FinalProposer(k)
<1>1. Proposals(k)' = Proposals(k)
  BY ProposalsStable DEF SenderInv, Final, FinalIs
<1> QED  BY <1>1 DEF FinalSeq, FinalProposer

\* Steps that leave proposals, queues and logs alone.
LEMMA OrderKept ==
    ASSUME TypeOK, TypeOK', SenderInv, PhaseInv, OrderInv, [Next]_vars,
           UNCHANGED <<queue, delivered>>,
           \A p \in Proc : latestSeqId'[p] >= latestSeqId[p],
           \A p \in Proc, k \in Id : Proposal(p, k)' = Proposal(p, k)
    PROVE  OrderInv'
<1> USE DEF OrderInv
<1>1. \A p \in Proc : DeliveredAt(p)' = DeliveredAt(p)
  BY DEF DeliveredAt
<1>2. \A p \in Proc : \A k \in DeliveredAt(p) :
        /\ k \in Id /\ FinalSeq(k) \in Nat
        /\ FinalSeq(k)' = FinalSeq(k) /\ FinalProposer(k)' = FinalProposer(k)
  BY DeliveredRank, RankStable DEF PhaseInv, SettledIsFinal
<1>3. BelowLatest'
  <2>1. \A p \in Proc : latestSeqId[p] \in Nat /\ latestSeqId'[p] \in Nat
    BY DEF TypeOK
  <2>2. \A p \in Proc, k \in Id : Proposal(p, k) \in Nat
    BY DEF TypeOK, Proposal, Proposals
  <2>3. \A p \in Proc : \A e \in queue[p] : e.seq \in Nat
    BY DEF TypeOK, PendingMsg
  <2> QED  BY <1>1, <1>2, <2>1, <2>2, <2>3 DEF BelowLatest
<1>4. ProposalsUnique'
  BY DEF ProposalsUnique
<1>5. DeliveredInOrder'
  <2> SUFFICES ASSUME NEW p \in Proc, NEW i \in 1..Len(delivered[p]),
                      NEW j \in 1..Len(delivered[p]), i < j
               PROVE  Before(delivered[p][i], delivered[p][j])'
    BY DEF DeliveredInOrder
  <2>1. delivered[p][i] \in DeliveredAt(p) /\ delivered[p][j] \in DeliveredAt(p)
    BY DEF DeliveredAt
  <2>2. Before(delivered[p][i], delivered[p][j])
    BY DEF DeliveredInOrder
  <2>3. PICK a, b : a = delivered[p][i] /\ b = delivered[p][j]
    OBVIOUS
  <2>4. Before(a, b)'
    BY <1>2, <2>1, <2>2, <2>3 DEF Before
  <2> QED  BY <2>3, <2>4
<1>6. DeliveredBeforeQueued'
  BY <1>1, <1>2 DEF DeliveredBeforeQueued
<1> QED  BY <1>3, <1>4, <1>5, <1>6

\* A new entry is numbered above everything its process has delivered, so
\* processDataMsg keeps the order of delivery.
LEMMA OrderAdd ==
    ASSUME TypeOK, SenderInv, PhaseInv, OrderInv, [Next]_vars,
           NEW p \in Proc, NEW m \in net, processDataMsg(p, m), AddDataMsg(p, m)
    PROVE  OrderInv'
<1> USE DEF OrderInv
<1> DEFINE k == m.id
           n == latestSeqId[p] + 1
           e0 == [id |-> k, seq |-> n, proposer |-> p, deliverable |-> FALSE]
<1>1. k \in Id /\ DataMessage(k, p) \in net
  BY ReceivedMessage DEF processDataMsg, Arrives
<1>2. n \in Nat /\ n # 0 /\ latestSeqId[p] \in Nat /\ n = latestSeqId[p] + 1
  BY DEF TypeOK
<1>3. /\ k \notin pendingMsgSet[p]
      /\ queue' = [queue EXCEPT ![p] = @ \cup {e0}]
      /\ ackMessageCache' = [ackMessageCache EXCEPT ![p][k] = n]
      /\ latestSeqId' = [latestSeqId EXCEPT ![p] = n]
      /\ UNCHANGED <<proposedSeqIdMap, delivered>>
  BY DEF AddDataMsg, processDataMsg, ProposedSeq
<1>4. Proposal(p, k) = 0
  BY <1>1, <1>3, NewData
<1>5. e0.id = k /\ e0.seq = n /\ e0.deliverable = FALSE
  OBVIOUS
<1> HIDE DEF k, n, e0
<1>6. /\ queue'[p] = queue[p] \cup {e0} /\ latestSeqId'[p] = n
      /\ \A r \in Proc : r # p => queue'[r] = queue[r] /\ latestSeqId'[r] = latestSeqId[r]
  BY <1>3 DEF TypeOK
<1>7. \A r \in Proc, j \in Id :
        Proposal(r, j)' = IF r = p /\ j = k THEN n ELSE Proposal(r, j)
  <2>1. \A r \in Proc, j \in Id :
        ackMessageCache'[r][j] = IF r = p /\ j = k THEN n ELSE ackMessageCache[r][j]
    BY <1>1, <1>3 DEF TypeOK
  <2> QED  BY <1>2, <1>3, <2>1 DEF Proposal, Proposals
<1>8. \A r \in Proc, j \in Id : Proposal(r, j) \in Nat /\ Proposal(r, j) <= latestSeqId[r]
  BY DEF TypeOK, Proposal, Proposals, BelowLatest
<1>9. \A r \in Proc : DeliveredAt(r)' = DeliveredAt(r)
  BY <1>3 DEF DeliveredAt
<1>10. \A r \in Proc : \A j \in DeliveredAt(r) :
        /\ FinalSeq(j) \in Nat /\ FinalSeq(j) <= latestSeqId[r]
        /\ FinalSeq(j)' = FinalSeq(j) /\ FinalProposer(j)' = FinalProposer(j)
  BY DeliveredRank, RankStable DEF PhaseInv, SettledIsFinal, BelowLatest
<1>11. \A r \in Proc : \A e \in queue[r] : e.seq \in Nat /\ e.seq <= latestSeqId[r]
  BY DEF TypeOK, PendingMsg, BelowLatest
<1>12. BelowLatest'
  <2> SUFFICES ASSUME NEW r \in Proc
               PROVE  /\ \A e \in queue'[r] : e.seq <= latestSeqId'[r]
                      /\ \A j \in Id : Proposal(r, j)' <= latestSeqId'[r]
                      /\ \A j \in DeliveredAt(r)' : FinalSeq(j)' <= latestSeqId'[r]
    BY DEF BelowLatest
  <2>1. CASE r # p
    BY <1>6, <1>7, <1>8, <1>9, <1>10, <1>11, <2>1
  <2>2. CASE r = p
    BY <1>2, <1>5, <1>6, <1>7, <1>8, <1>9, <1>10, <1>11, <2>2
  <2> QED  BY <2>1, <2>2
<1>13. ProposalsUnique'
  <2>1. \A j \in Id : Proposal(p, j) # n
    BY <1>2, <1>8
  <2> QED  BY <1>7, <2>1 DEF ProposalsUnique
<1>14. DeliveredInOrder'
  <2> SUFFICES ASSUME NEW r \in Proc, NEW i \in 1..Len(delivered[r]),
                      NEW j \in 1..Len(delivered[r]), i < j
               PROVE  Before(delivered[r][i], delivered[r][j])'
    BY <1>3 DEF DeliveredInOrder
  <2>1. PICK a, b : a = delivered[r][i] /\ b = delivered[r][j]
    OBVIOUS
  <2>2. a \in DeliveredAt(r) /\ b \in DeliveredAt(r) /\ Before(a, b)
    BY <2>1 DEF DeliveredAt, DeliveredInOrder
  <2>3. Before(a, b)'
    BY <1>10, <2>2 DEF Before
  <2> QED  BY <1>3, <2>1, <2>3
<1>15. DeliveredBeforeQueued'
  <2>1. \A j \in DeliveredAt(p) : FinalSeq(j) < e0.seq
    BY <1>2, <1>5, <1>10
  <2> QED  BY <1>6, <1>9, <1>10, <2>1 DEF DeliveredBeforeQueued
<1> QED  BY <1>12, <1>13, <1>14, <1>15

\* processSeqMsg keeps the order of delivery: the delivered front precedes
\* all that stays in the deque and follows all that was delivered before.
LEMMA OrderSeq ==
    ASSUME TypeOK, TypeOK', SenderInv, PhaseInv, OrderInv, [Next]_vars,
           NEW p \in Proc, NEW m \in net, processSeqMsg(p, m)
    PROVE  OrderInv'
<1> USE DEF OrderInv
<1>1. CASE ackMessageCache[p][m.id] = 0
  <2>1. UNCHANGED receiver
    BY <1>1, SeqRepeated
  <2>2. \A r \in Proc, k \in Id : Proposal(r, k)' = Proposal(r, k)
    BY <2>1 DEF receiver, Proposal, Proposals
  <2>3. m \in SeqMsg
    BY ReceivedMessage DEF processSeqMsg, Arrives
  <2>4. \A r \in Proc : latestSeqId'[r] >= latestSeqId[r]
    <3>1. m.seq \in Nat /\ \A r \in Proc : latestSeqId[r] \in Nat
      BY <2>3 DEF SeqMsg, TypeOK
    <3>2. latestSeqId' = [latestSeqId EXCEPT ![p] =
                            IF Marked(p, m) /\ m.seq > @ THEN m.seq ELSE @]
      BY DEF processSeqMsg
    <3>3. DOMAIN latestSeqId = Proc
      BY DEF TypeOK
    <3> QED  BY <3>1, <3>2, <3>3
  <2> QED  BY <2>1, <2>2, <2>4, OrderKept DEF receiver
<1>2. CASE ackMessageCache[p][m.id] # 0
  <2>1. PICK e0, q, s : SeqEffect(p, m, e0, q, s)
    BY <1>2, SeqFirst
  <2> DEFINE k == m.id
             R == Ready(q)
             e1 == [id |-> k, seq |-> m.seq, proposer |-> m.proposer,
                    deliverable |-> TRUE]
             log == delivered[p]
             new == log \o Ids(s)
  <2>2. /\ k \in Id /\ m.seq \in Nat /\ FinalIs(k, m.seq, m.proposer)
        /\ e0 \in queue[p] /\ e0.id = k /\ ~ e0.deliverable
        /\ e0.seq = ackMessageCache[p][k] /\ e0.seq = Proposals(k)[p]
        /\ q = (queue[p] \ {e0}) \cup {e1} /\ q \in SUBSET PendingMsg
        /\ UNCHANGED proposedSeqIdMap
        /\ IsFiniteSet(R) /\ s \in Sorted(R)
    BY <2>1 DEF SeqEffect
  <2>3. e1.id = k /\ e1.deliverable /\ e1.seq = m.seq /\ e1.proposer = m.proposer
    OBVIOUS
  <2>4. R \in SUBSET q /\ (\A f \in R : f.deliverable)
    BY DEF Ready
  <2>5. /\ DeliveredAt(p)' = DeliveredAt(p) \cup {f.id : f \in R}
        /\ \A r \in Proc : r # p => DeliveredAt(r)' = DeliveredAt(r)
    BY <2>1, DeliveredAfterSeq
  <2>6. /\ queue'[p] = q \ R
        /\ delivered'[p] = new
        /\ \A r \in Proc : r # p => /\ queue'[r] = queue[r]
                                    /\ latestSeqId'[r] = latestSeqId[r]
                                    /\ delivered'[r] = delivered[r]
    BY <2>1 DEF SeqEffect, TypeOK
  <2>7. /\ latestSeqId[p] \in Nat /\ latestSeqId'[p] \in Nat
        /\ latestSeqId'[p] >= latestSeqId[p] /\ latestSeqId'[p] >= m.seq
    BY <2>1, <2>2 DEF SeqEffect, TypeOK
  <2>8. \A r \in Proc, j \in Id : Proposal(r, j)' = Proposal(r, j)
    <3>1. ackMessageCache' = [ackMessageCache EXCEPT ![p][k] = 0]
      BY <2>1 DEF SeqEffect
    <3> HIDE DEF k
    <3>2. \A r \in Proc, j \in Id :
            ackMessageCache'[r][j] = IF r = p /\ j = k THEN 0 ELSE ackMessageCache[r][j]
      BY <2>2, <3>1 DEF TypeOK
    <3> QED  BY <1>2, <2>2, <3>2 DEF Proposal, Proposals, k
  <2>9. \A j : FinalSeq(j)' = FinalSeq(j) /\ FinalProposer(j)' = FinalProposer(j)
    BY <2>2 DEF FinalSeq, FinalProposer, Proposals
  <2>10. /\ log \in Seq(Id) /\ R \in SUBSET PendingMsg
         /\ Len(log) \in Nat /\ Cardinality(R) \in Nat
         /\ Len(new) = Len(log) + Cardinality(R)
         /\ \A i \in 1..Len(log) : new[i] = log[i]
         /\ \A i \in (Len(log) + 1)..Len(new) :
               /\ i - Len(log) \in 1..Cardinality(R)
               /\ s[i - Len(log)] \in R
               /\ new[i] = s[i - Len(log)].id
    <3>1. log \in Seq(Id) /\ R \in SUBSET PendingMsg
      BY <2>2, <2>4 DEF TypeOK
    <3> QED  BY <2>2, <3>1, AppendIds
  <2> HIDE DEF R, e1, log, new
  <2>11. \A f \in q : f.id \in Id /\ f.seq \in Nat /\ f.proposer \in Proc
    BY <2>2 DEF PendingMsg
  <2>12. \A f \in q : f.deliverable =>
            FinalSeq(f.id) = f.seq /\ FinalProposer(f.id) = f.proposer
    <3>1. \A f \in q : f.deliverable => FinalIs(f.id, f.seq, f.proposer)
      BY <2>2, <2>3 DEF PhaseInv, SettledIsFinal
    <3> QED  BY <2>11, <3>1, FinalUnique
  <2>13. \A d \in DeliveredAt(p), f \in q :
            \/ FinalSeq(d) < f.seq
            \/ f.deliverable /\ FinalSeq(d) = f.seq /\ FinalProposer(d) < f.proposer
    <3> SUFFICES ASSUME NEW d \in DeliveredAt(p)
                 PROVE  FinalSeq(d) < e1.seq
      BY <2>2 DEF DeliveredBeforeQueued
    <3>1. FinalSeq(d) < e0.seq
      BY <2>2 DEF DeliveredBeforeQueued
    <3>2. Proposals(k)[p] <= m.seq /\ Proposals(k)[p] \in Nat
      BY <2>2, FinalUnique DEF TypeOK, Proposals
    <3>3. FinalSeq(d) \in Nat
      BY DeliveredRank
    <3> QED  BY <2>2, <2>3, <3>1, <3>2, <3>3
  <2>14. BelowLatest'
    <3>1. \A f \in q : f.seq <= latestSeqId'[p]
      BY <2>2, <2>3, <2>7, <2>11 DEF BelowLatest
    <3>2. \A j \in DeliveredAt(p) : FinalSeq(j) <= latestSeqId'[p]
      BY <2>7, DeliveredRank DEF BelowLatest
    <3>3. \A j \in DeliveredAt(p)' : FinalSeq(j)' <= latestSeqId'[p]
      BY <2>4, <2>5, <2>9, <2>12, <3>1, <3>2
    <3>4. \A j \in Id : Proposal(p, j)' <= latestSeqId'[p]
      <4>1. \A j \in Id : Proposal(p, j) \in Nat
        BY DEF TypeOK, Proposal, Proposals
      <4> QED  BY <2>7, <2>8, <4>1 DEF BelowLatest
    <3>5. \A r \in Proc : r # p =>
            /\ \A e \in queue'[r] : e.seq <= latestSeqId'[r]
            /\ \A j \in Id : Proposal(r, j)' <= latestSeqId'[r]
            /\ \A j \in DeliveredAt(r)' : FinalSeq(j)' <= latestSeqId'[r]
      BY <2>5, <2>6, <2>8, <2>9 DEF BelowLatest
    <3> QED  BY <2>6, <3>1, <3>3, <3>4, <3>5 DEF BelowLatest
  <2>15. ProposalsUnique'
    BY <2>8 DEF ProposalsUnique
  <2>16. DeliveredInOrder'
    <3>1. \A a, b : Before(a, b)' <=> Before(a, b)
      BY <2>9 DEF Before
    <3>2. ASSUME NEW i \in 1..Len(new), NEW j \in 1..Len(new), i < j
          PROVE  Before(new[i], new[j])
      <4>1. CASE j <= Len(log)
        <5>1. i \in 1..Len(log) /\ j \in 1..Len(log)
          BY <2>10, <3>2, <4>1
        <5> QED  BY <2>10, <3>2, <5>1 DEF DeliveredInOrder, log
      <4>2. CASE i <= Len(log) /\ ~ (j <= Len(log))
        <5>1. i \in 1..Len(log) /\ j \in (Len(log) + 1)..Len(new)
          BY <2>10, <3>2, <4>2
        <5>2. PICK f \in R : new[j] = f.id
          BY <2>10, <5>1
        <5>3. new[i] \in DeliveredAt(p)
          BY <2>10, <5>1 DEF DeliveredAt, log
        <5> QED  BY <2>4, <2>12, <2>13, <5>2, <5>3 DEF Before
      <4>3. CASE ~ (i <= Len(log))
        <5>1. i \in (Len(log) + 1)..Len(new) /\ j \in (Len(log) + 1)..Len(new)
          BY <2>10, <3>2, <4>3
        <5> DEFINE a == i - Len(log)
                   b == j - Len(log)
        <5>2. /\ a \in 1..Cardinality(R) /\ b \in 1..Cardinality(R)
              /\ s[a] \in R /\ s[b] \in R
              /\ new[i] = s[a].id /\ new[j] = s[b].id
          BY <2>10, <5>1
        <5>3. a < b
          BY <2>10, <3>2
        <5> HIDE DEF a, b
        <5>4. Less(s[a], s[b])
          BY <2>2, <5>2, <5>3 DEF Sorted
        <5>5. \/ s[a].seq < s[b].seq
              \/ s[a].seq = s[b].seq /\ s[a].proposer < s[b].proposer
          BY <2>4, <2>10, <5>2, <5>4 DEF Less, PendingMsg
        <5> QED  BY <2>4, <2>12, <5>2, <5>5 DEF Before
      <4> QED  BY <2>10, <4>1, <4>2, <4>3
    <3> QED  BY <2>6, <3>1, <3>2 DEF DeliveredInOrder
  <2>17. DeliveredBeforeQueued'
    <3>1. \A f \in R, e \in q \ R : FinalSeq(f.id) < e.seq
      <4>1. \A f \in R, e \in q \ R : f.seq < e.seq
        BY <2>2, ReadyBelowRest DEF R
      <4> QED  BY <2>4, <2>12, <4>1
    <3> QED  BY <2>5, <2>6, <2>9, <2>13, <3>1 DEF DeliveredBeforeQueued
  <2> QED  BY <2>14, <2>15, <2>16, <2>17
<1> QED  BY <1>1, <1>2

\* Every step keeps the order of delivery.
LEMMA OrderInvNext ==
    ASSUME TypeOK, TypeOK', SenderInv, PhaseInv, OrderInv, [Next]_vars
    PROVE  OrderInv'
<1>1. ASSUME UNCHANGED <<queue, delivered, latestSeqId, proposedSeqIdMap, ackMessageCache>>
      PROVE  OrderInv'
  <2>1. \A p \in Proc : latestSeqId'[p] >= latestSeqId[p]
    BY <1>1 DEF TypeOK
  <2>2. \A p \in Proc, k \in Id : Proposal(p, k)' = Proposal(p, k)
    BY <1>1 DEF Proposal, Proposals
  <2> QED  BY <1>1, <2>1, <2>2, OrderKept
<1>2. ASSUME NEW p \in Proc, NEW m \in net, processAckMsg(p, m) PROVE OrderInv'
  <2>1. UNCHANGED <<queue, delivered, latestSeqId>>
    BY <1>2 DEF processAckMsg
  <2>2. \A r \in Proc : latestSeqId'[r] >= latestSeqId[r]
    BY <2>1 DEF TypeOK
  <2> QED  BY <1>2, <2>1, <2>2, AckKeepsProposals, OrderKept
<1>3. ASSUME NEW p \in Proc, NEW m \in net, processDataMsg(p, m) PROVE OrderInv'
  <2>1. CASE AddDataMsg(p, m)
    BY <1>3, <2>1, OrderAdd
  <2>2. CASE RepeatAck(p, m) \/ AckLookupFails(p, m)
    BY <1>1, <1>3, <2>2 DEF processDataMsg, RepeatAck, AckLookupFails
  <2> QED  BY <1>3, <2>1, <2>2 DEF processDataMsg
<1>4. ASSUME NEW p \in Proc, multicast(p) \/ SendDataMsgs(p) \/ SendSeqMsgs(p)
      PROVE  OrderInv'
  BY <1>1, <1>4 DEF multicast, SendDataMsgs, SendSeqMsgs
<1>5. ASSUME NEW p \in Proc, NEW m \in net, processSeqAckMsg(p, m) PROVE OrderInv'
  BY <1>1, <1>5 DEF processSeqAckMsg
<1>6. ASSUME NEW m \in net, Lose(m) PROVE OrderInv'
  BY <1>1, <1>6 DEF Lose
<1>7. CASE UNCHANGED vars
  BY <1>1, <1>7 DEF vars
<1> QED
  BY <1>2, <1>3, <1>4, <1>5, <1>6, <1>7, OrderSeq DEF Next, Receive

----------------------------------------------------------------------------
(* The theorems.                                                           *)

Inv == TypeOK /\ SenderInv /\ PhaseInv /\ OrderInv

\* The inductive invariant holds initially.
LEMMA InvInit == Init => Inv
<1> SUFFICES ASSUME Init PROVE Inv
  OBVIOUS
<1> USE DEF Init
<1>1. TypeOK
  BY TypeInit
<1>2. SenderInv
  BY DEF SenderInv, DataUnanswered, ProposalsOfSent, SeqIsFinal, Proposals
<1>3. \A p \in Proc : DeliveredAt(p) = {} /\ queue[p] = {} /\ Len(delivered[p]) = 0
  BY DEF DeliveredAt
<1>4. \A p \in Proc, k \in Id : Proposal(p, k) = 0
  BY DEF Proposal, Proposals
<1>5. AckIsProposal /\ CacheAgrees /\ ProposedIsHeld /\ QueueIdsUnique /\ NoCrash
  BY <1>3 DEF AckIsProposal, CacheAgrees, ProposedIsHeld, QueueIdsUnique, NoCrash
<1>6. SettledIsFinal /\ SeenIsKnown /\ NothingReady
  BY <1>3, <1>4 DEF SettledIsFinal, SeenIsKnown, NothingReady, Settled, Ready
<1>7. OrderInv
  BY <1>3, <1>4 DEF OrderInv, BelowLatest, ProposalsUnique, DeliveredInOrder,
                    DeliveredBeforeQueued
<1> QED  BY <1>1, <1>2, <1>5, <1>6, <1>7 DEF Inv, PhaseInv

\* The invariant is inductive over links that keep Data(k) ahead of Seq(k).
LEMMA InvNext == ASSUME Fifo PROVE Inv /\ [Next]_vars => Inv'
<1> SUFFICES ASSUME Inv, [Next]_vars PROVE Inv'
  OBVIOUS
<1>1. TypeOK'
  BY TypeNext DEF Inv
<1>2. SenderInv'
  BY SenderInvNext DEF Inv
<1>3. PhaseInv'
  BY PhaseInvNext DEF Inv
<1>4. OrderInv'
  BY <1>1, OrderInvNext DEF Inv
<1> QED  BY <1>1, <1>2, <1>3, <1>4 DEF Inv

\* The inductive invariant holds over links that keep Data(k) ahead of Seq(k).
THEOREM InvHolds == ASSUME Fifo PROVE Spec => []Inv
BY InvInit, InvNext, PTL DEF Spec

\* A nonempty set of naturals has a least member.
LEMMA LeastNat ==
    ASSUME NEW T \in SUBSET Nat, T # {}
    PROVE  \E n \in T : \A i \in T : n <= i
<1>1. PICK n \in T : \A i \in T : ~ (<<i, n>> \in OpToRel(<, Nat))
  BY WFMin, NatLessThanWellFounded
<1>2. \A i \in T : ~ (i < n)
  BY <1>1 DEF OpToRel
<1> QED  BY <1>2

\* Two delivered messages have different ranks.
LEMMA RanksDiffer ==
    ASSUME Inv, NEW p \in Proc, NEW q \in Proc,
           NEW a \in DeliveredAt(p), NEW b \in DeliveredAt(q), a # b
    PROVE  Before(a, b) \/ Before(b, a)
<1> USE DEF Inv
<1>1. /\ a \in Id /\ FinalIs(a, FinalSeq(a), FinalProposer(a))
      /\ b \in Id /\ FinalIs(b, FinalSeq(b), FinalProposer(b))
      /\ FinalSeq(a) \in Nat /\ FinalSeq(b) \in Nat
      /\ FinalProposer(a) \in Proc /\ FinalProposer(b) \in Proc
  BY DeliveredRank
<1>2. FinalProposer(a) \in Nat /\ FinalProposer(b) \in Nat
  BY <1>1, NAssumption DEF Proc
<1>3. \A k \in Id, w \in Proc : Proposals(k)[w] # 0 => Proposal(w, k) = Proposals(k)[w]
  BY DEF PhaseInv, CacheAgrees, Proposal
<1>4. ASSUME FinalProposer(a) = FinalProposer(b), FinalSeq(a) = FinalSeq(b)
      PROVE  FALSE
  <2> DEFINE w == FinalProposer(a)
  <2>1. w \in Proc /\ Proposals(a)[w] = Proposals(b)[w] /\ Proposals(a)[w] # 0
    BY <1>1, <1>4 DEF FinalIs, Complete
  <2>2. Proposal(w, a) = Proposal(w, b) /\ Proposal(w, a) # 0
    BY <1>1, <1>3, <2>1
  <2> QED  BY <1>1, <2>1, <2>2 DEF OrderInv, ProposalsUnique
<1> QED  BY <1>1, <1>2, <1>4 DEF Before

\* A process that delivered b has delivered everything that comes before b.
LEMMA NoGap ==
    ASSUME Inv, NEW p \in Proc, NEW q \in Proc,
           NEW a \in DeliveredAt(p), NEW b \in DeliveredAt(q), Before(a, b)
    PROVE  a \in DeliveredAt(q)
<1> USE DEF Inv
<1> SUFFICES ASSUME a \notin DeliveredAt(q) PROVE FALSE
  OBVIOUS
<1>1. /\ a \in Id /\ FinalIs(a, FinalSeq(a), FinalProposer(a)) /\ FinalSeq(a) \in Nat
      /\ b \in Id /\ FinalSeq(b) \in Nat
      /\ FinalProposer(a) \in Nat /\ FinalProposer(b) \in Nat
  BY DeliveredRank, NAssumption DEF Proc
<1>2. Proposals(a)[q] > 0 /\ Proposals(a)[q] <= FinalSeq(a) /\ Proposals(a)[q] \in Nat
  <2>1. Proposals(a)[q] > 0 /\ Proposals(a)[q] <= FinalSeq(a)
    BY <1>1, FinalUnique
  <2>2. Proposals(a)[q] \in Nat
    BY <1>1 DEF TypeOK, Proposals
  <2> QED  BY <2>1, <2>2
<1>3. ackMessageCache[q][a] # 0 \/ Settled(q, a)
  BY <1>1, <1>2 DEF PhaseInv, SeenIsKnown, Proposal
<1>4. CASE ackMessageCache[q][a] # 0
  <2>1. PICK e \in queue[q] : e.id = a /\ ~ e.deliverable
    BY <1>1, <1>4 DEF PhaseInv, ProposedIsHeld
  <2>2. e.seq = Proposals(a)[q]
    BY <1>1, <1>2, <1>4, <2>1 DEF PhaseInv, ProposedIsHeld, CacheAgrees
  <2>3. FinalSeq(b) < e.seq
    BY <2>1 DEF OrderInv, DeliveredBeforeQueued
  <2> QED  BY <1>1, <1>2, <2>2, <2>3 DEF Before
<1>5. CASE Settled(q, a)
  <2>1. PICK e \in queue[q] : e.id = a /\ e.deliverable
    BY <1>5 DEF Settled
  <2>2. FinalIs(a, e.seq, e.proposer)
    BY <2>1 DEF PhaseInv, SettledIsFinal
  <2>3. e.seq = FinalSeq(a) /\ e.proposer = FinalProposer(a)
    BY <1>1, <2>2, FinalUnique
  <2>4. Before(b, a)
    BY <2>1, <2>3 DEF OrderInv, DeliveredBeforeQueued, Before
  <2> QED  BY <1>1, <2>4 DEF Before
<1> QED  BY <1>3, <1>4, <1>5

\* Two logs that agree up to position i cannot differ there.
LEMMA NoFirstDifference ==
    ASSUME Inv, NEW p \in Proc, NEW q \in Proc,
           NEW i \in 1..Len(delivered[p]), i \in 1..Len(delivered[q]),
           \A j \in 1..(i - 1) : delivered[p][j] = delivered[q][j],
           Before(delivered[p][i], delivered[q][i])
    PROVE  FALSE
<1> DEFINE a == delivered[p][i]
           b == delivered[q][i]
<1>1. a \in DeliveredAt(p) /\ b \in DeliveredAt(q)
  BY DEF DeliveredAt
<1>2. a \in DeliveredAt(q)
  BY <1>1, NoGap
<1>3. PICK j \in 1..Len(delivered[q]) : delivered[q][j] = a
  BY <1>2 DEF DeliveredAt
<1>4. /\ FinalSeq(a) \in Nat /\ FinalSeq(b) \in Nat
      /\ FinalProposer(a) \in Nat /\ FinalProposer(b) \in Nat
  BY <1>1, DeliveredRank, NAssumption DEF Inv, Proc
<1>5. ~ Before(a, a) /\ ~ Before(b, a)
  BY <1>4 DEF Before
<1>6. Len(delivered[p]) \in Nat /\ Len(delivered[q]) \in Nat
  BY LenProperties DEF Inv, TypeOK
<1>7. CASE j < i
  <2>1. j \in 1..(i - 1) /\ j \in 1..Len(delivered[p])
    BY <1>6, <1>7
  <2>2. delivered[p][j] = a
    BY <1>3, <2>1
  <2> QED  BY <1>5, <1>7, <2>1, <2>2 DEF Inv, OrderInv, DeliveredInOrder
<1>8. CASE i < j
  BY <1>3, <1>5, <1>8 DEF Inv, OrderInv, DeliveredInOrder
<1>9. CASE i = j
  BY <1>3, <1>5, <1>9
<1> QED  BY <1>6, <1>7, <1>8, <1>9

\* The invariant implies that logs agree: at the first difference, each
\* process would have delivered a message the other still holds before it.
LEMMA InvPrefix == Inv => PrefixAgreement
<1> SUFFICES ASSUME Inv, NEW p \in Proc, NEW q \in Proc,
                    NEW i \in 1..Len(delivered[p]), i <= Len(delivered[q]),
                    delivered[p][i] # delivered[q][i]
             PROVE  FALSE
  BY DEF PrefixAgreement
<1>1. Len(delivered[p]) \in Nat /\ Len(delivered[q]) \in Nat
  BY LenProperties DEF Inv, TypeOK
<1> DEFINE T == {j \in 1..Len(delivered[p]) :
                    j <= Len(delivered[q]) /\ delivered[p][j] # delivered[q][j]}
<1>2. T \in SUBSET Nat /\ T # {}
  BY <1>1
<1>3. PICK n \in T : \A j \in T : n <= j
  BY <1>2, LeastNat
<1>4. n \in 1..Len(delivered[p]) /\ n \in 1..Len(delivered[q])
      /\ delivered[p][n] # delivered[q][n]
  BY <1>1, <1>3
<1>5. \A j \in 1..(n - 1) : delivered[p][j] = delivered[q][j]
  <2> SUFFICES ASSUME NEW j \in 1..(n - 1), delivered[p][j] # delivered[q][j] PROVE FALSE
    OBVIOUS
  <2>1. j \in 1..Len(delivered[p]) /\ j <= Len(delivered[q]) /\ ~ (n <= j)
    BY <1>1, <1>4
  <2> QED  BY <1>3, <2>1
<1>6. delivered[p][n] \in DeliveredAt(p) /\ delivered[q][n] \in DeliveredAt(q)
  BY <1>4 DEF DeliveredAt
<1>7. \/ Before(delivered[p][n], delivered[q][n])
      \/ Before(delivered[q][n], delivered[p][n])
  BY <1>4, <1>6, RanksDiffer
<1> HIDE DEF T
<1> QED  BY <1>4, <1>5, <1>7, NoFirstDifference

\* The invariant implies that no log repeats a message: ranks increase.
LEMMA InvAtMostOnce == Inv => AtMostOnce
<1> SUFFICES ASSUME Inv, NEW p \in Proc, NEW i \in 1..Len(delivered[p]),
                    NEW j \in 1..Len(delivered[p]),
                    delivered[p][i] = delivered[p][j], i # j
             PROVE  FALSE
  BY DEF AtMostOnce
<1> DEFINE a == delivered[p][i]
<1>1. i < j \/ j < i
  BY LenProperties DEF Inv, TypeOK
<1>2. Before(a, a)
  BY <1>1 DEF Inv, OrderInv, DeliveredInOrder
<1>3. FinalSeq(a) \in Nat /\ FinalProposer(a) \in Nat
  BY DeliveredRank, NAssumption DEF Inv, DeliveredAt, Proc
<1> QED  BY <1>2, <1>3 DEF Before

\* The delivery logs of all processes agree position by position, whatever is
\* lost, duplicated or retransmitted, for any number of processes, senders
\* and messages, over links that keep Data(k) ahead of Seq(k).
THEOREM TotalOrder == ASSUME Fifo PROVE Spec => []PrefixAgreement
BY InvHolds, InvPrefix, PTL

\* No process delivers a message twice (same assumption on links).
THEOREM DeliveredOnce == ASSUME Fifo PROVE Spec => []AtMostOnce
BY InvHolds, InvAtMostOnce, PTL

\* The lookup of the cached Ack in createOrGetAckMessage never throws (same
\* assumption on links).
THEOREM LookupSucceeds == ASSUME Fifo PROVE Spec => []NoCrash
<1>1. Inv => NoCrash
  BY DEF Inv, PhaseInv
<1> QED  BY <1>1, InvHolds, PTL

----------------------------------------------------------------------------
(* What holds over any network, reordering of Data and Seq included.       *)

\* Mark changes at most the number, proposer and flag of entries of one id.
LEMMA MarkedEntries ==
    ASSUME NEW S, NEW k, NEW n, NEW w
    PROVE  /\ \A e \in Mark(S, k, n, w) :
                e \in S \/ (e.id = k /\ e.seq = n /\ \E f \in S : f.id = k)
           /\ \A f \in S : \E e \in Mark(S, k, n, w) : e.id = f.id
<1> DEFINE new == [id |-> k, seq |-> n, proposer |-> w, deliverable |-> TRUE]
           marked(e) == e.id = k /\ \A f \in S : f.id = k => ~ Less(f, e)
<1>1. Mark(S, k, n, w) = {IF marked(e) THEN new ELSE e : e \in S}
  BY DEF Mark
<1>2. new.id = k /\ new.seq = n
  OBVIOUS
<1>3. \A e \in S : marked(e) => e.id = k
  OBVIOUS
<1> HIDE DEF new, marked
<1> QED  BY <1>1, <1>2, <1>3

\* No handler leaves a number in the deque that exceeds latestSeqId.
LEMMA QueueBelowStep ==
    TypeOK /\ QueueBelowLatest /\ [Next]_vars => QueueBelowLatest'
<1> SUFFICES ASSUME TypeOK, QueueBelowLatest, [Next]_vars PROVE QueueBelowLatest'
  OBVIOUS
<1> USE DEF QueueBelowLatest
<1>0. /\ latestSeqId \in [Proc -> Nat]
      /\ queue \in [Proc -> SUBSET PendingMsg]
  BY DEF TypeOK
<1>1. CASE UNCHANGED <<queue, latestSeqId>>
  BY <1>1
<1>2. ASSUME NEW p \in Proc, NEW m \in net, AddDataMsg(p, m) PROVE QueueBelowLatest'
  <2>1. /\ latestSeqId' = [latestSeqId EXCEPT ![p] = @ + 1]
        /\ \A e \in queue'[p] : e \in queue[p] \/ e.seq = latestSeqId[p] + 1
        /\ \A r \in Proc \ {p} : queue'[r] = queue[r]
    BY <1>0, <1>2 DEF AddDataMsg, ProposedSeq
  <2>2. \A e \in queue[p] : e.seq \in Nat
    BY <1>0 DEF PendingMsg
  <2> QED  BY <1>0, <2>1, <2>2
<1>3. ASSUME NEW p \in Proc, NEW m \in net, processDataMsg(p, m) PROVE QueueBelowLatest'
  BY <1>1, <1>2, <1>3 DEF processDataMsg, RepeatAck, AckLookupFails
<1>4. ASSUME NEW p \in Proc, NEW m \in net, processSeqMsg(p, m) PROVE QueueBelowLatest'
  <2>1. m.seq \in Nat
    BY <1>4, ReceivedMessage DEF processSeqMsg, Arrives, SeqMsg
  <2>2. latestSeqId' = [latestSeqId EXCEPT ![p] =
                            IF Marked(p, m) /\ m.seq > @ THEN m.seq ELSE @]
    BY <1>4 DEF processSeqMsg
  <2>3. /\ \A r \in Proc : latestSeqId[r] <= latestSeqId'[r] /\ latestSeqId'[r] \in Nat
        /\ Marked(p, m) => m.seq <= latestSeqId'[p]
    BY <1>0, <2>1, <2>2
  <2>4. \A r \in Proc : \A e \in queue[r] : e.seq \in Nat
    BY <1>0 DEF PendingMsg
  <2>5. \A r \in Proc : \A e \in queue[r] : e.seq <= latestSeqId'[r]
    BY <1>0, <2>3, <2>4
  <2>6. CASE UNCHANGED queue
    BY <2>5, <2>6
  <2>7. CASE m.id \in pendingMsgSet[p] /\ markDeliverable(p, m)
    <3>1. /\ \A r \in Proc \ {p} : queue'[r] = queue[r]
          /\ queue'[p] \subseteq Mark(queue[p], m.id, m.seq, m.proposer)
      BY <1>0, <2>7 DEF markDeliverable
    <3>2. \A e \in queue'[p] : e \in queue[p] \/ (Marked(p, m) /\ e.seq = m.seq)
      BY <2>7, <3>1, MarkedEntries DEF Marked
    <3> QED  BY <2>3, <2>5, <3>1, <3>2
  <2> QED  BY <1>4, <2>6, <2>7 DEF processSeqMsg
<1>5. ASSUME NEW p \in Proc, NEW m \in net, processAckMsg(p, m) \/ processSeqAckMsg(p, m)
      PROVE  UNCHANGED <<queue, latestSeqId>>
  BY <1>5 DEF processAckMsg, processSeqAckMsg
<1> QED
  BY <1>1, <1>3, <1>4, <1>5 DEF Next, Receive, multicast, SendDataMsgs, SendSeqMsgs, Lose, vars

\* The number of a new entry exceeds every number in the deque, so that the
\* deque is sorted whenever addToQueue appends, for any order of datagrams.
THEOREM DequeStaysSorted == Spec => []QueueBelowLatest
<1>1. Init => QueueBelowLatest
  BY DEF Init, QueueBelowLatest
<1> QED  BY <1>1, QueueBelowStep, TypeCorrect, PTL DEF Spec

\* A message gets one final number: every Seq of it, in transit or in a message
\* list, carries the same number and proposer, for any order of datagrams.
THEOREM FinalNumberUnique == Spec => []OneFinalSeq
<1>1. Init => SenderInv
  BY InvInit DEF Inv
<1>2. ASSUME TypeOK, SenderInv PROVE OneFinalSeq
  <2> SUFFICES ASSUME NEW m1 \in {m \in net : m.type = "Seq"} \cup UNION {seqMsgs[p] : p \in Proc},
                      NEW m2 \in {m \in net : m.type = "Seq"} \cup UNION {seqMsgs[p] : p \in Proc},
                      m1.id = m2.id
               PROVE  m1.seq = m2.seq /\ m1.proposer = m2.proposer
    BY DEF OneFinalSeq
  <2>1. m1.id \in Id
    BY <1>2 DEF TypeOK, Message, DataMsg, AckMsg, SeqMsg, SeqAckMsg
  <2>2. FinalIs(m1.id, m1.seq, m1.proposer) /\ FinalIs(m1.id, m2.seq, m2.proposer)
    BY <1>2 DEF SenderInv, SeqIsFinal
  <2> QED  BY <1>2, <2>1, <2>2, FinalUnique
<1>3. TypeOK /\ SenderInv => OneFinalSeq
  BY <1>2
<1> QED  BY <1>1, <1>3, SenderInvNext, TypeCorrect, PTL DEF Spec

\* markDeliverable moves the deliverable front of the deque to the log.
LEMMA MarkDelivers ==
    ASSUME TypeOK, NEW p \in Proc, NEW m \in net, processSeqMsg(p, m), markDeliverable(p, m)
    PROVE  LET q == Mark(queue[p], m.id, m.seq, m.proposer) IN
           /\ DeliveredAt(p)' = DeliveredAt(p) \cup {f.id : f \in Ready(q)}
           /\ \A r \in Proc : r # p => DeliveredAt(r)' = DeliveredAt(r)
<1> DEFINE q == Mark(queue[p], m.id, m.seq, m.proposer)
<1>1. m.id \in Id /\ m.seq \in Nat /\ m.proposer \in Proc
  BY ReceivedMessage DEF processSeqMsg, Arrives, SeqMsg
<1>2. q \in SUBSET PendingMsg /\ IsFiniteSet(q)
  BY <1>1, MarkType DEF TypeOK
<1>3. PICK s \in Sorted(Ready(q)) : delivered' = [delivered EXCEPT ![p] = @ \o Ids(s)]
  BY DEF markDeliverable
<1> HIDE DEF q
<1>4. IsFiniteSet(Ready(q))
  BY <1>2, FS_Subset DEF Ready
<1> QED  BY <1>2, <1>3, <1>4, DeliveredAfter DEF q

\* addToQueue adds an undeliverable entry of the message.
LEMMA EntryAdded ==
    ASSUME TypeOK, NEW p \in Proc, NEW m, AddDataMsg(p, m)
    PROVE  /\ \A r \in Proc : queue[r] \subseteq queue'[r]
           /\ \A r \in Proc : \A e \in queue'[r] : e.deliverable => e \in queue[r]
           /\ \E e \in queue'[p] : e.id = m.id
<1> DEFINE e0 == [id |-> m.id, seq |-> ProposedSeq(p), proposer |-> p, deliverable |-> FALSE]
<1>1. e0.id = m.id /\ ~ e0.deliverable
  OBVIOUS
<1>2. queue' = [queue EXCEPT ![p] = @ \cup {e0}]
  BY DEF AddDataMsg
<1> HIDE DEF e0
<1>3. queue'[p] = queue[p] \cup {e0} /\ \A r \in Proc : r # p => queue'[r] = queue[r]
  BY <1>2 DEF TypeOK
<1> QED  BY <1>1, <1>3

\* What a process holds it keeps, in the deque or in the log.
LEMMA HeldStep ==
    ASSUME TypeOK, [Next]_vars, NEW p \in Proc, NEW k \in Id, Held(p, k)
    PROVE  Held(p, k)'
<1>1. CASE UNCHANGED <<queue, delivered>>
  BY <1>1 DEF Held, DeliveredAt
<1>2. ASSUME NEW r \in Proc, NEW m \in net, processDataMsg(r, m) PROVE Held(p, k)'
  <2>1. queue[p] \subseteq queue'[p] /\ delivered' = delivered
    BY <1>2, EntryAdded DEF processDataMsg, RepeatAck, AckLookupFails
  <2> QED  BY <2>1 DEF Held, DeliveredAt
<1>3. ASSUME NEW r \in Proc, NEW m \in net, processSeqMsg(r, m) PROVE Held(p, k)'
  <2> DEFINE q == Mark(queue[r], m.id, m.seq, m.proposer)
  <2>1. CASE markDeliverable(r, m)
    <3>1. /\ \A x \in Proc \ {r} : queue'[x] = queue[x]
          /\ queue'[r] = q \ Ready(q)
          /\ \A x \in Proc \ {r} : DeliveredAt(x)' = DeliveredAt(x)
          /\ DeliveredAt(r)' = DeliveredAt(r) \cup {f.id : f \in Ready(q)}
      BY <1>3, <2>1, MarkDelivers DEF markDeliverable, TypeOK
    <3>2. \A e \in queue[r] : \E f \in q : f.id = e.id
      BY MarkedEntries
    <3> QED  BY <3>1, <3>2 DEF Held
  <2> QED  BY <1>1, <1>3, <2>1 DEF processSeqMsg
<1> QED
  BY <1>1, <1>2, <1>3 DEF Next, Receive, multicast, SendDataMsgs, SendSeqMsgs, Lose, vars,
       processAckMsg, processSeqAckMsg

\* An Ack is sent by a process that holds the message, and a Seq only once
\* every process has sent its Ack.
LEMMA HoldInvNext ==
    TypeOK /\ SenderInv /\ HoldInv /\ [Next]_vars => HoldInv'
<1> SUFFICES ASSUME TypeOK, SenderInv, HoldInv, [Next]_vars PROVE HoldInv'
  OBVIOUS
<1>1. AckIsHeld' /\ ProposerHolds'
  <2>1. \A p \in Proc, k \in Id : Held(p, k) => Held(p, k)'
    BY HeldStep
  <2>2. \A m \in net : m.type = "Ack" => m.proposer \in Proc /\ m.id \in Id /\ m.seq \in Nat
    BY ReceivedMessage DEF AckMsg
  <2>3. CASE UNCHANGED <<proposedSeqIdMap, ackMessageCache>>
             /\ \A x \in net' : x.type = "Ack" => x \in net
    BY <2>1, <2>2, <2>3 DEF HoldInv, AckIsHeld, ProposerHolds, Proposals
  <2>4. ASSUME NEW p \in Proc, NEW m \in net, processDataMsg(p, m)
        PROVE  AckIsHeld' /\ ProposerHolds'
    <3>1. m.id \in Id
      BY ReceivedMessage
    <3>3. CASE AckLookupFails(p, m)
      <4>1. UNCHANGED <<proposedSeqIdMap, ackMessageCache>> /\ net' \subseteq net
        BY <2>4, <3>3 DEF processDataMsg, AckLookupFails, ReceiveAndSend
      <4> QED  BY <2>3, <4>1
    <3>2. ASSUME ~ AckLookupFails(p, m)
          PROVE
          /\ Held(p, m.id)'
          /\ \A x \in net' : x \in net \/ (x.id = m.id /\ x.proposer = p)
          /\ \A r \in Proc, k \in Id : ackMessageCache'[r][k] # 0 =>
                ackMessageCache[r][k] # 0 \/ (r = p /\ k = m.id)
      <4>1. CASE AddDataMsg(p, m)
        <5>1. \E e \in queue'[p] : e.id = m.id
          BY <4>1, EntryAdded
        <5>2. net' \subseteq net \cup {AckMessage(m.id, ProposedSeq(p), p)}
          BY <4>1 DEF AddDataMsg, ReceiveAndSend
        <5>3. \A r \in Proc, k \in Id : ackMessageCache'[r][k] # 0 =>
                ackMessageCache[r][k] # 0 \/ (r = p /\ k = m.id)
          BY <3>1, <4>1 DEF AddDataMsg, TypeOK
        <5> QED  BY <5>1, <5>2, <5>3 DEF Held, AckMessage
      <4>2. CASE RepeatAck(p, m)
        <5>1. Held(p, m.id)
          BY <3>1, <4>2 DEF RepeatAck, HoldInv, ProposerHolds
        <5>2. net' \subseteq net \cup {AckMessage(m.id, ackMessageCache[p][m.id], p)}
          BY <4>2 DEF RepeatAck, ReceiveAndSend
        <5>3. ackMessageCache' = ackMessageCache
          BY <4>2 DEF RepeatAck
        <5> QED  BY <2>1, <3>1, <5>1, <5>2, <5>3 DEF AckMessage
      <4> QED  BY <2>4, <3>2, <4>1, <4>2 DEF processDataMsg
    <3> QED  BY <2>1, <2>2, <2>4, <3>1, <3>2, <3>3
             DEF HoldInv, AckIsHeld, ProposerHolds, processDataMsg, Proposals
  <2>5. ASSUME NEW p \in Proc, NEW m \in net, processAckMsg(p, m)
        PROVE  AckIsHeld' /\ ProposerHolds'
    <3>1. Held(m.proposer, m.id) /\ m.proposer \in Proc /\ m.id \in Id
      BY <2>2, <2>5 DEF processAckMsg, Arrives, HoldInv, AckIsHeld
    <3>2. \A k \in Id, r \in Proc : Proposals(k)'[r] # 0 =>
            Proposals(k)[r] # 0 \/ (k = m.id /\ r = m.proposer)
      <4>1. CASE proposedSeqIdMap' = [proposedSeqIdMap EXCEPT ![m.id] =
                    [proposedSeqIdMap[m.id] EXCEPT ![m.proposer] = m.seq]]
        <5>1. proposedSeqIdMap \in [Id -> [Proc -> Nat]]
          BY DEF TypeOK
        <5> QED  BY <3>1, <4>1, <5>1 DEF Proposals
      <4>2. CASE UNCHANGED proposedSeqIdMap
        BY <4>2 DEF Proposals
      <4> QED  BY <2>5, <4>1, <4>2 DEF processAckMsg
    <3>3. net' \subseteq net /\ ackMessageCache' = ackMessageCache
      BY <2>5 DEF processAckMsg, ReceiveAndSend
    <3> QED  BY <2>1, <2>2, <3>1, <3>2, <3>3 DEF HoldInv, AckIsHeld, ProposerHolds
  <2>6. ASSUME NEW p \in Proc, NEW m \in net, processSeqMsg(p, m)
        PROVE  AckIsHeld' /\ ProposerHolds'
    <3>1. /\ \A x \in net' : x.type = "Ack" => x \in net
          /\ \A r \in Proc, k \in Id : ackMessageCache'[r][k] # 0 => ackMessageCache[r][k] # 0
          /\ proposedSeqIdMap' = proposedSeqIdMap
      BY <2>6, NetAfterSeq DEF processSeqMsg, TypeOK
    <3> QED  BY <2>1, <2>2, <3>1 DEF HoldInv, AckIsHeld, ProposerHolds, Proposals
  <2>7. ASSUME NEW p \in Proc, SendDataMsgs(p) \/ SendSeqMsgs(p) PROVE AckIsHeld' /\ ProposerHolds'
    BY <2>3, <2>7 DEF SendDataMsgs, SendSeqMsgs, TypeOK, DataMsg, SeqMsg
  <2>8. ASSUME NEW p \in Proc, NEW m \in net, processSeqAckMsg(p, m) PROVE AckIsHeld' /\ ProposerHolds'
    BY <2>3, <2>8 DEF processSeqAckMsg, ReceiveAndSend
  <2> QED  BY <2>3, <2>4, <2>5, <2>6, <2>7, <2>8 DEF Next, Receive, multicast, Lose, vars
<1>2. SettledIsComplete'
  <2>1. \A k \in Id : Complete(Proposals(k)) => Complete(Proposals(k)')
    BY ProposalsStable DEF SenderInv
  <2>2. \A p \in Proc : DeliveredAt(p) \subseteq Id /\ \A e \in queue[p] : e.id \in Id
    BY DeliveredIds DEF TypeOK, PendingMsg
  <2>3. CASE UNCHANGED <<queue, delivered>>
    BY <2>1, <2>2, <2>3 DEF HoldInv, SettledIsComplete, DeliveredAt
  <2>4. ASSUME NEW p \in Proc, NEW m \in net, processDataMsg(p, m) PROVE SettledIsComplete'
    <3>1. /\ delivered' = delivered
          /\ \A r \in Proc : \A e \in queue'[r] : e.deliverable => e \in queue[r]
      BY <2>4, EntryAdded DEF processDataMsg, RepeatAck, AckLookupFails
    <3> QED  BY <2>1, <2>2, <3>1 DEF HoldInv, SettledIsComplete, DeliveredAt
  <2>5. ASSUME NEW p \in Proc, NEW m \in net, processSeqMsg(p, m), markDeliverable(p, m)
        PROVE  SettledIsComplete'
    <3> DEFINE q == Mark(queue[p], m.id, m.seq, m.proposer)
    <3>1. /\ \A r \in Proc \ {p} : queue'[r] = queue[r] /\ DeliveredAt(r)' = DeliveredAt(r)
          /\ queue'[p] = q \ Ready(q)
          /\ DeliveredAt(p)' = DeliveredAt(p) \cup {f.id : f \in Ready(q)}
      BY <2>5, MarkDelivers DEF markDeliverable, TypeOK
    <3>2. m.id \in Id /\ Complete(Proposals(m.id))
      BY <2>5, ReceivedMessage DEF processSeqMsg, Arrives, SenderInv, SeqIsFinal, FinalIs
    <3>3. \A e \in q : e \in queue[p] \/ e.id = m.id
      BY MarkedEntries
    <3>4. \A e \in q : e.deliverable => e.id \in Id /\ Complete(Proposals(e.id)')
      BY <2>1, <2>2, <3>2, <3>3 DEF HoldInv, SettledIsComplete
    <3>5. \A e \in Ready(q) : e \in q /\ e.deliverable
      BY DEF Ready
    <3> HIDE DEF q
    <3> QED  BY <2>1, <2>2, <3>1, <3>4, <3>5 DEF HoldInv, SettledIsComplete
  <2> QED
    BY <2>3, <2>4, <2>5 DEF Next, Receive, multicast, SendDataMsgs, SendSeqMsgs, Lose, vars,
         processAckMsg, processSeqAckMsg, processSeqMsg
<1> QED  BY <1>1, <1>2 DEF HoldInv

\* A message is delivered only when every process holds it or has delivered
\* it, for any order of datagrams: its Seq waits for the Acks of all.
THEOREM HeldBeforeDelivery == Spec => []HeldByAll
<1>1. Init => SenderInv
  BY InvInit DEF Inv
<1>2. Init => HoldInv
  BY DEF Init, HoldInv, AckIsHeld, ProposerHolds, SettledIsComplete, DeliveredAt, Proposals
<1>3. ASSUME TypeOK, HoldInv PROVE HeldByAll
  <2>1. \A p \in Proc : DeliveredAt(p) \subseteq Id
    BY <1>3, DeliveredIds
  <2>2. \A k \in Id : Complete(Proposals(k)) => \A r \in Proc : Held(r, k)
    BY <1>3 DEF HoldInv, ProposerHolds, Complete
  <2> QED  BY <1>3, <2>1, <2>2 DEF HoldInv, SettledIsComplete, HeldByAll, Held
<1>4. TypeOK /\ HoldInv => HeldByAll
  BY <1>3
<1> QED  BY <1>1, <1>2, <1>4, SenderInvNext, HoldInvNext, TypeCorrect, PTL DEF Spec

----------------------------------------------------------------------------
(* Multicast implements TotalOrderBroadcast.                               *)

\* Only markDeliverable touches a log, and it appends to it.
LEMMA LogStep ==
    ASSUME Inv, Inv', [Next]_vars
    PROVE  \/ UNCHANGED delivered
           \/ /\ UNCHANGED msgId
              /\ \E p \in Proc :
                    /\ \A q \in Proc \ {p} : delivered'[q] = delivered[q]
                    /\ Broadcast!Extends(delivered[p], delivered'[p])
<1>1. ASSUME NEW p \in Proc, NEW m \in net, processSeqMsg(p, m)
      PROVE  \/ UNCHANGED delivered
             \/ /\ UNCHANGED msgId
                /\ \A q \in Proc \ {p} : delivered'[q] = delivered[q]
                /\ Broadcast!Extends(delivered[p], delivered'[p])
  <2>1. CASE ackMessageCache[p][m.id] = 0
    BY <1>1, <2>1, SeqRepeated DEF Inv, receiver
  <2>2. CASE ackMessageCache[p][m.id] # 0
    <3>1. PICK e, q, s : SeqEffect(p, m, e, q, s)
      BY <1>1, <2>2, SeqFirst DEF Inv
    <3>2. /\ delivered[p] \in Seq(Id) /\ Ready(q) \in SUBSET PendingMsg
          /\ IsFiniteSet(Ready(q)) /\ s \in Sorted(Ready(q))
      BY <3>1 DEF SeqEffect, Inv, TypeOK, Ready
    <3>3. /\ delivered'[p] = delivered[p] \o Ids(s)
          /\ \A r \in Proc \ {p} : delivered'[r] = delivered[r]
      <4>1. delivered' = [delivered EXCEPT ![p] = @ \o Ids(s)]
        BY <3>1, Zenon DEF SeqEffect
      <4>2. DOMAIN delivered = Proc
        BY DEF Inv, TypeOK
      <4> QED BY <4>1, <4>2, Zenon
    <3> DEFINE new == delivered[p] \o Ids(s)
    <3>4. /\ Len(delivered[p]) \in Nat /\ Cardinality(Ready(q)) \in Nat
          /\ Len(new) = Len(delivered[p]) + Cardinality(Ready(q))
          /\ \A i \in 1..Len(delivered[p]) : new[i] = delivered[p][i]
      BY <3>2, AppendIds
    <3> HIDE DEF new
    <3>5. Len(delivered[p]) <= Len(new)
      BY <3>4
    <3>6. Broadcast!Extends(delivered[p], delivered'[p])
      BY <3>3, <3>4, <3>5 DEF Broadcast!Extends, new
    <3> QED  BY <1>1, <3>3, <3>6 DEF processSeqMsg
  <2> QED  BY <2>1, <2>2
<1>2. UNCHANGED delivered \/ \E p \in Proc, m \in net : processSeqMsg(p, m)
  BY DEF Next, Receive, vars, multicast, SendDataMsgs, SendSeqMsgs,
         processDataMsg, processAckMsg, processSeqAckMsg, Lose
<1> QED  BY <1>1, <1>2

\* The messages multicast grow one at a time.
LEMMA SentStep ==
    ASSUME Inv, [Next]_vars
    PROVE  \/ UNCHANGED msgId
           \/ /\ UNCHANGED delivered
              /\ \E k \in Id : k \notin Sent /\ Sent' = Sent \cup {k}
<1>1. ASSUME NEW p \in Proc, multicast(p)
      PROVE  /\ UNCHANGED delivered
             /\ \E k \in Id : k \notin Sent /\ Sent' = Sent \cup {k}
  <2>1. msgId' = [msgId EXCEPT ![p] = @ + 1] /\ msgId \in [Proc -> Nat]
    BY <1>1 DEF multicast, Inv, TypeOK
  <2> DEFINE k == <<p, msgId[p] + 1>>
  <2>2. k \in Id /\ k[1] = p /\ k[2] = msgId[p] + 1
    BY <1>1, MsgCountAssumption DEF multicast, Inv, TypeOK, Id
  <2>3. \A j \in Id : j[1] \in Proc /\ j[2] \in Nat /\ j = <<j[1], j[2]>>
    BY SendersAssumption DEF Id
  <2>4. \A j \in Id : j = k <=> j[1] = p /\ j[2] = msgId[p] + 1
    BY <2>2, <2>3
  <2>5. k \notin Sent
    BY <2>1, <2>2 DEF Sent, Sender
  <2> HIDE DEF k
  <2>6. \A j \in Id : j[2] <= msgId'[j[1]] <=> (j[2] <= msgId[j[1]] \/ j = k)
    BY <2>1, <2>3, <2>4
  <2>7. Sent' = Sent \cup {k}
    BY <2>2, <2>6 DEF Sent, Sender
  <2> QED  BY <1>1, <2>2, <2>5, <2>7 DEF multicast
<1>2. UNCHANGED msgId \/ \E p \in Proc : multicast(p)
  BY DEF Next, Receive, vars, SendDataMsgs, SendSeqMsgs,
         processDataMsg, processAckMsg, processSeqMsg, processSeqAckMsg, Lose
<1> QED  BY <1>1, <1>2

LogsSent == \A p \in Proc : delivered[p] \in Seq(Sent)

\* The invariant implies that only multicast messages are delivered.
LEMMA LogsHoldSent == Inv => LogsSent
<1> SUFFICES ASSUME Inv, NEW p \in Proc PROVE delivered[p] \in Seq(Sent)
  BY DEF LogsSent
<1>1. delivered[p] \in Seq(Id)
  BY DEF Inv, TypeOK
<1>2. \A i \in 1..Len(delivered[p]) : delivered[p][i] \in Sent
  <2> SUFFICES ASSUME NEW i \in 1..Len(delivered[p]) PROVE delivered[p][i] \in Sent
    OBVIOUS
  <2>1. PICK k : k = delivered[p][i]
    OBVIOUS
  <2>2. k \in DeliveredAt(p)
    BY <2>1 DEF DeliveredAt
  <2>3. k \in Id /\ Proposals(k)[p] # 0
    BY <2>2, DeliveredRank DEF Inv, FinalIs, Complete
  <2>4. k \in Sent
    BY <2>3 DEF Inv, SenderInv, ProposalsOfSent, Sent
  <2> QED  BY <2>1, <2>4
<1>3. Len(delivered[p]) \in Nat /\ delivered[p] = [i \in 1..Len(delivered[p]) |-> delivered[p][i]]
  BY <1>1, LenProperties
<1> QED  BY <1>2, <1>3

\* Every behaviour of the protocol is a behaviour of the abstract total order
\* broadcast (same assumption on links).
THEOREM Implements == ASSUME Fifo PROVE Spec => ImplementsBroadcast
<1>1. Init => Broadcast!Init
  <2> SUFFICES ASSUME Init PROVE Broadcast!Init
    OBVIOUS
  <2>1. \A k \in Id : Sender(k) \in Proc /\ ~ (k[2] <= 0)
    BY SendersAssumption, MsgCountAssumption DEF Id, Sender
  <2>2. Sent = {}
    BY <2>1 DEF Init, Sent
  <2> QED  BY <2>2 DEF Init, Broadcast!Init
<1>2. Inv /\ Inv' /\ [Next]_vars => [Broadcast!Next]_<<Sent, delivered>>
  <2> SUFFICES ASSUME Inv, Inv', [Next]_vars
               PROVE  [Broadcast!Next]_<<Sent, delivered>>
    OBVIOUS
  <2>1. UNCHANGED msgId => Sent' = Sent
    BY DEF Sent
  <2>2. CASE \E k \in Id : UNCHANGED delivered /\ k \notin Sent /\ Sent' = Sent \cup {k}
    BY <2>2 DEF Broadcast!Next, Broadcast!Multicast
  <2>3. ASSUME UNCHANGED msgId, NEW p \in Proc,
               \A q \in Proc \ {p} : delivered'[q] = delivered[q],
               Broadcast!Extends(delivered[p], delivered'[p])
        PROVE  Broadcast!Deliver(p)
    <3>1. PrefixAgreement' /\ AtMostOnce'
      BY InvPrefix, InvAtMostOnce, PTL
    <3>2. Broadcast!Consistent(delivered')
      BY <3>1 DEF PrefixAgreement, Broadcast!Consistent
    <3>3. Broadcast!NoRepeats(delivered'[p])
      BY <3>1 DEF AtMostOnce, Broadcast!NoRepeats
    <3>4. LogsSent'
      BY LogsHoldSent, PTL
    <3>5. delivered'[p] \in Seq(Sent)
      BY <2>1, <2>3, <3>4 DEF LogsSent
    <3> QED  BY <2>1, <2>3, <3>2, <3>3, <3>5 DEF Broadcast!Deliver
  <2>4. UNCHANGED <<Sent, delivered>> \/ Broadcast!Next
    BY <2>1, <2>2, <2>3, LogStep, SentStep DEF Broadcast!Next
  <2> QED  BY <2>4
<1> QED
  BY <1>1, <1>2, InvHolds, PTL DEF Spec, ImplementsBroadcast, Broadcast!Spec
=============================================================================
