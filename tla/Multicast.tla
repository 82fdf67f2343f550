----------------------------- MODULE Multicast -----------------------------
(***************************************************************************)
(* Total order multicast of lab1 (class MulticastService, multicast.cpp):  *)
(* the ISIS algorithm over UDP with retransmission.                        *)
(*                                                                         *)
(* A sender s sends Data(k) to every process (itself included) until each  *)
(* has answered with an Ack, the number it proposes for k.  The last Ack   *)
(* fixes the final number of k, the largest proposal, which s sends in     *)
(* Seq(k) until every process has answered with a SeqAck.  A process holds *)
(* k in its HoldBackQueue from Data(k) on, marks it deliverable on Seq(k)  *)
(* and delivers the deliverable messages at the front of the queue.        *)
(*                                                                         *)
(* Every handler runs in the one receiver thread of its process and is one *)
(* action here, the datagram it sends included.  The two sender threads    *)
(* are SendDataMsgs and SendSeqMsgs: one round of the retransmission loop, *)
(* which holds msgListMutex throughout.                                    *)
(***************************************************************************)
EXTENDS Integers, FiniteSets, Sequences

CONSTANTS
    N,           \* number of hosts in the hostfile
    Senders,     \* the processes named by --senders
    MsgCount,    \* --msgCount: messages multicast by each sender
    Fifo,        \* does a link deliver Data(k) sent before Seq(k) first?
    Duplicates,  \* may further copies of a received datagram arrive?
    MaxLoss,     \* bound on the datagrams lost in transit
    MaxSeq       \* bound on the numbers proposed (the code wraps at 2^32)

Proc == 1..N

ASSUME NAssumption == N \in Nat /\ N >= 3
ASSUME SendersAssumption == Senders \subseteq Proc
ASSUME MsgCountAssumption == MsgCount \in Nat
ASSUME NetworkAssumption ==
    Fifo \in BOOLEAN /\ Duplicates \in BOOLEAN /\ MaxLoss \in Nat /\ MaxSeq \in Nat

\* MsgIdentifier: a message is known by its sender and the sender's counter.
Id == Senders \X (1..MsgCount)

Sender(k) == k[1]

VARIABLES
    msgId,            \* [Proc -> Nat]: messages multicast so far
    latestSeqId,      \* [Proc -> Nat]: largest number proposed or marked
    dataMsgs,         \* [Proc -> SUBSET DataMsg]: the Data each dataMsgSender
                      \* still sends, one member per holder and recipient
    seqMsgs,          \* [Proc -> SUBSET SeqMsg]: the same of seqMsgSender
    proposedSeqIdMap, \* [Id -> [Proc -> Nat]], kept by the sender of the id;
                      \* 0 stands for no entry
    ackMessageCache,  \* [Proc -> [Id -> Nat]]: proposed_seq of the cached Ack;
                      \* 0 stands for no entry
    queue,            \* [Proc -> SUBSET PendingMsg]: HoldBackQueue::deque
    pendingMsgSet,    \* [Proc -> SUBSET Id]: HoldBackQueue::pendingMsgSet
    delivered,        \* [Proc -> Seq(Id)]: ids handed to the callback cb
    crashed,          \* [Proc -> BOOLEAN]: an uncaught exception ended it
    net,              \* datagrams in transit
    lost              \* datagrams lost so far

vars == <<msgId, latestSeqId, dataMsgs, seqMsgs, proposedSeqIdMap,
          ackMessageCache, queue, pendingMsgSet, delivered, crashed, net, lost>>

----------------------------------------------------------------------------
(* Datagrams (message.h) and queue entries (PendingMsg).                   *)

DataMsg == [type : {"Data"}, id : Id, to : Proc]
AckMsg == [type : {"Ack"}, id : Id, to : Proc, seq : Nat, proposer : Proc]
SeqMsg == [type : {"Seq"}, id : Id, to : Proc, seq : Nat, proposer : Proc]
SeqAckMsg == [type : {"SeqAck"}, id : Id, to : Proc, from : Proc]
Message == DataMsg \cup AckMsg \cup SeqMsg \cup SeqAckMsg

DataMessage(k, r) == [type |-> "Data", id |-> k, to |-> r]
AckMessage(k, seq, p) ==
    [type |-> "Ack", id |-> k, to |-> Sender(k), seq |-> seq, proposer |-> p]
SeqMessage(k, r, seq, w) ==
    [type |-> "Seq", id |-> k, to |-> r, seq |-> seq, proposer |-> w]
SeqAckMessage(k, p) ==
    [type |-> "SeqAck", id |-> k, to |-> Sender(k), from |-> p]

PendingMsg == [id : Id, seq : Nat, proposer : Proc, deliverable : BOOLEAN]

\* operator<: smaller number first; on equal numbers an undeliverable entry
\* first, then the smaller proposer.
Less(e, f) ==
    IF e.seq = f.seq
    THEN IF e.deliverable = f.deliverable
         THEN e.proposer < f.proposer
         ELSE f.deliverable
    ELSE e.seq < f.seq

(***************************************************************************)
(* The deque is a set ordered by Less.  addToQueue appends an entry whose  *)
(* number exceeds every number in the deque (QueueBelowLatest) and every   *)
(* change of an entry is followed by std::sort, so the deque is always the *)
(* sorted list of this set and its first entry with an id is the least.    *)
(***************************************************************************)

\* The loop and the assignments of markDeliverable.
Mark(q, k, seq, w) ==
    {IF e.id = k /\ \A f \in q : f.id = k => ~ Less(f, e)
     THEN [id |-> k, seq |-> seq, proposer |-> w, deliverable |-> TRUE]
     ELSE e : e \in q}

\* Mutant: every deliverable entry is delivered, not only those at the front.
BugReady(q) == {e \in q : e.deliverable}

\* The deliverable entries at the front of the sorted deque.
Ready(q) == {e \in q : e.deliverable /\ \A f \in q : Less(f, e) => f.deliverable}

\* The order in which the delivery loop visits the entries of S.
Sorted(S) ==
    {s \in [1..Cardinality(S) -> S] :
        /\ \A e \in S : \E i \in 1..Cardinality(S) : s[i] = e
        /\ \A i, j \in 1..Cardinality(S) : i < j => Less(s[i], s[j])}

Ids(s) == [i \in 1..Len(s) |-> s[i].id]

\* The condition of max_element in createSeqMessage: w proposed the largest
\* number, and is the smallest process that did.
Wins(proposals, w) ==
    \A v \in Proc :
        \/ proposals[v] < proposals[w]
        \/ proposals[v] = proposals[w] /\ w <= v

\* Mutant: the Seq is queued one Ack too early.
BugComplete(proposals) == Cardinality({v \in Proc : proposals[v] > 0}) >= N - 1

\* proposedSeqIds.size() == recipients.size()
Complete(proposals) == \A v \in Proc : proposals[v] > 0

----------------------------------------------------------------------------
(* The network.  UDP datagrams may be lost, duplicated and reordered.  With *)
(* Fifo, a Data(k) that is overtaken by the Seq(k) of the same link never   *)
(* arrives; no other order is imposed.                                      *)

Overtaken(m) ==
    IF Fifo /\ m.type = "Seq" THEN {DataMessage(m.id, m.to)} ELSE {}

\* Take m from the network and send the datagrams of out.
ReceiveAndSend(m, out) ==
    net' = ((IF Duplicates THEN net ELSE net \ {m}) \ Overtaken(m)) \cup out

Arrives(p, m, type) == ~ crashed[p] /\ m \in net /\ m.type = type /\ m.to = p

\* In transit, or by dropMessage in the receiver.
Lose(m) ==
    /\ lost < MaxLoss
    /\ m \in net
    /\ net' = net \ {m}
    /\ lost' = lost + 1
    /\ UNCHANGED <<msgId, latestSeqId, dataMsgs, seqMsgs, proposedSeqIdMap,
                   ackMessageCache, queue, pendingMsgSet, delivered, crashed>>

----------------------------------------------------------------------------
(* The sender of a message.                                                *)

\* Mutant: the id is taken before the counter is incremented.
BugMulticast(p) ==
    /\ p \in Senders
    /\ msgId[p] < MsgCount
    /\ msgId' = [msgId EXCEPT ![p] = @ + 1]
    /\ dataMsgs' = [dataMsgs EXCEPT ![p] =
                        @ \cup {DataMessage(<<p, msgId[p]>>, r) : r \in Proc}]
    /\ UNCHANGED <<latestSeqId, seqMsgs, proposedSeqIdMap, ackMessageCache,
                   queue, pendingMsgSet, delivered, crashed, net, lost>>

\* createDataMessage and dataMsgSender.queueMsg
multicast(p) ==
    /\ ~ crashed[p]
    /\ p \in Senders
    /\ msgId[p] < MsgCount
    /\ msgId' = [msgId EXCEPT ![p] = @ + 1]
    /\ dataMsgs' = [dataMsgs EXCEPT ![p] =
                        @ \cup {DataMessage(<<p, msgId[p] + 1>>, r) : r \in Proc}]
    /\ UNCHANGED <<latestSeqId, seqMsgs, proposedSeqIdMap, ackMessageCache,
                   queue, pendingMsgSet, delivered, crashed, net, lost>>

\* Mutant: a message is sent once and forgotten.
BugSendDataMsgs(p) ==
    /\ dataMsgs[p] # {}
    /\ net' = net \cup dataMsgs[p]
    /\ dataMsgs' = [dataMsgs EXCEPT ![p] = {}]
    /\ UNCHANGED <<msgId, latestSeqId, seqMsgs, proposedSeqIdMap,
                   ackMessageCache, queue, pendingMsgSet, delivered, crashed,
                   lost>>

\* One round of startSendingMessages, of the Data and of the Seq sender.
SendDataMsgs(p) ==
    /\ ~ crashed[p]
    /\ dataMsgs[p] # {}
    /\ net' = net \cup dataMsgs[p]
    /\ UNCHANGED <<msgId, latestSeqId, dataMsgs, seqMsgs, proposedSeqIdMap,
                   ackMessageCache, queue, pendingMsgSet, delivered, crashed,
                   lost>>

SendSeqMsgs(p) ==
    /\ ~ crashed[p]
    /\ seqMsgs[p] # {}
    /\ net' = net \cup seqMsgs[p]
    /\ UNCHANGED <<msgId, latestSeqId, dataMsgs, seqMsgs, proposedSeqIdMap,
                   ackMessageCache, queue, pendingMsgSet, delivered, crashed,
                   lost>>

\* createSeqMessage and seqMsgSender.queueMsg, once every process proposed.
QueueSeqMsg(p, k, proposals) ==
    IF Complete(proposals)
    THEN \E w \in Proc :
            /\ Wins(proposals, w)
            /\ seqMsgs' = [seqMsgs EXCEPT ![p] =
                    @ \cup {SeqMessage(k, r, proposals[w], w) : r \in Proc}]
    ELSE UNCHANGED seqMsgs

\* Only the first Ack of a process counts: removeRecipient returns true once.
processAckMsg(p, m) ==
    /\ Arrives(p, m, "Ack")
    /\ LET d == DataMessage(m.id, m.proposer)
           proposals == [proposedSeqIdMap[m.id] EXCEPT ![m.proposer] = m.seq]
       IN  \/ /\ d \in dataMsgs[p]
              /\ dataMsgs' = [dataMsgs EXCEPT ![p] = @ \ {d}]
              /\ proposedSeqIdMap' = [proposedSeqIdMap EXCEPT ![m.id] = proposals]
              /\ QueueSeqMsg(p, m.id, proposals)
           \/ /\ d \notin dataMsgs[p]
              /\ UNCHANGED <<dataMsgs, proposedSeqIdMap, seqMsgs>>
    /\ ReceiveAndSend(m, {})
    /\ UNCHANGED <<msgId, latestSeqId, ackMessageCache, queue, pendingMsgSet,
                   delivered, crashed, lost>>

\* seqMsgSender.removeRecipient
processSeqAckMsg(p, m) ==
    /\ Arrives(p, m, "SeqAck")
    /\ seqMsgs' = [seqMsgs EXCEPT ![p] =
                    {s \in @ : ~ (s.id = m.id /\ s.to = m.from)}]
    /\ ReceiveAndSend(m, {})
    /\ UNCHANGED <<msgId, latestSeqId, dataMsgs, proposedSeqIdMap,
                   ackMessageCache, queue, pendingMsgSet, delivered, crashed,
                   lost>>

----------------------------------------------------------------------------
(* The receiver of a message.                                              *)

\* The number of a new entry of the hold-back queue of p.
ProposedSeq(p) == latestSeqId[p] + 1

\* Mutant: latestSeqId is not incremented for a new entry.
BugAddDataMsg(p, m) ==
    /\ m.id \notin pendingMsgSet[p]
    /\ ProposedSeq(p) <= MaxSeq
    /\ pendingMsgSet' = [pendingMsgSet EXCEPT ![p] = @ \cup {m.id}]
    /\ queue' = [queue EXCEPT ![p] = @ \cup
                    {[id |-> m.id, seq |-> ProposedSeq(p), proposer |-> p,
                      deliverable |-> FALSE]}]
    /\ ackMessageCache' = [ackMessageCache EXCEPT ![p][m.id] = ProposedSeq(p)]
    /\ ReceiveAndSend(m, {AckMessage(m.id, ProposedSeq(p), p)})
    /\ UNCHANGED <<latestSeqId, crashed>>

\* addToQueue succeeds: propose a number and cache the Ack.
AddDataMsg(p, m) ==
    /\ m.id \notin pendingMsgSet[p]
    /\ ProposedSeq(p) <= MaxSeq
    /\ pendingMsgSet' = [pendingMsgSet EXCEPT ![p] = @ \cup {m.id}]
    /\ queue' = [queue EXCEPT ![p] = @ \cup
                    {[id |-> m.id, seq |-> ProposedSeq(p), proposer |-> p,
                      deliverable |-> FALSE]}]
    /\ ackMessageCache' = [ackMessageCache EXCEPT ![p][m.id] = ProposedSeq(p)]
    /\ latestSeqId' = [latestSeqId EXCEPT ![p] = @ + 1]
    /\ ReceiveAndSend(m, {AckMessage(m.id, ProposedSeq(p), p)})
    /\ UNCHANGED crashed

\* Mutant: the cached Ack is given up when it is sent again.
BugRepeatAck(p, m) ==
    /\ m.id \in pendingMsgSet[p]
    /\ ackMessageCache[p][m.id] # 0
    /\ ackMessageCache' = [ackMessageCache EXCEPT ![p][m.id] = 0]
    /\ ReceiveAndSend(m, {AckMessage(m.id, ackMessageCache[p][m.id], p)})
    /\ UNCHANGED <<latestSeqId, queue, pendingMsgSet, crashed>>

\* A retransmission: answer with the cached Ack.
RepeatAck(p, m) ==
    /\ m.id \in pendingMsgSet[p]
    /\ ackMessageCache[p][m.id] # 0
    /\ ReceiveAndSend(m, {AckMessage(m.id, ackMessageCache[p][m.id], p)})
    /\ UNCHANGED <<latestSeqId, ackMessageCache, queue, pendingMsgSet, crashed>>

\* ackMessageCache.at throws out_of_range, which nothing catches.
AckLookupFails(p, m) ==
    /\ m.id \in pendingMsgSet[p]
    /\ ackMessageCache[p][m.id] = 0
    /\ crashed' = [crashed EXCEPT ![p] = TRUE]
    /\ ReceiveAndSend(m, {})
    /\ UNCHANGED <<latestSeqId, ackMessageCache, queue, pendingMsgSet>>

processDataMsg(p, m) ==
    /\ Arrives(p, m, "Data")
    /\ AddDataMsg(p, m) \/ RepeatAck(p, m) \/ AckLookupFails(p, m)
    /\ UNCHANGED <<msgId, dataMsgs, seqMsgs, proposedSeqIdMap, delivered, lost>>

\* Mutant: the delivery loop advances without erasing from the deque.
BugMarkDeliverable(p, m) ==
    LET q == Mark(queue[p], m.id, m.seq, m.proposer)
        ready == Ready(q)
    IN  /\ \E s \in Sorted(ready) :
              delivered' = [delivered EXCEPT ![p] = @ \o Ids(s)]
        /\ queue' = [queue EXCEPT ![p] = q]
        /\ pendingMsgSet' = [pendingMsgSet EXCEPT ![p] =
                                IF ready # {} THEN @ \ {m.id} ELSE @]

\* markDeliverable on a pending id.  When anything is delivered, the id of
\* the Seq being processed leaves pendingMsgSet, not the delivered ids.
markDeliverable(p, m) ==
    LET q == Mark(queue[p], m.id, m.seq, m.proposer)
        ready == Ready(q)
    IN  /\ \E s \in Sorted(ready) :
              delivered' = [delivered EXCEPT ![p] = @ \o Ids(s)]
        /\ queue' = [queue EXCEPT ![p] = q \ ready]
        /\ pendingMsgSet' = [pendingMsgSet EXCEPT ![p] =
                                IF ready # {} THEN @ \ {m.id} ELSE @]

\* Mutant: the final number of a message does not raise latestSeqId.
BugMarked(p, m) == FALSE

\* markDeliverable returned true.
Marked(p, m) == m.id \in pendingMsgSet[p] /\ \E e \in queue[p] : e.id = m.id

\* Mutant: a duplicate Seq is dropped without a SeqAck.
BugProcessSeqMsg(p, m) ==
    /\ Arrives(p, m, "Seq")
    /\ \/ m.id \in pendingMsgSet[p] /\ markDeliverable(p, m)
       \/ /\ m.id \notin pendingMsgSet[p]
          /\ UNCHANGED <<queue, pendingMsgSet, delivered>>
    /\ latestSeqId' = [latestSeqId EXCEPT ![p] =
                        IF Marked(p, m) /\ m.seq > @ THEN m.seq ELSE @]
    /\ ackMessageCache' = [ackMessageCache EXCEPT ![p][m.id] = 0]
    /\ ReceiveAndSend(m, IF Marked(p, m) THEN {SeqAckMessage(m.id, p)} ELSE {})
    /\ UNCHANGED <<msgId, dataMsgs, seqMsgs, proposedSeqIdMap, crashed, lost>>

processSeqMsg(p, m) ==
    /\ Arrives(p, m, "Seq")
    /\ \/ m.id \in pendingMsgSet[p] /\ markDeliverable(p, m)
       \/ /\ m.id \notin pendingMsgSet[p]
          /\ UNCHANGED <<queue, pendingMsgSet, delivered>>
    /\ latestSeqId' = [latestSeqId EXCEPT ![p] =
                        IF Marked(p, m) /\ m.seq > @ THEN m.seq ELSE @]
    /\ ackMessageCache' = [ackMessageCache EXCEPT ![p][m.id] = 0]
    /\ ReceiveAndSend(m, {SeqAckMessage(m.id, p)})
    /\ UNCHANGED <<msgId, dataMsgs, seqMsgs, proposedSeqIdMap, crashed, lost>>

----------------------------------------------------------------------------
Init ==
    /\ msgId = [p \in Proc |-> 0]
    /\ latestSeqId = [p \in Proc |-> 0]
    /\ dataMsgs = [p \in Proc |-> {}]
    /\ seqMsgs = [p \in Proc |-> {}]
    /\ proposedSeqIdMap = [k \in Id |-> [p \in Proc |-> 0]]
    /\ ackMessageCache = [p \in Proc |-> [k \in Id |-> 0]]
    /\ queue = [p \in Proc |-> {}]
    /\ pendingMsgSet = [p \in Proc |-> {}]
    /\ delivered = [p \in Proc |-> <<>>]
    /\ crashed = [p \in Proc |-> FALSE]
    /\ net = {}
    /\ lost = 0

\* One iteration of startListeningForMessages.
Receive(p, m) ==
    \/ processDataMsg(p, m)
    \/ processAckMsg(p, m)
    \/ processSeqMsg(p, m)
    \/ processSeqAckMsg(p, m)

Next ==
    \/ \E p \in Proc : multicast(p) \/ SendDataMsgs(p) \/ SendSeqMsgs(p)
    \/ \E p \in Proc, m \in net : Receive(p, m)
    \/ \E m \in net : Lose(m)

Spec == Init /\ [][Next]_vars

(***************************************************************************)
(* Fairness: the main thread multicasts, the two sender threads keep       *)
(* retransmitting and the receiver thread eventually processes every       *)
(* datagram that waits in its socket (one condition per kind of datagram,  *)
(* id and link, since a socket is read in arrival order).                  *)
(***************************************************************************)
Origin(m) ==
    CASE m.type = "Ack" -> m.proposer
      [] m.type = "SeqAck" -> m.from
      [] OTHER -> Sender(m.id)

Fairness ==
    /\ \A p \in Proc : /\ WF_vars(multicast(p))
                       /\ WF_vars(SendDataMsgs(p))
                       /\ WF_vars(SendSeqMsgs(p))
    /\ \A p, q \in Proc, k \in Id, type \in {"Data", "Ack", "Seq", "SeqAck"} :
            WF_vars(\E m \in net : /\ m.type = type /\ m.id = k /\ Origin(m) = q
                                   /\ Receive(p, m))

FairSpec == Spec /\ Fairness

----------------------------------------------------------------------------
(* Properties.                                                             *)

\* Types of the state: every id in use was issued by a sender, every number
\* is natural and every queue is finite.
TypeOK ==
    /\ msgId \in [Proc -> Nat]
    /\ latestSeqId \in [Proc -> Nat]
    /\ dataMsgs \in [Proc -> SUBSET DataMsg]
    /\ seqMsgs \in [Proc -> SUBSET SeqMsg]
    /\ proposedSeqIdMap \in [Id -> [Proc -> Nat]]
    /\ ackMessageCache \in [Proc -> [Id -> Nat]]
    /\ queue \in [Proc -> SUBSET PendingMsg]
    /\ \A p \in Proc : IsFiniteSet(queue[p])
    /\ pendingMsgSet \in [Proc -> SUBSET Id]
    /\ delivered \in [Proc -> Seq(Id)]
    /\ crashed \in [Proc -> BOOLEAN]
    /\ net \subseteq Message
    /\ lost \in Nat

DeliveredAt(p) == {delivered[p][i] : i \in 1..Len(delivered[p])}

\* The delivery logs of any two processes agree position by position: one is
\* a prefix of the other, so all processes deliver the same messages in the
\* same order without gaps.  This is what markDeliverable, operator< and the
\* choice of the final number in createSeqMessage are for.
PrefixAgreement ==
    \A p, q \in Proc : \A i \in 1..Len(delivered[p]) :
        i <= Len(delivered[q]) => delivered[p][i] = delivered[q][i]

\* No process delivers a message twice, however often its Data and its Seq
\* are retransmitted or duplicated (pendingMsgSet in the HoldBackQueue).
AtMostOnce ==
    \A p \in Proc : \A i, j \in 1..Len(delivered[p]) :
        delivered[p][i] = delivered[p][j] => i = j

\* createOrGetAckMessage finds a cached Ack for every Data that addToQueue
\* refuses: the lookup never throws and no process terminates.
NoCrash == \A p \in Proc : ~ crashed[p]

\* Every number in the deque is at most latestSeqId, so an entry appended by
\* addToQueue (number latestSeqId + 1) belongs at the end and the deque stays
\* sorted between two calls of std::sort.
QueueBelowLatest ==
    \A p \in Proc : \A e \in queue[p] : e.seq <= latestSeqId[p]

\* A message is delivered by one process only when every process holds it or
\* has delivered it: the Seq that allows the delivery is sent after all Acks.
HeldByAll ==
    \A p, r \in Proc : \A k \in DeliveredAt(p) :
        k \in DeliveredAt(r) \/ \E e \in queue[r] : e.id = k

\* All Seq messages of one id, in transit or still being sent, carry the same
\* number and proposer: seqMsgSender is given one Seq per id.
OneFinalSeq ==
    \A m1, m2 \in {m \in net : m.type = "Seq"} \cup UNION {seqMsgs[p] : p \in Proc} :
        m1.id = m2.id => m1.seq = m2.seq /\ m1.proposer = m2.proposer

\* Every queued message is eventually delivered by every process, despite
\* lost datagrams: the senders retransmit until they are answered.
AllDelivered ==
    <>(\A p \in Proc : DeliveredAt(p) = Id)

\* Retransmission stops: every holder is eventually acknowledged by all its
\* recipients and leaves the message lists for good.
SendersDrain ==
    <>[](\A p \in Proc : dataMsgs[p] = {} /\ seqMsgs[p] = {})

\* The ids of the messages multicast so far.
Sent == {k \in Id : k[2] <= msgId[Sender(k)]}

Broadcast == INSTANCE TotalOrderBroadcast WITH sent <- Sent

\* The protocol implements the abstract total order broadcast: every handler
\* step is a multicast, a consistent delivery of one or more messages, or
\* invisible in terms of what was multicast and delivered.
ImplementsBroadcast == Broadcast!Spec
=============================================================================
