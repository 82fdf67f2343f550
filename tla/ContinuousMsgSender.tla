------------------------ MODULE ContinuousMsgSender ------------------------
(***************************************************************************)
(* One ContinuousMsgSender<T> of lab1 (multicast.cpp): a thread that sends *)
(* the messages of msgList to their recipients in rounds and sleeps on a   *)
(* condition variable while the list is empty; queueMsg and                *)
(* removeRecipient are called by other threads.                            *)
(*                                                                         *)
(* A critical section of msgListMutex is one step.  The test of            *)
(* msgList.empty() and the call of notify_all are made without the mutex   *)
(* and are steps of their own.  A torn read of the two vector pointers     *)
(* compares equal only when the list was empty before or is empty after    *)
(* the concurrent change, so the racy test is an atomic read.              *)
(***************************************************************************)
EXTENDS Integers, FiniteSets

CONSTANTS
    MaxMsgs,       \* bound on the messages queued
    Recipients,    \* hosts every message is sent to
    MaxInterval    \* maxSendingIntervalMillis

ASSUME MaxMsgsAssumption == MaxMsgs \in Nat
ASSUME RecipientsAssumption == Recipients # {}
ASSUME MaxIntervalAssumption == MaxInterval \in Nat /\ MaxInterval >= 200

MsgIds == 1..MaxMsgs

VARIABLES
    pc,                  \* of the thread in startSendingMessages
    msgList,             \* set of MsgHolder: [id, recipients]
    queueContainsData,   \* what the condition variable waits for
    notifying,           \* the caller of queueMsg has yet to call notify_all
    queued,              \* messages queued so far; ids are consecutive
    retryCount,
    interval,            \* length of the latest sleep (200 before the first)
    wire,                \* datagrams in transit, as <<id, recipient>>
    acks                 \* answers on their way to the caller of removeRecipient

vars == <<pc, msgList, queueContainsData, notifying, queued, retryCount,
          interval, wire, acks>>

MsgHolder(k) == [id |-> k, recipients |-> Recipients]

\* What one round sends.
Datagrams(list) ==
    {d \in MsgIds \X Recipients :
        \E h \in list : h.id = d[1] /\ d[2] \in h.recipients}

----------------------------------------------------------------------------
(* startSendingMessages *)

\* Mutant: the thread waits for new data before every round.
BugCheck ==
    /\ pc = "check"
    /\ pc' = "wait"
    /\ UNCHANGED <<msgList, queueContainsData, notifying, queued, retryCount,
                   interval, wire, acks>>

\* msgList.empty(), without the mutex.
Check ==
    /\ pc = "check"
    /\ pc' = IF msgList = {} THEN "wait" ELSE "send"
    /\ UNCHANGED <<msgList, queueContainsData, notifying, queued, retryCount,
                   interval, wire, acks>>

\* cv.wait: the predicate is tested under the mutex; if it is false the thread
\* blocks and releases the mutex in one step.
Wait ==
    /\ pc = "wait"
    /\ pc' = IF queueContainsData THEN "send" ELSE "blocked"
    /\ queueContainsData' = FALSE
    /\ UNCHANGED <<msgList, notifying, queued, retryCount, interval, wire, acks>>

\* std::condition_variable may return without a notification.
SpuriousWakeup ==
    /\ pc = "blocked"
    /\ pc' = "wait"
    /\ UNCHANGED <<msgList, queueContainsData, notifying, queued, retryCount,
                   interval, wire, acks>>

getSendingInterval(i) ==
    \/ i <= MaxInterval /\ interval' = i /\ retryCount' = retryCount + 1
    \/ i > MaxInterval /\ interval' = 200 /\ retryCount' = 0

\* A round under the mutex, then the choice of the interval to sleep.
Send ==
    /\ pc = "send"
    /\ pc' = "check"
    /\ wire' = wire \cup Datagrams(msgList)
    /\ getSendingInterval(2 ^ retryCount * 200)
    /\ UNCHANGED <<msgList, queueContainsData, notifying, queued, acks>>

----------------------------------------------------------------------------
(* queueMsg and removeRecipient *)

\* Mutant: queueContainsData is not set.
BugQueueMsg ==
    /\ ~ notifying
    /\ queued < MaxMsgs
    /\ queued' = queued + 1
    /\ msgList' = msgList \cup {MsgHolder(queued + 1)}
    /\ notifying' = TRUE
    /\ UNCHANGED <<pc, queueContainsData, retryCount, interval, wire, acks>>

\* The critical section of queueMsg, which one thread calls.
queueMsg ==
    /\ ~ notifying
    /\ queued < MaxMsgs
    /\ queued' = queued + 1
    /\ msgList' = msgList \cup {MsgHolder(queued + 1)}
    /\ queueContainsData' = TRUE
    /\ notifying' = TRUE
    /\ UNCHANGED <<pc, retryCount, interval, wire, acks>>

\* cv.notify_all at the end of queueMsg.
Notify ==
    /\ notifying
    /\ notifying' = FALSE
    /\ pc' = IF pc = "blocked" THEN "wait" ELSE pc
    /\ UNCHANGED <<msgList, queueContainsData, queued, retryCount, interval,
                   wire, acks>>

\* Mutant: a holder stays in the list when its last recipient leaves.
BugEraseEmptyHolder(list) == msgList' = list

\* The first holder without recipients, if there is one, leaves the list.
EraseEmptyHolder(list) ==
    \/ \E h \in list : h.recipients = {} /\ msgList' = list \ {h}
    \/ (\A h \in list : h.recipients # {}) /\ msgList' = list

\* Mutant: an answer takes the message off the list for every recipient.
BugErased(k, r) == {IF h.id = k THEN [h EXCEPT !.recipients = {}] ELSE h : h \in msgList}

\* msgHolder.recipients.erase(recipient) for the holder with this id.
Erased(k, r) ==
    {IF h.id = k THEN [h EXCEPT !.recipients = @ \ {r}] ELSE h : h \in msgList}

\* Called for every answer, also for duplicate ones.
removeRecipient(k, r) ==
    /\ <<k, r>> \in acks
    /\ EraseEmptyHolder(Erased(k, r))
    /\ UNCHANGED <<pc, queueContainsData, notifying, queued, retryCount,
                   interval, wire, acks>>

----------------------------------------------------------------------------
(* The network and the recipients. *)

Arrive(d) ==
    /\ d \in wire
    /\ wire' = wire \ {d}
    /\ acks' = acks \cup {d}
    /\ UNCHANGED <<pc, msgList, queueContainsData, notifying, queued,
                   retryCount, interval>>

Lose(d) ==
    /\ d \in wire
    /\ wire' = wire \ {d}
    /\ UNCHANGED <<pc, msgList, queueContainsData, notifying, queued,
                   retryCount, interval, acks>>

----------------------------------------------------------------------------
Init ==
    /\ pc = "check"
    /\ msgList = {}
    /\ queueContainsData = FALSE
    /\ notifying = FALSE
    /\ queued = 0
    /\ retryCount = 0
    /\ interval = 200
    /\ wire = {}
    /\ acks = {}

SenderThread == Check \/ Wait \/ Send

Next ==
    \/ SenderThread \/ SpuriousWakeup \/ queueMsg \/ Notify
    \/ \E k \in MsgIds, r \in Recipients :
            removeRecipient(k, r) \/ Arrive(<<k, r>>) \/ Lose(<<k, r>>)

Spec == Init /\ [][Next]_vars

\* The operating system runs the sender thread and the caller of queueMsg.
\* Nothing is assumed of the network, of answers or of spurious wakeups.
FairSpec == Spec /\ WF_vars(SenderThread) /\ WF_vars(Notify)

----------------------------------------------------------------------------
(* Properties *)

\* A round never visits a holder without recipients: removeRecipient, which
\* erases at most one holder per call, leaves none behind, so the thread
\* sleeps once every answer is in.
NoEmptyHolder == \A h \in msgList : h.recipients # {}

\* Types of the state: every holder has an id that was queued and recipients
\* of the group, at least one; and no sleep is longer than
\* maxSendingIntervalMillis, as retryCount is reset before the exponential is.
TypeOK ==
    /\ pc \in {"check", "wait", "blocked", "send"}
    /\ queued \in 0..MaxMsgs
    /\ msgList \subseteq [id : 1..queued, recipients : SUBSET Recipients]
    /\ queueContainsData \in BOOLEAN
    /\ notifying \in BOOLEAN
    /\ retryCount \in Nat
    /\ interval <= MaxInterval
    /\ wire \subseteq (1..queued) \X Recipients
    /\ acks \subseteq (1..queued) \X Recipients
    /\ NoEmptyHolder

\* No wakeup is lost: while the thread sleeps on the condition variable with
\* work in msgList, the notification of the queueMsg that brought the work is
\* still to come, although startSendingMessages tests the list without the
\* mutex and queueMsg notifies without it.
NoLostWakeup == pc = "blocked" /\ msgList # {} => notifying

\* A pair that is queued is transmitted, again and again, until its recipient
\* is removed.
Retransmitted ==
    \A k \in MsgIds, r \in Recipients :
        <<k, r>> \in Datagrams(msgList) ~>
            (<<k, r>> \in wire \/ <<k, r>> \notin Datagrams(msgList))

Abstract == INSTANCE Retransmission WITH pending <- Datagrams(msgList)

\* The thread implements the retransmission service the protocol relies on: no
\* round leaves out a pending pair or sends another, and a pair is given up
\* only after its recipient answered.
ImplementsRetransmission == Abstract!Spec
=============================================================================
