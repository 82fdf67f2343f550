--------------------- MODULE ContinuousMsgSenderProofs ---------------------
(***************************************************************************)
(* Proofs about ContinuousMsgSender for every number of messages, set of   *)
(* recipients and maximal interval.                                        *)
(***************************************************************************)
EXTENDS ContinuousMsgSender, TLAPS

\* While the thread waits, work in the list has raised the flag, and a flag
\* raised while it is blocked is about to be notified.
WaitInv ==
    /\ pc \in {"wait", "blocked"} /\ msgList # {} => queueContainsData
    /\ pc = "blocked" /\ queueContainsData => notifying

Inv == TypeOK /\ WaitInv

Holder == [id : 1..queued, recipients : SUBSET Recipients]

\* The holder that removeRecipient(k, r) leaves in place of h.
After(h, k, r) ==
    IF h.id = k THEN [h EXCEPT !.recipients = @ \ {r}] ELSE h

\* After keeps the id, and drops r from the recipients of k only.
LEMMA AfterFields ==
    ASSUME NEW h \in Holder, NEW k, NEW r
    PROVE  /\ After(h, k, r) \in Holder
           /\ After(h, k, r).id = h.id
           /\ \A s : s \in After(h, k, r).recipients
                        <=> s \in h.recipients /\ ~ (h.id = k /\ s = r)
BY DEF After, Holder

\* What removeRecipient leaves to send: everything but the pair removed.
LEMMA RemoveDatagram ==
    ASSUME TypeOK, NEW k \in MsgIds, NEW r \in Recipients,
           EraseEmptyHolder(Erased(k, r))
    PROVE  /\ msgList' \subseteq Holder
           /\ \A h \in msgList' : h.recipients # {}
           /\ Datagrams(msgList') = Datagrams(msgList) \ {<<k, r>>}
<1> DEFINE list == {After(h, k, r) : h \in msgList}
<1>1. list = Erased(k, r)
  BY DEF Erased, After
<1>2. msgList \subseteq Holder
  BY DEF TypeOK, Holder
<1>3. list \subseteq Holder
  BY <1>2, AfterFields
<1>4. \A g \in list : g.recipients = {} => g.id = k
  BY <1>2, AfterFields DEF TypeOK, NoEmptyHolder
<1>5. \A g, h \in Holder :
          g.id = h.id /\ g.recipients = {} /\ h.recipients = {} => g = h
  BY DEF Holder
<1>6. Datagrams(list) = Datagrams(msgList) \ {<<k, r>>}
  <2>1. ASSUME NEW d \in MsgIds \X Recipients
        PROVE  (\E h \in list : h.id = d[1] /\ d[2] \in h.recipients)
                 <=> /\ \E h \in msgList : h.id = d[1] /\ d[2] \in h.recipients
                     /\ d # <<k, r>>
    <3>1. \A h \in msgList :
              (After(h, k, r).id = d[1] /\ d[2] \in After(h, k, r).recipients)
                <=> (h.id = d[1] /\ d[2] \in h.recipients /\ ~ (d[1] = k /\ d[2] = r))
      BY <1>2, AfterFields
    <3>2. d = <<k, r>> <=> d[1] = k /\ d[2] = r
      OBVIOUS
    <3> QED BY <3>1, <3>2
  <2> QED BY <2>1 DEF Datagrams
<1>7. PICK gone \in SUBSET list :
          /\ msgList' = list \ gone
          /\ \A g \in gone : g.recipients = {}
          /\ \A h \in list \ gone : h.recipients # {}
  <2>1. CASE \E h \in list : h.recipients = {} /\ msgList' = list \ {h}
    <3>1. PICK h \in list : h.recipients = {} /\ msgList' = list \ {h}
      BY <2>1
    <3>2. \A g \in list \ {h} : g.recipients # {}
      BY <3>1, <1>3, <1>4, <1>5
    <3>3. /\ {h} \in SUBSET list
          /\ \A g \in {h} : g.recipients = {}
      BY <3>1
    <3> HIDE DEF list
    <3> WITNESS {h} \in SUBSET list
    <3> QED BY <3>1, <3>2, <3>3
  <2>2. CASE (\A h \in list : h.recipients # {}) /\ msgList' = list
    <3>1. list = list \ {} /\ {} \in SUBSET list /\ \A g \in {} : g.recipients = {}
      OBVIOUS
    <3>2. /\ msgList' = list \ {}
          /\ \A h \in list \ {} : h.recipients # {}
      BY <2>2, <3>1
    <3> QED BY <3>1, <3>2
  <2> QED BY <1>1, <2>1, <2>2 DEF EraseEmptyHolder
<1>8. Datagrams(list \ gone) = Datagrams(list)
  BY <1>7 DEF Datagrams
<1> QED BY <1>3, <1>6, <1>7, <1>8

\* The inductive invariant holds when the sending thread starts.
THEOREM InvInit == Init => Inv
<1> SUFFICES ASSUME Init PROVE Inv
  OBVIOUS
<1>1. TypeOK
  <2>1. queued \in 0..MaxMsgs
    BY MaxMsgsAssumption DEF Init
  <2>2. /\ pc \in {"check", "wait", "blocked", "send"}
        /\ retryCount \in Nat
    BY DEF Init
  <2>3. /\ msgList = {} /\ wire = {} /\ acks = {}
        /\ queueContainsData \in BOOLEAN
        /\ notifying \in BOOLEAN
    BY Zenon DEF Init
  <2>4. interval <= MaxInterval
    BY MaxIntervalAssumption DEF Init
  <2> QED BY <2>1, <2>2, <2>3, <2>4 DEF TypeOK, NoEmptyHolder
<1> QED BY <1>1 DEF Init, Inv, WaitInv, NoEmptyHolder

\* Every step keeps the invariant; the cases are the actions.
THEOREM InvStep == Inv /\ [Next]_vars => Inv'
<1> SUFFICES ASSUME Inv, [Next]_vars PROVE Inv'
  OBVIOUS
<1> USE DEF Inv
<1>1. CASE Check
  BY <1>1 DEF Check, TypeOK, WaitInv, NoEmptyHolder
<1>2. CASE Wait
  BY <1>2 DEF Wait, TypeOK, WaitInv, NoEmptyHolder
<1>3. CASE Send
  <2>1. Datagrams(msgList) \subseteq (1..queued) \X Recipients
    BY DEF Datagrams, TypeOK
  <2>2. retryCount' \in Nat
    BY <1>3 DEF Send, getSendingInterval, TypeOK
  <2>3. wire' \subseteq (1..queued) \X Recipients
    BY <1>3, <2>1 DEF Send, TypeOK
  <2>4. interval' <= MaxInterval
    <3>1. ASSUME NEW i, getSendingInterval(i)
          PROVE  interval' <= MaxInterval
      BY <3>1, MaxIntervalAssumption DEF getSendingInterval
    <3> QED BY <1>3, <3>1 DEF Send
  <2> QED BY <1>3, <2>2, <2>3, <2>4 DEF Send, TypeOK, WaitInv, NoEmptyHolder
<1>4. CASE SpuriousWakeup
  BY <1>4 DEF SpuriousWakeup, TypeOK, WaitInv, NoEmptyHolder
<1>5. CASE queueMsg
  <2>1. queued' \in 0..MaxMsgs /\ 1..queued \subseteq 1..queued'
    BY <1>5, MaxMsgsAssumption DEF queueMsg, TypeOK
  <2>2. MsgHolder(queued + 1) \in [id : 1..queued', recipients : SUBSET Recipients]
    BY <1>5, <2>1 DEF queueMsg, MsgHolder, TypeOK
  <2>3. msgList' \subseteq [id : 1..queued', recipients : SUBSET Recipients]
    <3>1. \A h \in msgList : h \in [id : 1..queued', recipients : SUBSET Recipients]
      BY <2>1 DEF TypeOK
    <3> QED BY <1>5, <2>2, <3>1 DEF queueMsg
  <2>4. wire' \subseteq (1..queued') \X Recipients /\ acks' \subseteq (1..queued') \X Recipients
    BY <1>5, <2>1 DEF queueMsg, TypeOK
  <2>5. MsgHolder(queued + 1).recipients # {}
    BY RecipientsAssumption DEF MsgHolder
  <2> QED BY <1>5, <2>1, <2>3, <2>4, <2>5 DEF queueMsg, TypeOK, WaitInv, NoEmptyHolder
<1>6. CASE Notify
  BY <1>6 DEF Notify, TypeOK, WaitInv, NoEmptyHolder
<1>7. ASSUME NEW k \in MsgIds, NEW r \in Recipients, removeRecipient(k, r)
      PROVE  Inv'
  <2>1. /\ msgList' \subseteq Holder
        /\ \A h \in msgList' : h.recipients # {}
    BY <1>7, RemoveDatagram DEF removeRecipient
  <2>2. TypeOK'
    BY <1>7, <2>1 DEF removeRecipient, TypeOK, NoEmptyHolder, Holder
  <2>3. msgList' # {} => msgList # {}
    BY <1>7 DEF removeRecipient, EraseEmptyHolder, Erased
  <2> QED BY <1>7, <2>1, <2>2, <2>3 DEF removeRecipient, WaitInv, NoEmptyHolder
<1>8. ASSUME NEW d \in MsgIds \X Recipients, Arrive(d) \/ Lose(d)
      PROVE  Inv'
  BY <1>8 DEF Arrive, Lose, TypeOK, WaitInv, NoEmptyHolder
<1>9. CASE UNCHANGED vars
  BY <1>9 DEF vars, TypeOK, WaitInv, NoEmptyHolder
<1> QED
  BY <1>1, <1>2, <1>3, <1>4, <1>5, <1>6, <1>7, <1>8, <1>9 DEF Next, SenderThread

\* The inductive invariant holds in every reachable state, whichever way
\* queueMsg, removeRecipient and the sending thread interleave.
THEOREM InvHolds == Spec => []Inv
BY InvInit, InvStep, PTL DEF Spec

\* Type correctness of the sender.
THEOREM SenderTypes == Spec => []TypeOK
<1>1. Inv => TypeOK
  BY DEF Inv
<1> QED BY <1>1, InvHolds, PTL

\* The condition variable loses no wakeup, in every interleaving of the
\* unlocked test, the wait, queueMsg and its notification.
THEOREM WakeupNotLost == Spec => []NoLostWakeup
<1>1. Inv => NoLostWakeup
  BY DEF Inv, WaitInv, NoLostWakeup
<1> QED BY <1>1, InvHolds, PTL

\* Each step of the thread, its callers and the network is a step of the
\* abstract retransmission service or invisible to it.
THEOREM SenderImplements == Spec => ImplementsRetransmission
<1>1. Init => Abstract!Init
  BY DEF Init, Abstract!Init, Datagrams
<1>2. ASSUME Inv, [Next]_vars
      PROVE  [Abstract!Next]_Abstract!vars
  <2>1. ASSUME UNCHANGED <<msgList, wire, acks>>
        PROVE  UNCHANGED Abstract!vars
    BY <2>1 DEF Abstract!vars, Datagrams
  <2>2. CASE Check \/ Wait \/ SpuriousWakeup \/ Notify \/ UNCHANGED vars
    <3>1. UNCHANGED <<msgList, wire, acks>>
      BY <2>2 DEF Check, Wait, SpuriousWakeup, Notify, vars
    <3> QED BY <2>1, <3>1
  <2>3. CASE Send
    <3>1. UNCHANGED <<msgList, acks>> /\ wire' = wire \cup Datagrams(msgList)
      BY <2>3 DEF Send
    <3>2. Datagrams(msgList)' = Datagrams(msgList)
      BY <3>1 DEF Datagrams
    <3>3. CASE Datagrams(msgList) = {}
      BY <3>1, <3>2, <3>3 DEF Abstract!vars
    <3>4. CASE Datagrams(msgList) # {}
      BY <3>1, <3>2, <3>4 DEF Abstract!Next, Abstract!Round
    <3> QED BY <3>3, <3>4
  <2>4. CASE queueMsg
    <3> DEFINE k == queued + 1
    <3>1. k \in MsgIds
      BY <1>2, <2>4, MaxMsgsAssumption DEF queueMsg, MsgIds, Inv, TypeOK
    <3>2. msgList' = msgList \cup {[id |-> k, recipients |-> Recipients]}
      BY <2>4 DEF queueMsg, MsgHolder
    <3>3. Datagrams(msgList)' = Datagrams(msgList) \cup ({k} \X Recipients)
      <4>1. Datagrams(msgList)' =
              {d \in MsgIds \X Recipients :
                 \/ \E h \in msgList : h.id = d[1] /\ d[2] \in h.recipients
                 \/ k = d[1]}
        <5> DEFINE new == [id |-> k, recipients |-> Recipients]
        <5>1. new.id = k /\ new.recipients = Recipients
          OBVIOUS
        <5>2. ASSUME NEW d \in MsgIds \X Recipients
              PROVE  (\E h \in msgList' : h.id = d[1] /\ d[2] \in h.recipients)
                       <=> \/ \E h \in msgList : h.id = d[1] /\ d[2] \in h.recipients
                           \/ k = d[1]
          <6>1. d[2] \in Recipients
            OBVIOUS
          <6> HIDE DEF new, k
          <6>2. msgList' = msgList \cup {new}
            BY <3>2 DEF new
          <6> QED BY <5>1, <6>1, <6>2
        <5> QED BY <5>2 DEF Datagrams
      <4>2. {k} \X Recipients = {d \in MsgIds \X Recipients : k = d[1]}
        BY <3>1
      <4> QED BY <4>1, <4>2 DEF Datagrams
    <3>4. Abstract!Queue(k)
      BY <2>4, <3>3 DEF queueMsg, Abstract!Queue
    <3> QED BY <3>1, <3>4 DEF Abstract!Next
  <2>5. ASSUME NEW k \in MsgIds, NEW r \in Recipients, removeRecipient(k, r)
        PROVE  Abstract!Next
    <3>1. Datagrams(msgList)' = Datagrams(msgList) \ {<<k, r>>}
      BY <1>2, <2>5, RemoveDatagram DEF Inv, removeRecipient, Datagrams
    <3>2. Abstract!Remove(<<k, r>>)
      BY <2>5, <3>1 DEF removeRecipient, Abstract!Remove
    <3> QED BY <3>2 DEF Abstract!Next
  <2>6. ASSUME NEW k \in MsgIds, NEW r \in Recipients,
               Arrive(<<k, r>>) \/ Lose(<<k, r>>)
        PROVE  Abstract!Next
    <3>1. Datagrams(msgList)' = Datagrams(msgList)
      BY <2>6 DEF Arrive, Lose, Datagrams
    <3>2. Abstract!Arrive(<<k, r>>) \/ Abstract!Lose(<<k, r>>)
      BY <2>6, <3>1 DEF Arrive, Lose, Abstract!Arrive, Abstract!Lose
    <3> QED BY <3>2 DEF Abstract!Next
  <2> QED BY <1>2, <2>2, <2>3, <2>4, <2>5, <2>6 DEF Next, SenderThread
<1> QED BY <1>1, <1>2, InvHolds, PTL DEF Spec, ImplementsRetransmission, Abstract!Spec
=============================================================================
