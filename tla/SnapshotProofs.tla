--------------------------- MODULE SnapshotProofs ---------------------------
(***************************************************************************)
(* Proofs about Snapshot, for any number of processes and messages.        *)
(* MarkerInv says who records the local state and when, ChannelInv what    *)
(* this means for the channels, PastInv that the local state holds no      *)
(* message that came later, and StateInv which of the earlier ones it      *)
(* holds.                                                                  *)
(***************************************************************************)
EXTENDS Snapshot, FiniteSetTheorems, SequenceTheorems, TLAPS

IoTaker(p, q) == ioPc[p][q] \in {"state", "taking"}

\* Nothing happens before the initiator has recorded its local state.
QuietBefore ==
    localStates[Initiator] = 0 =>
        /\ markers = {}
        /\ \A p \in Proc : localStates[p] = 0 /\ unsent[p] = <<>>
        /\ \A p, q \in Proc : ioPc[p][q] = "accept"

\* The main thread records at the initiator only.
InitiatorRecords ==
    /\ \A p \in Proc : mainPc[p] # "idle" => p = Initiator /\ snapshotInitiated[p]
    /\ localStates[Initiator] = IF mainPc[Initiator] \in {"taking", "done"} THEN 1 ELSE 0

\* Elsewhere one ioThread records, while the flag is not set yet.
OneTaker ==
    \A p \in Proc : \A q \in Peers(p) : IoTaker(p, q) =>
        /\ p # Initiator
        /\ ~ snapshotInitiated[p]
        /\ localStates[p] = IF ioPc[p][q] = "taking" THEN 1 ELSE 0
        /\ \A r \in Peers(p) : IoTaker(p, r) => q = r

\* What the flag says.
FlagInv ==
    \A p \in Proc :
        /\ ~ snapshotInitiated[p] => \A q \in Peers(p) : ioPc[p][q] \in {"accept", "state", "taking"}
        /\ ~ snapshotInitiated[p] /\ ~ IoTaking(p) => localStates[p] = 0
        /\ p # Initiator /\ snapshotInitiated[p] => localStates[p] = 1

MarkerInv == QuietBefore /\ InitiatorRecords /\ OneTaker /\ FlagInv

\* Before the local state is recorded no channel is; afterwards a channel is
\* recorded until its marker came, and not after its ioThread is done.
ChannelInv ==
    \A p \in Proc :
        /\ localStates[p] = 0 =>
            channelsToBeRecorded[p] = {} /\ \A q \in Proc : incomingChannels[p][q] = {}
        /\ \A q \in channelsToBeRecorded[p] : ioPc[p][q] # "done"
        /\ \A q \in Peers(p) :
            /\ localStates[p] > 0 /\ ioPc[p][q] = "accept" => q \in channelsToBeRecorded[p]

\* The local state holds only messages that came before it was recorded.
PastInv ==
    \A p \in Proc :
        /\ localStates[p] = 0 => receiving[p] \cup deque[p] \subseteq before[p]
        /\ localState[p].latestSeqId \cup localState[p].deque \subseteq before[p] \cap deque[p]

AtMostOne(S) == \A m, n \in S : m = n

\* The local state is being read: latestSeqId was, the holdBackQueue was not.
Reading(p) == mainPc[p] = "state" \/ \E q \in Peers(p) : ioPc[p][q] = "state"

\* All messages but the one in its handler are in latestSeqId when it is
\* read, and what is in there is in the holdBackQueue when that is read.
StateAt(p) ==
    /\ localStates[p] = 0 => before[p] \ receiving[p] \subseteq latestSeqId[p]
    /\ Reading(p) =>
        /\ localState[p].latestSeqId \subseteq latestSeqId[p]
        /\ AtMostOne(before[p] \ localState[p].latestSeqId)
    /\ localStates[p] > 0 =>
        AtMostOne(before[p] \ (localState[p].latestSeqId \cap localState[p].deque))

StateInv == \A p \in Proc : StateAt(p)

Inv == TypeOK /\ MarkerInv /\ ChannelInv /\ PastInv /\ StateInv

----------------------------------------------------------------------------
\* The peers of the hostfile without p are a sequence of processes.
LEMMA AllPeersType == ASSUME NEW p \in Proc PROVE allPeers(p) \in Seq(Proc)
<1> DEFINE i == getProcessIdentifier(p)
<1>1. i \in 1..Len(Hosts)
    BY HostsAssumption DEF getProcessIdentifier, Proc
<1>2. \A j \in 1..Len(Hosts) : Hosts[j] \in Proc
    BY HostsAssumption
<1>3. SubSeq(Hosts, 1, i - 1) \in Seq(Proc)
    BY <1>1, <1>2, SubSeqProperties, HostsAssumption
<1>4. SubSeq(Hosts, i + 1, Len(Hosts)) \in Seq(Proc)
    BY <1>1, <1>2, SubSeqProperties, HostsAssumption
<1> QED  BY <1>3, <1>4, ConcatProperties DEF allPeers

\* The initial state: no marker was sent and no message received.
LEMMA InvInit == Init => Inv
<1> SUFFICES ASSUME Init PROVE Inv
    OBVIOUS
<1> USE InitiatorAssumption DEF Init
<1>1. TypeOK
    BY DEF TypeOK
<1>2. MarkerInv
    BY DEF MarkerInv, QuietBefore, InitiatorRecords, OneTaker, FlagInv, IoTaker, IoTaking, Peers
<1>3. ChannelInv
    BY DEF ChannelInv, Peers
<1>4. StateInv
    BY DEF StateInv, StateAt, Reading, AtMostOne, Peers
<1>5. PastInv
    BY DEF PastInv
<1> QED  BY <1>1, <1>2, <1>3, <1>4, <1>5 DEF Inv

\* Types are preserved by every step.
LEMMA TypeStep == TypeOK /\ [Next]_vars => TypeOK'
<1> SUFFICES ASSUME TypeOK, [Next]_vars PROVE TypeOK'
    OBVIOUS
<1> USE DEF TypeOK, Peers, receiver, snapshot
<1>1. CASE UNCHANGED vars
    BY <1>1 DEF vars
<1>2. ASSUME NEW p \in Proc, Initiate(p) PROVE TypeOK'
    BY <1>2 DEF Initiate
<1>a. ASSUME NEW p \in Proc, localState' = [localState EXCEPT ![p].latestSeqId = latestSeqId[p]]
      PROVE  localState' \in [Proc -> [latestSeqId : SUBSET Messages, deque : SUBSET Messages]]
    <2>1. latestSeqId[p] \in SUBSET Messages
        OBVIOUS
    <2>2. localState[p] \in [latestSeqId : SUBSET Messages, deque : SUBSET Messages]
        OBVIOUS
    <2> QED  BY <1>a, <2>1, <2>2
<1>3. ASSUME NEW p \in Proc, takeSnapshot(p) PROVE TypeOK'
    <2>1. localState' = [localState EXCEPT ![p].latestSeqId = latestSeqId[p]]
        BY <1>3 DEF takeSnapshot, ReadSeqId
    <2>2. localState' \in [Proc -> [latestSeqId : SUBSET Messages, deque : SUBSET Messages]]
        BY <2>1, <1>a
    <2>3. mainPc' \in [Proc -> {"idle", "flagged", "state", "taking", "done"}]
        BY <1>3 DEF takeSnapshot
    <2> QED  BY <2>2, <2>3, <1>3 DEF takeSnapshot
<1>4. ASSUME NEW p \in Proc, NEW C \in SUBSET Peers(p), StartLocalSnapshot(p, C)
      PROVE  /\ localState' \in [Proc -> [latestSeqId : SUBSET Messages, deque : SUBSET Messages]]
             /\ localStates' \in [Proc -> Nat]
             /\ channelsToBeRecorded' \in [Proc -> SUBSET Proc]
             /\ incomingChannels' \in [Proc -> [Proc -> SUBSET Messages]]
             /\ unsent' \in [Proc -> Seq(Proc)]
             /\ \A r \in Proc : channelsToBeRecorded'[r] \subseteq Peers(r)
    <2>1. localState' \in [Proc -> [latestSeqId : SUBSET Messages, deque : SUBSET Messages]]
        <3>1. localState' = [localState EXCEPT ![p].deque = deque[p]]
            BY <1>4 DEF StartLocalSnapshot
        <3>2. deque[p] \in SUBSET Messages
            OBVIOUS
        <3>3. localState[p] \in [latestSeqId : SUBSET Messages, deque : SUBSET Messages]
            OBVIOUS
        <3> QED  BY <3>1, <3>2, <3>3
    <2>2. localStates' \in [Proc -> Nat]
        BY <1>4 DEF StartLocalSnapshot
    <2>3. channelsToBeRecorded' \in [Proc -> SUBSET Proc]
        BY <1>4 DEF StartLocalSnapshot
    <2>4. incomingChannels' \in [Proc -> [Proc -> SUBSET Messages]]
        BY <1>4 DEF StartLocalSnapshot
    <2>5. unsent' \in [Proc -> Seq(Proc)]
        BY <1>4, AllPeersType DEF StartLocalSnapshot
    <2>6. \A r \in Proc : channelsToBeRecorded'[r] \subseteq Peers(r)
        BY <1>4 DEF StartLocalSnapshot
    <2> QED  BY <2>1, <2>2, <2>3, <2>4, <2>5, <2>6
<1>5. ASSUME NEW p \in Proc, OpenChannels(p) PROVE TypeOK'
    BY <1>5, <1>4 DEF OpenChannels
<1>6. ASSUME NEW p \in Proc, SendMarker(p) PROVE TypeOK'
    <2>1. Head(unsent[p]) \in Proc /\ Tail(unsent[p]) \in Seq(Proc)
        BY <1>6, HeadTailProperties DEF SendMarker
    <2>2. unsent' \in [Proc -> Seq(Proc)] /\ markers' \subseteq Proc \X Proc
        BY <1>6, <2>1 DEF SendMarker
    <2> QED  BY <1>6, <2>2 DEF SendMarker
<1>7. ASSUME NEW p \in Proc, EndSnapshot(p) PROVE TypeOK'
    BY <1>7 DEF EndSnapshot
<1>8. ASSUME NEW p \in Proc, NEW q \in Peers(p), FirstMarker(p, q) PROVE TypeOK'
    <2>1. localState' = [localState EXCEPT ![p].latestSeqId = latestSeqId[p]]
        BY <1>8 DEF FirstMarker, ReadSeqId
    <2>2. localState' \in [Proc -> [latestSeqId : SUBSET Messages, deque : SUBSET Messages]]
        BY <2>1, <1>a
    <2>3. /\ ioPc' \in [Proc -> [Proc -> {"accept", "state", "taking", "erase", "done"}]]
          /\ markers' \subseteq Proc \X Proc
        BY <1>8 DEF FirstMarker, AcceptMarker, IoGoto
    <2> QED  BY <2>2, <2>3, <1>8 DEF FirstMarker
<1>9. ASSUME NEW p \in Proc, NEW q \in Peers(p), OpenOtherChannels(p, q) PROVE TypeOK'
    <2>1. Peers(p) \ {q} \in SUBSET Peers(p) /\ StartLocalSnapshot(p, Peers(p) \ {q})
        BY <1>9 DEF OpenOtherChannels
    <2>2. ioPc' \in [Proc -> [Proc -> {"accept", "state", "taking", "erase", "done"}]]
        BY <1>9 DEF OpenOtherChannels, IoGoto
    <2>3. UNCHANGED <<mainPc, snapshotInitiated, markers, receiver>>
        BY <1>9 DEF OpenOtherChannels
    <2> DEFINE C == Peers(p) \ {q}
    <2> HIDE DEF C
    <2>4. C \in SUBSET Peers(p) /\ StartLocalSnapshot(p, C)
        BY <2>1 DEF C
    <2>5. /\ localState' \in [Proc -> [latestSeqId : SUBSET Messages, deque : SUBSET Messages]]
          /\ localStates' \in [Proc -> Nat]
          /\ channelsToBeRecorded' \in [Proc -> SUBSET Proc]
          /\ incomingChannels' \in [Proc -> [Proc -> SUBSET Messages]]
          /\ unsent' \in [Proc -> Seq(Proc)]
          /\ \A r \in Proc : channelsToBeRecorded'[r] \subseteq Peers(r)
        BY <1>4, <2>4
    <2> QED  BY <2>2, <2>3, <2>5
<1>10. ASSUME NEW p \in Proc, NEW q \in Peers(p), EndFirstMarker(p, q) PROVE TypeOK'
    BY <1>10 DEF EndFirstMarker, IoGoto
<1>11. ASSUME NEW p \in Proc, NEW q \in Peers(p), LaterMarker(p, q) PROVE TypeOK'
    BY <1>11 DEF LaterMarker, AcceptMarker, IoGoto
<1>12. ASSUME NEW p \in Proc, NEW q \in Peers(p), StopRecording(p, q) PROVE TypeOK'
    BY <1>12 DEF StopRecording, IoGoto
<1>13. ASSUME NEW p \in Proc, NEW m \in Messages, recordIncomingMessages(p, m) PROVE TypeOK'
    <2>1. /\ served \subseteq {p} /\ served' = {p}
          /\ receiving' = [receiving EXCEPT ![p] = {m}]
          /\ before' \in {before, [before EXCEPT ![p] = @ \cup {m}]}
          /\ incomingChannels' \in {incomingChannels,
                [incomingChannels EXCEPT ![p][m[1]] = @ \cup {m}]}
          /\ UNCHANGED <<mainPc, ioPc, snapshotInitiated, localState, localStates,
                   channelsToBeRecorded, unsent, markers, deque, latestSeqId>>
        BY <1>13 DEF recordIncomingMessages
    <2>2. m[1] \in Proc
        BY MessagesAssumption
    <2>3. receiving' \in [Proc -> SUBSET Messages]
        BY <2>1
    <2>4. before' \in [Proc -> SUBSET Messages]
        <3>1. before[p] \cup {m} \in SUBSET Messages
            OBVIOUS
        <3>2. [before EXCEPT ![p] = @ \cup {m}] \in [Proc -> SUBSET Messages]
            BY <3>1
        <3> QED  BY <2>1, <3>2
    <2>5. incomingChannels' \in [Proc -> [Proc -> SUBSET Messages]]
        <3>1. incomingChannels[p][m[1]] \cup {m} \in SUBSET Messages
            BY <2>2
        <3>2. [incomingChannels EXCEPT ![p][m[1]] = @ \cup {m}] \in [Proc -> [Proc -> SUBSET Messages]]
            BY <2>2, <3>1
        <3> QED  BY <2>1, <3>2
    <2>6. \A r \in Proc :
            /\ \A m1, m2 \in receiving'[r] : m1 = m2
            /\ r \notin served' => receiving'[r] \cup before'[r] \cup deque'[r] = {}
        <3>1. TAKE r \in Proc
        <3>2. CASE r = p
            <4>1. receiving'[p] = {m} /\ p \in served'
                BY <2>1
            <4> QED  BY <3>2, <4>1
        <3>3. CASE r # p
            <4>1. receiving'[r] = receiving[r] /\ before'[r] = before[r] /\ deque'[r] = deque[r]
                BY <2>1, <3>3
            <4>2. r \notin served
                BY <2>1, <3>3
            <4> QED  BY <4>1, <4>2
        <3> QED  BY <3>2, <3>3
    <2> QED  BY <2>1, <2>3, <2>4, <2>5, <2>6
<1>14. ASSUME NEW p \in Proc, dropMessage(p) \/ ignoreDuplicate(p) PROVE TypeOK'
    <2>1. /\ receiving' = [receiving EXCEPT ![p] = {}]
          /\ before' \in {before, [before EXCEPT ![p] = @ \ (receiving[p] \ deque[p])]}
          /\ UNCHANGED <<snapshot, served, deque, latestSeqId>>
        BY <1>14 DEF dropMessage, ignoreDuplicate
    <2>2. receiving' \in [Proc -> SUBSET Messages]
        BY <2>1
    <2>3. before' \in [Proc -> SUBSET Messages]
        <3>1. before[p] \ (receiving[p] \ deque[p]) \in SUBSET Messages
            OBVIOUS
        <3>2. [before EXCEPT ![p] = @ \ (receiving[p] \ deque[p])] \in [Proc -> SUBSET Messages]
            BY <3>1
        <3> QED  BY <2>1, <3>2
    <2>4. \A r \in Proc : receiving'[r] \subseteq receiving[r] /\ before'[r] \subseteq before[r]
        BY <2>1
    <2> QED  BY <2>1, <2>2, <2>3, <2>4
<1>15. ASSUME NEW p \in Proc, addToQueue(p) PROVE TypeOK'
    BY <1>15 DEF addToQueue
<1>16. ASSUME NEW p \in Proc, IncrementSeqId(p) PROVE TypeOK'
    BY <1>16 DEF IncrementSeqId, handling
<1> QED  BY <1>1, <1>2, <1>3, <1>5, <1>6, <1>7, <1>8, <1>9, <1>10, <1>11, <1>12, <1>13, <1>14, <1>15, <1>16
         DEF Next, MainThread, IoThread, ReceiverThread

\* The threads of the snapshot preserve MarkerInv: the guards on the mutex and
\* the flag keep a second thread from recording, and no marker reaches the
\* initiator before it recorded.
LEMMA MarkerStep == TypeOK /\ MarkerInv /\ [Next]_vars => MarkerInv'
<1> SUFFICES ASSUME TypeOK, MarkerInv, [Next]_vars PROVE MarkerInv'
    OBVIOUS
<1> USE InitiatorAssumption DEF MarkerInv, QuietBefore, InitiatorRecords, OneTaker, FlagInv,
        IoTaker, IoTaking, Peers
<1>0. /\ mainPc \in [Proc -> {"idle", "flagged", "state", "taking", "done"}]
      /\ ioPc \in [Proc -> [Proc -> {"accept", "state", "taking", "erase", "done"}]]
      /\ snapshotInitiated \in [Proc -> BOOLEAN]
      /\ localStates \in [Proc -> Nat]
      /\ unsent \in [Proc -> Seq(Proc)]
    BY DEF TypeOK
<1>1. CASE UNCHANGED <<mainPc, ioPc, snapshotInitiated, localStates, unsent, markers>>
    BY <1>1
<1>2. ASSUME NEW p \in Proc, Initiate(p) PROVE MarkerInv'
    BY <1>0, <1>2 DEF Initiate, snapshotInitiatedMutexFree
<1>3. ASSUME NEW p \in Proc, takeSnapshot(p) PROVE MarkerInv'
    <2>1. /\ mainPc[p] = "flagged" /\ mainPc' = [mainPc EXCEPT ![p] = "state"]
          /\ UNCHANGED <<ioPc, snapshotInitiated, localStates, unsent, markers>>
        BY <1>3 DEF takeSnapshot
    <2>2. InitiatorRecords'
        BY <1>0, <2>1
    <2>3. QuietBefore' /\ OneTaker' /\ FlagInv'
        BY <2>1
    <2> QED  BY <2>2, <2>3
<1>5. ASSUME NEW p \in Proc, OpenChannels(p) PROVE MarkerInv'
    BY <1>0, <1>5 DEF OpenChannels, StartLocalSnapshot
<1>6. ASSUME NEW p \in Proc, SendMarker(p) PROVE MarkerInv'
    BY <1>0, <1>6 DEF SendMarker
<1>7. ASSUME NEW p \in Proc, EndSnapshot(p) PROVE MarkerInv'
    BY <1>0, <1>7 DEF EndSnapshot
<1>8. ASSUME NEW p \in Proc, NEW q \in Peers(p), FirstMarker(p, q) PROVE MarkerInv'
    BY <1>0, <1>8 DEF FirstMarker, AcceptMarker, IoGoto, snapshotInitiatedMutexFree
<1>9. ASSUME NEW p \in Proc, NEW q \in Peers(p), OpenOtherChannels(p, q) PROVE MarkerInv'
    <2>1. /\ p # Initiator /\ ~ snapshotInitiated[p] /\ localStates[p] = 0
          /\ \A r \in Peers(p) : IoTaker(p, r) => r = q
        BY <1>9 DEF OpenOtherChannels, IoGoto
    <2>2. /\ ioPc' = [ioPc EXCEPT ![p][q] = "taking"]
          /\ localStates' = [localStates EXCEPT ![p] = @ + 1]
          /\ unsent' = [unsent EXCEPT ![p] = allPeers(p)]
          /\ UNCHANGED <<mainPc, snapshotInitiated, markers>>
        BY <1>9 DEF OpenOtherChannels, IoGoto, StartLocalSnapshot
    <2>3. ioPc[p][q] = "state" /\ localStates[Initiator] # 0
        BY <1>9 DEF OpenOtherChannels, IoGoto
    <2>4. QuietBefore' /\ InitiatorRecords'
        BY <1>0, <2>1, <2>2, <2>3
    <2>5. OneTaker' /\ FlagInv'
        BY <1>0, <2>1, <2>2, <2>3
    <2> QED  BY <2>4, <2>5
<1>10. ASSUME NEW p \in Proc, NEW q \in Peers(p), EndFirstMarker(p, q) PROVE MarkerInv'
    BY <1>0, <1>10 DEF EndFirstMarker, IoGoto
<1>11. ASSUME NEW p \in Proc, NEW q \in Peers(p), LaterMarker(p, q) PROVE MarkerInv'
    BY <1>0, <1>11 DEF LaterMarker, AcceptMarker, IoGoto
<1>12. ASSUME NEW p \in Proc, NEW q \in Peers(p), StopRecording(p, q) PROVE MarkerInv'
    BY <1>0, <1>12 DEF StopRecording, IoGoto
<1> QED  BY <1>1, <1>2, <1>3, <1>5, <1>6, <1>7, <1>8, <1>9, <1>10, <1>11, <1>12
         DEF Next, MainThread, IoThread, ReceiverThread, vars, snapshot,
             recordIncomingMessages, dropMessage, ignoreDuplicate, addToQueue, IncrementSeqId

\* The local state is read and the channels are opened by a process that has
\* not recorded yet, and with no ioThread done.
LEMMA RecordsOnce ==
    ASSUME TypeOK, MarkerInv, NEW p \in Proc
    PROVE  /\ takeSnapshot(p) => localStates[p] = 0
           /\ OpenChannels(p) => localStates[p] = 0 /\ \A q \in Peers(p) : ioPc[p][q] = "accept"
           /\ \A q \in Peers(p) : FirstMarker(p, q) => localStates[p] = 0
           /\ \A q \in Peers(p) : OpenOtherChannels(p, q) =>
                    localStates[p] = 0 /\ \A r \in Peers(p) \ {q} : ioPc[p][r] = "accept"
<1> USE InitiatorAssumption DEF MarkerInv, QuietBefore, InitiatorRecords, OneTaker, FlagInv,
        IoTaker, IoTaking, Peers
<1>1. takeSnapshot(p) => localStates[p] = 0
    BY DEF takeSnapshot
<1>2. OpenChannels(p) => localStates[p] = 0 /\ \A q \in Peers(p) : ioPc[p][q] = "accept"
    BY DEF OpenChannels
<1>3. ASSUME NEW q \in Peers(p), FirstMarker(p, q) PROVE localStates[p] = 0
    BY <1>3 DEF FirstMarker, snapshotInitiatedMutexFree
<1>4. ASSUME NEW q \in Peers(p), OpenOtherChannels(p, q)
      PROVE  localStates[p] = 0 /\ \A r \in Peers(p) \ {q} : ioPc[p][r] = "accept"
    BY <1>4 DEF OpenOtherChannels, IoGoto
<1> QED  BY <1>1, <1>2, <1>3, <1>4

\* Channels are opened once, before any of their ioThreads is done.
LEMMA ChannelStep == TypeOK /\ MarkerInv /\ ChannelInv /\ [Next]_vars => ChannelInv'
<1> SUFFICES ASSUME TypeOK, MarkerInv, ChannelInv, [Next]_vars PROVE ChannelInv'
    OBVIOUS
<1> USE DEF Peers
<1>0. /\ ioPc \in [Proc -> [Proc -> {"accept", "state", "taking", "erase", "done"}]]
      /\ localStates \in [Proc -> Nat]
      /\ channelsToBeRecorded \in [Proc -> SUBSET Proc]
      /\ incomingChannels \in [Proc -> [Proc -> SUBSET Messages]]
      /\ \A p \in Proc : channelsToBeRecorded[p] \subseteq Peers(p)
    BY DEF TypeOK
<1>1. CASE UNCHANGED <<ioPc, localStates, channelsToBeRecorded, incomingChannels>>
    BY <1>1 DEF ChannelInv
<1>2. ASSUME NEW p \in Proc, takeSnapshot(p) PROVE ChannelInv'
    BY <1>2 DEF takeSnapshot, ChannelInv
<1>3. ASSUME NEW p \in Proc, NEW q \in Peers(p), FirstMarker(p, q) PROVE ChannelInv'
    BY <1>0, <1>3, RecordsOnce DEF FirstMarker, AcceptMarker, IoGoto, ChannelInv
<1>5. ASSUME NEW p \in Proc, NEW C \in SUBSET Peers(p), localStates[p] = 0,
             StartLocalSnapshot(p, C),
             \/ C = Peers(p) /\ ioPc' = ioPc
             \/ \E q \in Peers(p) : C = Peers(p) \ {q} /\ ioPc' = [ioPc EXCEPT ![p][q] = "taking"],
             \A q \in C : ioPc[p][q] = "accept"
      PROVE  ChannelInv'
    BY <1>0, <1>5 DEF ChannelInv, StartLocalSnapshot
<1>6. ASSUME NEW p \in Proc, OpenChannels(p) PROVE ChannelInv'
    BY <1>5, <1>6, RecordsOnce DEF OpenChannels
<1>7. ASSUME NEW p \in Proc, NEW q \in Peers(p), OpenOtherChannels(p, q) PROVE ChannelInv'
    BY <1>5, <1>7, RecordsOnce DEF OpenOtherChannels, IoGoto
<1>8. ASSUME NEW p \in Proc, NEW q \in Peers(p), EndFirstMarker(p, q) \/ LaterMarker(p, q)
      PROVE  ChannelInv'
    <2>1. /\ ioPc' = [ioPc EXCEPT ![p][q] = "erase"]
          /\ UNCHANGED <<localStates, channelsToBeRecorded, incomingChannels>>
        BY <1>8 DEF EndFirstMarker, LaterMarker, AcceptMarker, IoGoto
    <2> QED  BY <1>0, <2>1 DEF ChannelInv
<1>9. ASSUME NEW p \in Proc, NEW q \in Peers(p), StopRecording(p, q) PROVE ChannelInv'
    BY <1>0, <1>9 DEF StopRecording, IoGoto, ChannelInv
<1>10. ASSUME NEW p \in Proc, NEW m \in Messages, recordIncomingMessages(p, m) PROVE ChannelInv'
    <2>1. m[1] \in Proc
        BY MessagesAssumption
    <2> QED  BY <1>0, <1>10, <2>1 DEF recordIncomingMessages, ChannelInv
<1> QED  BY <1>1, <1>2, <1>3, <1>6, <1>7, <1>8, <1>9, <1>10
         DEF Next, MainThread, IoThread, ReceiverThread, vars, snapshot,
             Initiate, SendMarker, EndSnapshot, dropMessage, ignoreDuplicate, addToQueue,
             IncrementSeqId

\* What the local state is read from came before it; what comes later is in no
\* part of it.
LEMMA PastStep == TypeOK /\ MarkerInv /\ PastInv /\ [Next]_vars => PastInv'
<1> SUFFICES ASSUME TypeOK, MarkerInv, PastInv, [Next]_vars PROVE PastInv'
    OBVIOUS
<1>0. /\ localState \in [Proc -> [latestSeqId : SUBSET Messages, deque : SUBSET Messages]]
      /\ localStates \in [Proc -> Nat]
      /\ receiving \in [Proc -> SUBSET Messages]
      /\ before \in [Proc -> SUBSET Messages]
      /\ deque \in [Proc -> SUBSET Messages]
      /\ \A p \in Proc : latestSeqId[p] \subseteq deque[p]
    BY DEF TypeOK
<1>1. CASE UNCHANGED <<localState, localStates, receiving, before, deque>>
    BY <1>1 DEF PastInv
<1>2. ASSUME NEW p \in Proc, localStates[p] = 0,
             localState' = [localState EXCEPT ![p].latestSeqId = latestSeqId[p]],
             UNCHANGED <<localStates, receiving, before, deque>>
      PROVE  PastInv'
    <2>1. /\ localState'[p].latestSeqId = latestSeqId[p]
          /\ localState'[p].deque = localState[p].deque
          /\ \A r \in Proc \ {p} : localState'[r] = localState[r]
        BY <1>0, <1>2
    <2> QED  BY <1>0, <1>2, <2>1 DEF PastInv
<1>3. ASSUME NEW p \in Proc, takeSnapshot(p) PROVE PastInv'
    BY <1>2, <1>3, RecordsOnce DEF takeSnapshot, ReadSeqId, receiver
<1>4. ASSUME NEW p \in Proc, NEW q \in Peers(p), FirstMarker(p, q) PROVE PastInv'
    BY <1>2, <1>4, RecordsOnce DEF FirstMarker, ReadSeqId, receiver
<1>5. ASSUME NEW p \in Proc, NEW C \in SUBSET Peers(p), localStates[p] = 0,
             StartLocalSnapshot(p, C), UNCHANGED <<receiving, before, deque>>
      PROVE  PastInv'
    <2>1. /\ localState'[p].latestSeqId = localState[p].latestSeqId
          /\ localState'[p].deque = deque[p]
          /\ \A r \in Proc \ {p} : localState'[r] = localState[r]
        BY <1>0, <1>5 DEF StartLocalSnapshot
    <2>2. \A r \in Proc \ {p} : localStates'[r] = localStates[r]
        BY <1>0, <1>5 DEF StartLocalSnapshot
    <2>3. localStates'[p] # 0
        BY <1>0, <1>5 DEF StartLocalSnapshot
    <2> QED  BY <1>0, <1>5, <2>1, <2>2, <2>3 DEF PastInv
<1>6. ASSUME NEW p \in Proc, OpenChannels(p) PROVE PastInv'
    BY <1>5, <1>6, RecordsOnce DEF OpenChannels, receiver
<1>7. ASSUME NEW p \in Proc, NEW q \in Peers(p), OpenOtherChannels(p, q) PROVE PastInv'
    BY <1>5, <1>7, RecordsOnce DEF OpenOtherChannels, receiver, Peers
<1>8. ASSUME NEW p \in Proc, NEW m \in Messages, recordIncomingMessages(p, m) PROVE PastInv'
    <2>1. /\ receiving' = [receiving EXCEPT ![p] = {m}]
          /\ before' = IF localStates[p] = 0 THEN [before EXCEPT ![p] = @ \cup {m}] ELSE before
          /\ UNCHANGED <<localState, localStates, deque>>
        BY <1>8 DEF recordIncomingMessages
    <2> QED  BY <1>0, <2>1 DEF PastInv
<1>9. ASSUME NEW p \in Proc, dropMessage(p) PROVE PastInv'
    BY <1>0, <1>9 DEF dropMessage, PastInv, snapshot
<1>10. ASSUME NEW p \in Proc, ignoreDuplicate(p) \/ addToQueue(p) \/ IncrementSeqId(p)
       PROVE  PastInv'
    BY <1>0, <1>10 DEF ignoreDuplicate, addToQueue, IncrementSeqId, PastInv, snapshot
<1> QED  BY <1>1, <1>3, <1>4, <1>6, <1>7, <1>8, <1>9, <1>10
         DEF Next, MainThread, IoThread, ReceiverThread, vars, snapshot, receiver,
             Initiate, SendMarker, EndSnapshot, EndFirstMarker, LaterMarker, StopRecording

\* While the local state is read the mutex keeps a new datagram out, so that
\* only the one in its handler can be missing; afterwards nothing is missed.
LEMMA StateStep == TypeOK /\ MarkerInv /\ StateInv /\ [Next]_vars => StateInv'
<1> SUFFICES ASSUME TypeOK, MarkerInv, StateInv, [Next]_vars PROVE StateInv'
    OBVIOUS
<1> USE DEF Peers, StateAt, AtMostOne
<1>0. /\ mainPc \in [Proc -> {"idle", "flagged", "state", "taking", "done"}]
      /\ ioPc \in [Proc -> [Proc -> {"accept", "state", "taking", "erase", "done"}]]
      /\ localState \in [Proc -> [latestSeqId : SUBSET Messages, deque : SUBSET Messages]]
      /\ localStates \in [Proc -> Nat]
      /\ receiving \in [Proc -> SUBSET Messages]
      /\ before \in [Proc -> SUBSET Messages]
      /\ latestSeqId \in [Proc -> SUBSET Messages]
      /\ \A p \in Proc : latestSeqId[p] \subseteq deque[p] /\ AtMostOne(receiving[p])
    BY DEF TypeOK
(* A step that starts no reading and changes nothing of the datagrams. *)
<1>1. ASSUME UNCHANGED <<localState, localStates, receiving, before, latestSeqId>>,
             \A p \in Proc : Reading(p)' => Reading(p)
      PROVE  StateInv'
    BY <1>1 DEF StateInv
<1>2. ASSUME NEW p \in Proc, localStates[p] = 0,
             localState' = [localState EXCEPT ![p].latestSeqId = latestSeqId[p]],
             \A r \in Proc \ {p} : Reading(r)' => Reading(r),
             UNCHANGED <<localStates, receiving, before, latestSeqId>>
      PROVE  StateInv'
    <2>1. localState'[p].latestSeqId = latestSeqId[p]
        BY <1>0, <1>2
    <2>2. AtMostOne(before[p] \ localState'[p].latestSeqId)
        BY <1>0, <1>2, <2>1 DEF StateInv
    <2>3. \A r \in Proc \ {p} : localState'[r] = localState[r]
        BY <1>0, <1>2
    <2> QED  BY <1>2, <2>1, <2>2, <2>3 DEF StateInv
<1>3. ASSUME NEW p \in Proc, takeSnapshot(p) PROVE StateInv'
    <2>1. \A r \in Proc \ {p} : Reading(r)' => Reading(r)
        BY <1>0, <1>3 DEF takeSnapshot, Reading
    <2> QED  BY <1>2, <1>3, <2>1, RecordsOnce DEF takeSnapshot, ReadSeqId, receiver
<1>4. ASSUME NEW p \in Proc, NEW q \in Peers(p), FirstMarker(p, q) PROVE StateInv'
    <2>1. \A r \in Proc \ {p} : Reading(r)' => Reading(r)
        BY <1>0, <1>4 DEF FirstMarker, AcceptMarker, IoGoto, Reading
    <2> QED  BY <1>2, <1>4, <2>1, RecordsOnce DEF FirstMarker, ReadSeqId, receiver
<1>5. ASSUME NEW p \in Proc, NEW C \in SUBSET Peers(p), StartLocalSnapshot(p, C), Reading(p),
             \A r \in Proc : Reading(r)' => Reading(r),
             UNCHANGED <<receiving, before, latestSeqId>>
      PROVE  StateInv'
    <2>1. /\ localState'[p].latestSeqId = localState[p].latestSeqId
          /\ localState'[p].deque = deque[p]
          /\ \A r \in Proc \ {p} : localState'[r] = localState[r]
        BY <1>0, <1>5 DEF StartLocalSnapshot
    <2>2. /\ localStates'[p] > 0
          /\ \A r \in Proc \ {p} : localStates'[r] = localStates[r]
        BY <1>0, <1>5 DEF StartLocalSnapshot
    <2>3. AtMostOne(before[p] \ localState[p].latestSeqId)
        BY <1>5 DEF StateInv
    <2>4. localState[p].latestSeqId \subseteq latestSeqId[p]
        BY <1>5 DEF StateInv
    <2>5. AtMostOne(before[p] \ (localState'[p].latestSeqId \cap localState'[p].deque))
        BY <1>0, <2>1, <2>3, <2>4
    <2>6. \A r \in Proc \ {p} : StateAt(r)'
        BY <1>5, <2>1, <2>2 DEF StateInv, StateAt
    <2>7. StateAt(p)'
        BY <1>5, <2>1, <2>2, <2>3, <2>4, <2>5 DEF StateAt
    <2> QED  BY <2>6, <2>7 DEF StateInv
<1>6. ASSUME NEW p \in Proc, OpenChannels(p) PROVE StateInv'
    BY <1>0, <1>5, <1>6 DEF OpenChannels, Reading, receiver
<1>7. ASSUME NEW p \in Proc, NEW q \in Peers(p), OpenOtherChannels(p, q) PROVE StateInv'
    <2>1. Reading(p) /\ \A r \in Proc : Reading(r)' => Reading(r)
        BY <1>0, <1>7 DEF OpenOtherChannels, IoGoto, Reading
    <2> QED  BY <1>5, <1>7, <2>1 DEF OpenOtherChannels, receiver
<1>8. ASSUME NEW p \in Proc, Initiate(p) \/ SendMarker(p) \/ EndSnapshot(p) \/ addToQueue(p)
      PROVE  StateInv'
    BY <1>0, <1>1, <1>8
       DEF Initiate, SendMarker, EndSnapshot, addToQueue, Reading, receiver, snapshot
<1>9. ASSUME NEW p \in Proc, NEW q \in Peers(p),
             EndFirstMarker(p, q) \/ LaterMarker(p, q) \/ StopRecording(p, q)
      PROVE  StateInv'
    <2>1. UNCHANGED <<localState, localStates, receiving, before, latestSeqId>>
        BY <1>9 DEF EndFirstMarker, LaterMarker, StopRecording, receiver
    <2>2. mainPc' = mainPc /\ \E to \in {"erase", "done"} : ioPc' = [ioPc EXCEPT ![p][q] = to]
        BY <1>9 DEF EndFirstMarker, LaterMarker, StopRecording, AcceptMarker, IoGoto
    <2>3. \A r, o \in Proc : ioPc'[r][o] = "state" => ioPc[r][o] = "state"
        BY <1>0, <2>2
    <2>4. \A r \in Proc : Reading(r)' => Reading(r)
        BY <2>2, <2>3 DEF Reading
    <2> QED  BY <1>1, <2>1, <2>4
<1>10. ASSUME NEW p \in Proc, NEW m \in Messages, recordIncomingMessages(p, m) PROVE StateInv'
    <2>1. /\ ~ Reading(p) /\ receiving[p] = {}
          /\ receiving' = [receiving EXCEPT ![p] = {m}]
          /\ before' = IF localStates[p] = 0 THEN [before EXCEPT ![p] = @ \cup {m}] ELSE before
          /\ UNCHANGED <<mainPc, ioPc, localState, localStates, latestSeqId>>
        BY <1>10 DEF recordIncomingMessages, channelsToBeRecordedMutexFree, IoTaking, Reading
    <2>2. \A r \in Proc : Reading(r)' <=> Reading(r)
        BY <2>1 DEF Reading
    <2>3. \A r \in Proc \ {p} : StateAt(r)'
        BY <1>0, <2>1, <2>2 DEF StateInv, StateAt
    <2>4. localStates[p] = 0 => before'[p] \ receiving'[p] \subseteq latestSeqId'[p]
        BY <1>0, <2>1 DEF StateInv
    <2>5. localStates[p] > 0 => before'[p] = before[p]
        BY <1>0, <2>1
    <2>6. StateAt(p)'
        BY <2>1, <2>2, <2>4, <2>5 DEF StateInv, StateAt
    <2> QED  BY <2>3, <2>6 DEF StateInv
<1>11. ASSUME NEW p \in Proc, dropMessage(p) \/ ignoreDuplicate(p) \/ IncrementSeqId(p)
       PROVE  StateInv'
    <2>1. /\ UNCHANGED <<mainPc, ioPc, localState, localStates>>
          /\ receiving' = [receiving EXCEPT ![p] = {}]
          /\ \/ /\ handling(p) = {} /\ latestSeqId' = latestSeqId
                /\ before' = [before EXCEPT ![p] = @ \ (receiving[p] \ deque[p])]
             \/ /\ receiving[p] \subseteq latestSeqId[p] /\ latestSeqId' = latestSeqId
                /\ before' = before
             \/ /\ latestSeqId' = [latestSeqId EXCEPT ![p] = @ \cup receiving[p]]
                /\ before' = before
        BY <1>11 DEF dropMessage, ignoreDuplicate, IncrementSeqId, snapshot
    <2>2. \A r \in Proc : Reading(r)' <=> Reading(r)
        BY <2>1 DEF Reading
    <2>3. \A r \in Proc \ {p} : StateAt(r)'
        BY <1>0, <2>1, <2>2 DEF StateInv, StateAt
    <2>4. before'[p] \subseteq before[p] /\ latestSeqId[p] \subseteq latestSeqId'[p]
        BY <1>0, <2>1
    <2>5. before[p] \ receiving[p] \subseteq latestSeqId[p] => before'[p] \subseteq latestSeqId'[p]
        <3>1. /\ handling(p) = {} =>
                    before[p] \ (receiving[p] \ deque[p]) \subseteq
                        (before[p] \ receiving[p]) \cup latestSeqId[p]
              /\ before[p] \subseteq (before[p] \ receiving[p]) \cup receiving[p]
            BY DEF handling
        <3>2. \/ before'[p] = before[p] \ (receiving[p] \ deque[p]) /\ handling(p) = {}
              \/ before'[p] = before[p] /\ receiving[p] \subseteq latestSeqId'[p]
            BY <1>0, <2>1
        <3> QED  BY <2>4, <3>1, <3>2
    <2>6. receiving'[p] = {}
        BY <1>0, <2>1
    <2>7. StateAt(p)'
        BY <2>1, <2>2, <2>4, <2>5, <2>6 DEF StateInv, StateAt
    <2> QED  BY <2>3, <2>7 DEF StateInv
<1>12. CASE UNCHANGED vars
    BY <1>1, <1>12 DEF vars, snapshot, receiver, Reading
<1> QED  BY <1>3, <1>4, <1>6, <1>7, <1>8, <1>9, <1>10, <1>11, <1>12
         DEF Next, MainThread, IoThread, ReceiverThread

----------------------------------------------------------------------------
\* Inv holds in every reachable state.
THEOREM InvHolds == Spec => []Inv
<1>1. Inv /\ [Next]_vars => Inv'
    BY TypeStep, MarkerStep, ChannelStep, PastStep, StateStep DEF Inv
<1> QED  BY InvInit, <1>1, PTL DEF Spec

\* The state has its types: channels of peers only are recorded, and a message
\* is numbered only after it was queued.
THEOREM Types == Spec => []TypeOK
<1>1. Inv => TypeOK
    BY DEF Inv
<1> QED  BY InvHolds, <1>1, PTL

\* However many ioThreads handle markers at the same time, a process records its
\* local state, and sends its markers, once.
THEOREM LocalStateOnce == Spec => []SnapshotOnce
<1>1. ASSUME Inv, NEW p \in Proc PROVE localStates[p] <= 1
    <2> USE <1>1, InitiatorAssumption
        DEF Inv, MarkerInv, InitiatorRecords, OneTaker, FlagInv, IoTaker, IoTaking
    <2>1. localStates[p] \in {0, 1}
        <3>1. CASE p = Initiator
            BY <3>1
        <3>2. CASE p # Initiator /\ snapshotInitiated[p]
            BY <3>2
        <3>3. CASE ~ snapshotInitiated[p] /\ ~ IoTaking(p)
            BY <3>3
        <3>4. CASE IoTaking(p)
            BY <3>4
        <3> QED  BY <3>1, <3>2, <3>3, <3>4
    <2> QED  BY <2>1
<1>2. Inv => SnapshotOnce
    BY <1>1 DEF SnapshotOnce
<1> QED  BY InvHolds, <1>2, PTL

\* A message that is recorded on a channel and is in the local state as well had
\* come before the local state was recorded: what was recorded is a repetition.
THEOREM NeverTwice == Spec => []NotCountedTwice
<1>1. Inv => NotCountedTwice
    BY DEF Inv, PastInv, NotCountedTwice
<1> QED  BY InvHolds, <1>1, PTL

\* Of the messages that came before the local state was recorded, and were not
\* dropped, at most one is missing from it, whole or in part.
THEOREM MissesAtMostOne == Spec => []AtMostOneMissed
<1>1. ASSUME Inv, NEW p \in Proc, localStates[p] > 0
      PROVE  Cardinality(before[p] \ (localState[p].latestSeqId \cap localState[p].deque)) <= 1
    <2> DEFINE missed == before[p] \ (localState[p].latestSeqId \cap localState[p].deque)
    <2>1. \A m, n \in missed : m = n
        BY <1>1 DEF Inv, StateInv, StateAt, AtMostOne
    <2> HIDE DEF missed
    <2>2. Cardinality(missed) <= 1
        <3>1. CASE missed = {}
            BY <3>1, FS_EmptySet
        <3>2. CASE missed # {}
            <4>1. PICK d : missed = {d}
                BY <2>1, <3>2
            <4> QED  BY <4>1, FS_Singleton
        <3> QED  BY <3>1, <3>2
    <2> QED  BY <2>2 DEF missed
<1>2. Inv => AtMostOneMissed
    BY <1>1 DEF AtMostOneMissed
<1> QED  BY InvHolds, <1>2, PTL

\* From the local snapshot to the marker of a channel nothing that arrives on
\* that channel goes unrecorded, and no channel stays open after its ioThread.
THEOREM NoGap == Spec => []OpenUntilMarker
<1>1. Inv => OpenUntilMarker
    BY DEF Inv, ChannelInv, OpenUntilMarker
<1> QED  BY InvHolds, <1>1, PTL

\* A channel is recorded only between the local snapshot and the end of the
\* ioThread that closes it, and opened only before its marker was accepted: the
\* channel of the first marker is not opened at all.
THEOREM WindowRespected == Spec => RecordedInWindow
<1> DEFINE Window == \A p \in Proc : \A q \in Peers(p) :
        /\ incomingChannels'[p][q] # incomingChannels[p][q] =>
                localStates'[p] = 1 /\ ioPc[p][q] # "done"
        /\ q \in channelsToBeRecorded'[p] \ channelsToBeRecorded[p] =>
                ioPc[p][q] = "accept"
<1>1. ASSUME Inv, SnapshotOnce', [Next]_vars, NEW p \in Proc, NEW q \in Peers(p),
             incomingChannels'[p][q] # incomingChannels[p][q]
      PROVE  localStates'[p] = 1 /\ ioPc[p][q] # "done"
    <2>1. TypeOK /\ MarkerInv
        BY <1>1 DEF Inv
    <2>2. /\ incomingChannels \in [Proc -> [Proc -> SUBSET Messages]]
          /\ localStates \in [Proc -> Nat]
          /\ localStates[p] = 0 => incomingChannels[p] = [r \in Proc |-> {}]
        BY <1>1 DEF Inv, TypeOK, ChannelInv
    <2>3. \A r \in Proc : \A C \in SUBSET Peers(r) :
            localStates[r] = 0 /\ StartLocalSnapshot(r, C) => incomingChannels' = incomingChannels
        BY <1>1, <2>2 DEF StartLocalSnapshot, Peers, Inv, ChannelInv
    <2>4. \A r \in Proc : ~ OpenChannels(r) /\ \A o \in Peers(r) : ~ OpenOtherChannels(r, o)
        BY <1>1, <2>1, <2>3, RecordsOnce DEF OpenChannels, OpenOtherChannels
    <2>5. PICK r \in Proc, m \in Messages : recordIncomingMessages(r, m)
        BY <1>1, <2>4 DEF Next, MainThread, IoThread, ReceiverThread, vars, snapshot, receiver,
             Initiate, takeSnapshot, SendMarker, EndSnapshot, FirstMarker, EndFirstMarker,
             LaterMarker, StopRecording, dropMessage, ignoreDuplicate, addToQueue, IncrementSeqId
    <2>6. /\ q \in channelsToBeRecorded[p]
          /\ localStates' = localStates
        BY <1>1, <2>2, <2>5, MessagesAssumption DEF recordIncomingMessages, Peers
    <2>7. localStates[p] # 0 /\ ioPc[p][q] # "done"
        BY <1>1, <2>6 DEF Inv, ChannelInv
    <2>8. localStates'[p] \in Nat /\ localStates'[p] <= 1
        BY <1>1, <2>2, <2>6 DEF SnapshotOnce
    <2> QED  BY <2>6, <2>7, <2>8
<1>2. ASSUME Inv, [Next]_vars, NEW p \in Proc, NEW q \in Peers(p),
             q \in channelsToBeRecorded'[p] \ channelsToBeRecorded[p]
      PROVE  ioPc[p][q] = "accept"
    <2>1. TypeOK /\ MarkerInv /\ channelsToBeRecorded \in [Proc -> SUBSET Proc]
        BY <1>2 DEF Inv, TypeOK
    <2>2. \A r \in Proc : \A C \in SUBSET Peers(r) :
            StartLocalSnapshot(r, C) => r = p /\ q \in C
        BY <1>2, <2>1 DEF StartLocalSnapshot
    <2>3. \A r \in Proc : \A o \in Peers(r) : ~ StopRecording(r, o)
        BY <1>2, <2>1 DEF StopRecording
    <2>4. OpenChannels(p) \/ \E o \in Peers(p) : OpenOtherChannels(p, o)
        BY <1>2, <2>2, <2>3 DEF Next, MainThread, IoThread, ReceiverThread, vars, snapshot,
             receiver, Initiate, takeSnapshot, OpenChannels, SendMarker, EndSnapshot, FirstMarker,
             OpenOtherChannels, EndFirstMarker, LaterMarker, recordIncomingMessages, dropMessage,
             ignoreDuplicate, addToQueue, IncrementSeqId, Peers
    <2>5. CASE OpenChannels(p)
        BY <2>1, <2>5, RecordsOnce
    <2>6. ASSUME NEW o \in Peers(p), OpenOtherChannels(p, o) PROVE ioPc[p][q] = "accept"
        <3>1. q \in Peers(p) \ {o}
            BY <1>2, <2>2, <2>6 DEF OpenOtherChannels
        <3> QED  BY <2>1, <2>6, <3>1, RecordsOnce
    <2> QED  BY <2>4, <2>5, <2>6
<1>3. Inv /\ SnapshotOnce' /\ [Next]_vars => [Window]_vars
    BY <1>1, <1>2
<1> QED  BY InvHolds, LocalStateOnce, <1>3, PTL DEF Spec, RecordedInWindow
=============================================================================
