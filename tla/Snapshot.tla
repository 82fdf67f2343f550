------------------------------ MODULE Snapshot ------------------------------
(***************************************************************************)
(* The Chandy-Lamport snapshot of lab1 (class SnapshotService,             *)
(* snapshot.cpp) beside the thread of the multicast service whose state    *)
(* and channels it records.  One process initiates it (the README forbids  *)
(* more).  Markers travel over TCP, one connection per marker, and each    *)
(* accepted connection is handled by an ioThread of its own.  The          *)
(* datagrams being recorded travel over UDP: no order between them and the *)
(* markers is assumed.                                                     *)
(*                                                                         *)
(* takeSnapshot holds channelsToBeRecordedMutex while it reads the state   *)
(* of the multicast service and connects to the peers one by one, and an   *)
(* ioThread holds snapshotInitiatedMutex as well.  The receiver thread     *)
(* takes the first mutex for each datagram, before it handles the datagram *)
(* and not while it does: the local state can be read in between.          *)
(*                                                                         *)
(* The datagrams carry Data messages, and the same message may come again  *)
(* at any time: it is sent until it is acknowledged.  The callback sees    *)
(* every datagram before it is known to be a duplicate.  What a message    *)
(* does to the state of the multicast service is abstracted to its         *)
(* presence in two of the parts it changes: the holdBackQueue, changed     *)
(* first, and latestSeqId, changed last and read first.  Not modelled: the *)
(* datagrams of the other types, which pass through the same callback and  *)
(* change other parts of the state, the removal of delivered messages, and *)
(* a Data message that is taken for new again after its delivery.          *)
(***************************************************************************)
EXTENDS Integers, FiniteSets, Sequences

CONSTANTS
    Hosts,       \* the hostfile: a sequence of hosts
    Initiator,   \* the process started with --initiateSnapshotCount
    Messages     \* the Data messages: <<sender, msgId>>

Proc == {Hosts[i] : i \in DOMAIN Hosts}

ASSUME HostsAssumption ==
    /\ Hosts \in Seq(Proc)
    /\ \A i, j \in DOMAIN Hosts : Hosts[i] = Hosts[j] => i = j
    /\ Len(Hosts) >= 3
ASSUME InitiatorAssumption == Initiator \in Proc
ASSUME MessagesAssumption == Messages \subseteq Proc \X Nat

Peers(p) == Proc \ {p}

\* The position in the hostfile, counted from 1.
getProcessIdentifier(p) == CHOOSE i \in DOMAIN Hosts : Hosts[i] = p

\* The hostfile without p.
allPeers(p) ==
    LET i == getProcessIdentifier(p)
    IN  SubSeq(Hosts, 1, i - 1) \o SubSeq(Hosts, i + 1, Len(Hosts))

VARIABLES
    mainPc,               \* of the main thread: idle, flagged, state, taking, done
    ioPc,                 \* [p][q]: the ioThread at p for the marker of q:
                          \* accept, state, taking, erase, done
    snapshotInitiated,
    localState,           \* what localStateGetter returned
    localStates,          \* how often the local state was recorded
    channelsToBeRecorded,
    incomingChannels,     \* [p][q]: messages recorded on the channel from q
    unsent,               \* peers takeSnapshot has yet to send the marker to
    markers               \* markers sent and not accepted: <<from, to>>

VARIABLES
    served,               \* the process datagrams come to, once there is one
    receiving,            \* [p]: the message in the receiver thread, or {}
    before,               \* [p]: those whose callback ran before the local state
                          \* was recorded and that were not dropped (history)
    deque,                \* [p]: messages in the holdBackQueue
    latestSeqId           \* [p]: messages latestSeqId was incremented for

snapshot == <<mainPc, ioPc, snapshotInitiated, localState, localStates,
              channelsToBeRecorded, incomingChannels, unsent, markers>>
receiver == <<served, receiving, before, deque, latestSeqId>>
vars == <<snapshot, receiver>>

----------------------------------------------------------------------------
(* The two mutexes: who holds them follows from where the threads are.     *)

IoTaking(p) == \E q \in Peers(p) : ioPc[p][q] \in {"state", "taking"}

\* Mutant: the mutex is taken only after the local state has been read.
BugMutexFree(p) ==
    mainPc[p] # "taking" /\ ~ \E q \in Peers(p) : ioPc[p][q] = "taking"

channelsToBeRecordedMutexFree(p) == mainPc[p] \notin {"state", "taking"} /\ ~ IoTaking(p)

snapshotInitiatedMutexFree(p) == ~ IoTaking(p)

----------------------------------------------------------------------------
(* takeSnapshot *)

\* localStateGetter reads latestSeqId ...
ReadSeqId(p) == localState' = [localState EXCEPT ![p].latestSeqId = latestSeqId[p]]

\* Mutant: the channel of the process itself is recorded as well.
BugStartLocalSnapshot(p, channelsToRecord) ==
    /\ localState' = [localState EXCEPT ![p].deque = deque[p]]
    /\ localStates' = [localStates EXCEPT ![p] = @ + 1]
    /\ channelsToBeRecorded' = [channelsToBeRecorded EXCEPT ![p] =
            @ \cup channelsToRecord \cup {p}]
    /\ incomingChannels' = [incomingChannels EXCEPT ![p] =
            [q \in Proc |-> IF q \in channelsToRecord THEN {} ELSE @[q]]]
    /\ unsent' = [unsent EXCEPT ![p] = allPeers(p)]

\* Mutant: the marker goes only to the peers whose channels are recorded.
BugMarkers(p, channelsToRecord) ==
    /\ localState' = [localState EXCEPT ![p].deque = deque[p]]
    /\ localStates' = [localStates EXCEPT ![p] = @ + 1]
    /\ channelsToBeRecorded' = [channelsToBeRecorded EXCEPT ![p] = @ \cup channelsToRecord]
    /\ incomingChannels' = [incomingChannels EXCEPT ![p] =
            [q \in Proc |-> IF q \in channelsToRecord THEN {} ELSE @[q]]]
    /\ unsent' = [unsent EXCEPT ![p] =
            SelectSeq(allPeers(p), LAMBDA q : q \in channelsToRecord)]

\* ... and then the holdBackQueue; the channels are opened, and
\* sendMarkerMessageToPeers follows, one connection per step.
StartLocalSnapshot(p, channelsToRecord) ==
    /\ localState' = [localState EXCEPT ![p].deque = deque[p]]
    /\ localStates' = [localStates EXCEPT ![p] = @ + 1]
    /\ channelsToBeRecorded' = [channelsToBeRecorded EXCEPT ![p] = @ \cup channelsToRecord]
    /\ incomingChannels' = [incomingChannels EXCEPT ![p] =
            [q \in Proc |-> IF q \in channelsToRecord THEN {} ELSE @[q]]]
    /\ unsent' = [unsent EXCEPT ![p] = allPeers(p)]

\* takeSnapshot() of the initiator sets the flag ...
Initiate(p) ==
    /\ p = Initiator
    /\ mainPc[p] = "idle"
    /\ snapshotInitiatedMutexFree(p)
    /\ snapshotInitiated' = [snapshotInitiated EXCEPT ![p] = TRUE]
    /\ mainPc' = [mainPc EXCEPT ![p] = "flagged"]
    /\ UNCHANGED <<ioPc, localState, localStates, channelsToBeRecorded,
                   incomingChannels, unsent, markers, receiver>>

\* ... and, with the flag's mutex released, takes the other one and records.
takeSnapshot(p) ==
    /\ mainPc[p] = "flagged"
    /\ channelsToBeRecordedMutexFree(p)
    /\ mainPc' = [mainPc EXCEPT ![p] = "state"]
    /\ ReadSeqId(p)
    /\ UNCHANGED <<ioPc, snapshotInitiated, localStates, channelsToBeRecorded,
                   incomingChannels, unsent, markers, receiver>>

OpenChannels(p) ==
    /\ mainPc[p] = "state"
    /\ mainPc' = [mainPc EXCEPT ![p] = "taking"]
    /\ StartLocalSnapshot(p, Peers(p))
    /\ UNCHANGED <<ioPc, snapshotInitiated, markers, receiver>>

\* One connection of sendMarkerMessageToPeers.
SendMarker(p) ==
    /\ unsent[p] # <<>>
    /\ unsent' = [unsent EXCEPT ![p] = Tail(@)]
    /\ markers' = markers \cup {<<p, Head(unsent[p])>>}
    /\ UNCHANGED <<mainPc, ioPc, snapshotInitiated, localState, localStates,
                   channelsToBeRecorded, incomingChannels, receiver>>

\* takeSnapshot returns in the main thread.
EndSnapshot(p) ==
    /\ mainPc[p] = "taking"
    /\ unsent[p] = <<>>
    /\ mainPc' = [mainPc EXCEPT ![p] = "done"]
    /\ UNCHANGED <<ioPc, snapshotInitiated, localState, localStates,
                   channelsToBeRecorded, incomingChannels, unsent, markers, receiver>>

----------------------------------------------------------------------------
(* start: the accept loop and the ioThreads *)

\* The ioThread at p for the marker of q goes from one place to the next.
IoGoto(p, q, from, to) ==
    /\ ioPc[p][q] = from
    /\ ioPc' = [ioPc EXCEPT ![p][q] = to]

\* The accept loop waits for nothing but connections: a marker that was sent is
\* accepted, and its ioThread started, by the first step of that thread.
AcceptMarker(p, q, to) ==
    /\ <<q, p>> \in markers
    /\ markers' = markers \ {<<q, p>>}
    /\ IoGoto(p, q, "accept", to)

\* Mutant: the flag is tested without the mutex.
BugFirstMarker(p, q) ==
    /\ AcceptMarker(p, q, "state")
    /\ ~ snapshotInitiated[p]
    /\ ReadSeqId(p)
    /\ UNCHANGED <<mainPc, snapshotInitiated, localStates, channelsToBeRecorded,
                   incomingChannels, unsent, receiver>>

\* The first marker: record the local state ...
FirstMarker(p, q) ==
    /\ AcceptMarker(p, q, "state")
    /\ snapshotInitiatedMutexFree(p)
    /\ ~ snapshotInitiated[p]
    /\ channelsToBeRecordedMutexFree(p)
    /\ ReadSeqId(p)
    /\ UNCHANGED <<mainPc, snapshotInitiated, localStates, channelsToBeRecorded,
                   incomingChannels, unsent, receiver>>

\* Mutant: every channel is recorded, that of the marker as well.
BugOpenOtherChannels(p, q) ==
    /\ IoGoto(p, q, "state", "taking")
    /\ StartLocalSnapshot(p, Peers(p))
    /\ UNCHANGED <<mainPc, snapshotInitiated, markers, receiver>>

\* ... and every other channel.
OpenOtherChannels(p, q) ==
    /\ IoGoto(p, q, "state", "taking")
    /\ StartLocalSnapshot(p, Peers(p) \ {q})
    /\ UNCHANGED <<mainPc, snapshotInitiated, markers, receiver>>

\* Mutant: the flag is not set.
BugEndFirstMarker(p, q) ==
    /\ IoGoto(p, q, "taking", "erase")
    /\ unsent[p] = <<>>
    /\ UNCHANGED <<mainPc, snapshotInitiated, localState, localStates,
                   channelsToBeRecorded, incomingChannels, unsent, markers, receiver>>

\* takeSnapshot returns in the ioThread, which now sets the flag.
EndFirstMarker(p, q) ==
    /\ IoGoto(p, q, "taking", "erase")
    /\ unsent[p] = <<>>
    /\ snapshotInitiated' = [snapshotInitiated EXCEPT ![p] = TRUE]
    /\ UNCHANGED <<mainPc, localState, localStates, channelsToBeRecorded,
                   incomingChannels, unsent, markers, receiver>>

\* Mutant: a later marker returns early and leaves its channel open.
BugLaterMarker(p, q) ==
    /\ AcceptMarker(p, q, "done")
    /\ snapshotInitiatedMutexFree(p)
    /\ snapshotInitiated[p]
    /\ UNCHANGED <<mainPc, snapshotInitiated, localState, localStates,
                   channelsToBeRecorded, incomingChannels, unsent, receiver>>

\* The flag was set already: only the channel remains to be closed.
LaterMarker(p, q) ==
    /\ AcceptMarker(p, q, "erase")
    /\ snapshotInitiatedMutexFree(p)
    /\ snapshotInitiated[p]
    /\ UNCHANGED <<mainPc, snapshotInitiated, localState, localStates,
                   channelsToBeRecorded, incomingChannels, unsent, receiver>>

\* Mutant: every channel is closed, as with clear() for erase(sender).
BugStopRecording(p, q) ==
    /\ IoGoto(p, q, "erase", "done")
    /\ channelsToBeRecordedMutexFree(p)
    /\ channelsToBeRecorded' = [channelsToBeRecorded EXCEPT ![p] = {}]
    /\ UNCHANGED <<mainPc, snapshotInitiated, localState, localStates,
                   incomingChannels, unsent, markers, receiver>>

StopRecording(p, q) ==
    /\ IoGoto(p, q, "erase", "done")
    /\ channelsToBeRecordedMutexFree(p)
    /\ channelsToBeRecorded' = [channelsToBeRecorded EXCEPT ![p] = @ \ {q}]
    /\ UNCHANGED <<mainPc, snapshotInitiated, localState, localStates,
                   incomingChannels, unsent, markers, receiver>>

\* Every marker was handled and its ioThread joined: start prints the snapshot.
finished(p) == \A q \in Peers(p) : ioPc[p][q] = "done"

----------------------------------------------------------------------------
(* The receiver thread of the multicast service *)

\* udpReceiver.receive returns a datagram with the message m, of a peer or of
\* the process itself, and incomingMessageCb takes the mutex; to wait for it
\* changes nothing.  That m came before makes no difference here.  The datagrams
\* of a behaviour all go to one process: those of different processes touch
\* nothing in common.
recordIncomingMessages(p, m) ==
    LET sender == m[1]
    IN  /\ receiving[p] = {}
        /\ served \subseteq {p}
        /\ channelsToBeRecordedMutexFree(p)
        /\ served' = {p}
        /\ receiving' = [receiving EXCEPT ![p] = {m}]
        /\ before' = IF localStates[p] = 0
               THEN [before EXCEPT ![p] = @ \cup {m}] ELSE before
        /\ incomingChannels' = IF sender \in channelsToBeRecorded[p]
               THEN [incomingChannels EXCEPT ![p][sender] = @ \cup {m}]
               ELSE incomingChannels
        /\ UNCHANGED <<mainPc, ioPc, snapshotInitiated, localState, localStates,
                       channelsToBeRecorded, unsent, markers, deque, latestSeqId>>

\* The handler is amid its changes: the message is queued but not numbered.
handling(p) == receiving[p] \cap (deque[p] \ latestSeqId[p])

\* dropMessage: the datagram is thrown away after all.
dropMessage(p) ==
    /\ receiving[p] # {}
    /\ handling(p) = {}
    /\ before' = [before EXCEPT ![p] = @ \ (receiving[p] \ deque[p])]
    /\ receiving' = [receiving EXCEPT ![p] = {}]
    /\ UNCHANGED <<snapshot, served, deque, latestSeqId>>

\* processDataMsg: addToQueue knows the message already, nothing else changes.
ignoreDuplicate(p) ==
    /\ receiving[p] # {}
    /\ receiving[p] \subseteq latestSeqId[p]
    /\ receiving' = [receiving EXCEPT ![p] = {}]
    /\ UNCHANGED <<snapshot, served, before, deque, latestSeqId>>

\* processDataMsg: a new message is added to the holdBackQueue ...
addToQueue(p) ==
    /\ receiving[p] # {}
    /\ receiving[p] \cap deque[p] = {}
    /\ deque' = [deque EXCEPT ![p] = @ \cup receiving[p]]
    /\ UNCHANGED <<snapshot, served, receiving, before, latestSeqId>>

\* ... latestSeqId is incremented, and the thread receives again.
IncrementSeqId(p) ==
    /\ handling(p) # {}
    /\ latestSeqId' = [latestSeqId EXCEPT ![p] = @ \cup receiving[p]]
    /\ receiving' = [receiving EXCEPT ![p] = {}]
    /\ UNCHANGED <<snapshot, served, before, deque>>

----------------------------------------------------------------------------
Init ==
    /\ mainPc = [p \in Proc |-> "idle"]
    /\ ioPc = [p \in Proc |-> [q \in Proc |-> "accept"]]
    /\ snapshotInitiated = [p \in Proc |-> FALSE]
    /\ localState = [p \in Proc |-> [latestSeqId |-> {}, deque |-> {}]]
    /\ localStates = [p \in Proc |-> 0]
    /\ channelsToBeRecorded = [p \in Proc |-> {}]
    /\ incomingChannels = [p \in Proc |-> [q \in Proc |-> {}]]
    /\ unsent = [p \in Proc |-> <<>>]
    /\ markers = {}
    /\ served = {}
    /\ receiving = [p \in Proc |-> {}]
    /\ before = [p \in Proc |-> {}]
    /\ deque = [p \in Proc |-> {}]
    /\ latestSeqId = [p \in Proc |-> {}]

MainThread(p) ==
    Initiate(p) \/ takeSnapshot(p) \/ OpenChannels(p) \/ EndSnapshot(p)

IoThread(p, q) ==
    \/ FirstMarker(p, q) \/ OpenOtherChannels(p, q) \/ EndFirstMarker(p, q)
    \/ LaterMarker(p, q) \/ StopRecording(p, q)

ReceiverThread(p) ==
    \/ \E m \in Messages : recordIncomingMessages(p, m)
    \/ dropMessage(p) \/ ignoreDuplicate(p) \/ addToQueue(p) \/ IncrementSeqId(p)

Next ==
    \/ \E p \in Proc : MainThread(p) \/ SendMarker(p) \/ ReceiverThread(p)
    \/ \E p \in Proc : \E q \in Peers(p) : IoThread(p, q)

Spec == Init /\ [][Next]_vars

(***************************************************************************)
(* Fairness: every thread runs and connections are established; the main   *)
(* thread has work at the initiator only.  A thread waiting for a mutex    *)
(* competes with recordIncomingMessages, which holds it for one step only, *)
(* so weak fairness of each thread is enough.                              *)
(***************************************************************************)
FairSpec ==
    /\ Spec
    /\ WF_vars(MainThread(Initiator))
    /\ \A p \in Proc : WF_vars(SendMarker(p))
    /\ \A p \in Proc : \A q \in Peers(p) : WF_vars(IoThread(p, q))

----------------------------------------------------------------------------
(* Properties *)

\* Types of the state: a process records channels of its peers only, and a
\* message is numbered only after it was queued.
TypeOK ==
    /\ mainPc \in [Proc -> {"idle", "flagged", "state", "taking", "done"}]
    /\ ioPc \in [Proc -> [Proc -> {"accept", "state", "taking", "erase", "done"}]]
    /\ snapshotInitiated \in [Proc -> BOOLEAN]
    /\ localState \in [Proc -> [latestSeqId : SUBSET Messages, deque : SUBSET Messages]]
    /\ localStates \in [Proc -> Nat]
    /\ channelsToBeRecorded \in [Proc -> SUBSET Proc]
    /\ incomingChannels \in [Proc -> [Proc -> SUBSET Messages]]
    /\ unsent \in [Proc -> Seq(Proc)]
    /\ markers \subseteq Proc \X Proc
    /\ served \subseteq Proc
    /\ receiving \in [Proc -> SUBSET Messages]
    /\ before \in [Proc -> SUBSET Messages]
    /\ deque \in [Proc -> SUBSET Messages]
    /\ latestSeqId \in [Proc -> SUBSET Messages]
    /\ \A p \in Proc :
        /\ channelsToBeRecorded[p] \subseteq Peers(p)
        /\ \A m, n \in receiving[p] : m = n
        /\ latestSeqId[p] \subseteq deque[p]
        /\ p \notin served => receiving[p] \cup before[p] \cup deque[p] = {}

\* A process records its local state, and so sends its markers, at most once,
\* although the markers of its peers are handled by concurrent ioThreads:
\* the accept loop, which counts one connection per peer, relies on it.
SnapshotOnce == \A p \in Proc : localStates[p] <= 1

\* A snapshot holds the effect of no message that was still to come: one that
\* is recorded on a channel is in a part of the local state only if it had come
\* before the local state was recorded, so that what was recorded is a second
\* datagram of it (the callback sees a datagram before it is known to be a
\* duplicate).  A message whose first datagram is recorded is in no part of the
\* local state, although handlers run while the state is read.
NotCountedTwice ==
    \A p \in Proc : \A q \in Peers(p) :
        incomingChannels[p][q] \cap
            (localState[p].latestSeqId \cup localState[p].deque) \subseteq before[p]

\* The snapshot of a process misses or tears at most one message that came
\* before its local state was recorded, the one its handler is busy with: the
\* callback of any other waits for the mutex under which the state is read.
AtMostOneMissed ==
    \A p \in Proc : localStates[p] > 0 =>
        Cardinality(before[p] \ (localState[p].latestSeqId \cap localState[p].deque)) <= 1

\* Recording leaves no gap and ends: after the local snapshot a channel is
\* recorded until its marker came, whatever the ioThreads of the other markers
\* do meanwhile, and not after its ioThread is done, so none is still recorded
\* when the process prints its snapshot: no marker was handled before its
\* channel was opened.
OpenUntilMarker ==
    \A p \in Proc : \A q \in Peers(p) :
        /\ localStates[p] > 0 /\ ioPc[p][q] = "accept" => q \in channelsToBeRecorded[p]
        /\ ioPc[p][q] = "done" => q \notin channelsToBeRecorded[p]

\* A channel is recorded only between the local snapshot and the marker of
\* that channel: nothing is added after its ioThread is done, and a channel is
\* opened only while its marker has not been accepted, so that the one on which
\* the first marker came is never recorded.
RecordedInWindow ==
    [][\A p \in Proc : \A q \in Peers(p) :
        /\ incomingChannels'[p][q] # incomingChannels[p][q] =>
                localStates'[p] = 1 /\ ioPc[p][q] # "done"
        /\ q \in channelsToBeRecorded'[p] \ channelsToBeRecorded[p] =>
                ioPc[p][q] = "accept"]_vars

\* Once initiated, the snapshot terminates at every process.
Terminates == <>(\A p \in Proc : finished(p))
=============================================================================
