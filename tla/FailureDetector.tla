-------------------------- MODULE FailureDetector --------------------------
(***************************************************************************)
(* The failure detector of one lab2 process (class FailureDetector,        *)
(* failure_detector.cpp), with the heartbeat senders of its peers and the  *)
(* UDP network between them.                                               *)
(*                                                                         *)
(* The monitor keeps the mutex of peerHeartBeatMap while it runs the       *)
(* failure callbacks.  The map is an unordered_map, so its iteration order *)
(* is left open: the monitor stops at the first entry it finds at zero,    *)
(* and any of the other entries may or may not have been visited by then.  *)
(*                                                                         *)
(* Monitor and senders sleep the same HEARTBEAT_INTERVAL_MS, on different  *)
(* hosts.  With Timely, a tick of the monitor waits until every live peer  *)
(* has sent since the last tick and what was sent has arrived or is lost;  *)
(* without it, ticks and heartbeats interleave freely.                     *)
(***************************************************************************)
EXTENDS Integers

CONSTANTS
    Peer,        \* the other hosts of the hostfile
    Nobody,      \* the listener holds no message
    Aborted,     \* the listener threw, which ended the process
    Timely,      \* heartbeats that are not lost arrive within their interval
    MaxInFlight, \* bound on the heartbeats of one peer in flight
    MaxLoss,     \* bound on the heartbeats the network loses
    MaxReports,  \* where the history counter of reports saturates
    MaxCount     \* where the other history counters saturate

ASSUME NobodyAssumption == Nobody \notin Peer /\ Aborted \notin Peer /\ Nobody # Aborted
ASSUME TimelyAssumption == Timely \in BOOLEAN
ASSUME BoundsAssumption ==
    /\ MaxInFlight \in Nat \ {0}
    /\ MaxLoss \in Nat
    /\ MaxReports \in Nat
    /\ MaxCount \in Nat \ {0, 1}

Absent == -1     \* the value of a peer that has no entry in the map

VARIABLES
    status,            \* of each peer: down, up, crashed
    sentThisInterval,  \* peers that sent since the last tick
    inFlight,          \* heartbeats of each peer sent and not yet received
    losses,            \* heartbeats lost so far
    listener,          \* peer whose heartbeat is received and not yet applied,
                       \* Nobody or Aborted
    peerHeartBeatMap,
    inCallback,        \* the monitor runs onFailureCallbacks, mutex held
    reports,           \* history: how often each peer was reported crashed
    silent,            \* history: ticks since the peer's last heartbeat
    delays             \* history: reports of other peers since then

vars == <<status, sentThisInterval, inFlight, losses, listener,
          peerHeartBeatMap, inCallback, reports, silent, delays>>

history == <<reports, silent, delays>>

Saturate(n, max) == IF n < max THEN n + 1 ELSE max

----------------------------------------------------------------------------
(* The peers and the network *)

Start(p) ==
    /\ status[p] = "down"
    /\ status' = [status EXCEPT ![p] = "up"]
    /\ UNCHANGED <<sentThisInterval, inFlight, losses, listener,
                   peerHeartBeatMap, inCallback, history>>

Crash(p) ==
    /\ status[p] = "up"
    /\ status' = [status EXCEPT ![p] = "crashed"]
    /\ UNCHANGED <<sentThisInterval, inFlight, losses, listener,
                   peerHeartBeatMap, inCallback, history>>

\* One round of the sender loop; a send that fails is logged and forgotten.
startHeartBeatSender(p) ==
    /\ status[p] = "up"
    /\ Timely => p \notin sentThisInterval
    /\ inFlight[p] < MaxInFlight
    /\ sentThisInterval' = sentThisInterval \cup {p}
    /\ inFlight' = [inFlight EXCEPT ![p] = @ + 1]
    /\ UNCHANGED <<status, losses, listener, peerHeartBeatMap, inCallback, history>>

Lose(p) ==
    /\ inFlight[p] > 0
    /\ losses < MaxLoss
    /\ losses' = losses + 1
    /\ inFlight' = [inFlight EXCEPT ![p] = @ - 1]
    /\ UNCHANGED <<status, sentThisInterval, listener, peerHeartBeatMap,
                   inCallback, history>>

----------------------------------------------------------------------------
(* startHeartBeatListener *)

ReceiveHeartBeat(p) ==
    /\ listener = Nobody
    /\ inFlight[p] > 0
    /\ inFlight' = [inFlight EXCEPT ![p] = @ - 1]
    /\ listener' = p
    /\ UNCHANGED <<status, sentThisInterval, losses, peerHeartBeatMap,
                   inCallback, history>>

\* The name of a peer that just crashed may no longer be found.  Its last
\* heartbeat then comes from an address, getPeerId throws, and nobody catches.
ListenerAborts(p) ==
    /\ listener = Nobody
    /\ status[p] = "crashed"
    /\ inFlight[p] > 0
    /\ inFlight' = [inFlight EXCEPT ![p] = @ - 1]
    /\ listener' = Aborted
    /\ UNCHANGED <<status, sentThisInterval, losses, peerHeartBeatMap,
                   inCallback, history>>

\* Mutant: a heartbeat is worth one interval only.
BugApplyHeartBeat(p) ==
    /\ listener = p
    /\ ~ inCallback
    /\ peerHeartBeatMap' = [peerHeartBeatMap EXCEPT ![p] = 1]
    /\ listener' = Nobody
    /\ silent' = [silent EXCEPT ![p] = 0]
    /\ delays' = [delays EXCEPT ![p] = 0]
    /\ UNCHANGED <<status, sentThisInterval, inFlight, losses, inCallback, reports>>

\* Mutant: the heartbeat counts are accumulated.
BugAccumulate(p) ==
    /\ listener = p
    /\ ~ inCallback
    /\ peerHeartBeatMap' = [peerHeartBeatMap EXCEPT ![p] =
            IF @ \in 0..3 THEN @ + 2 ELSE 2]
    /\ listener' = Nobody
    /\ silent' = [silent EXCEPT ![p] = 0]
    /\ delays' = [delays EXCEPT ![p] = 0]
    /\ UNCHANGED <<status, sentThisInterval, inFlight, losses, inCallback, reports>>

\* The map is updated under the mutex, which a running callback holds.
ApplyHeartBeat(p) ==
    /\ listener = p
    /\ ~ inCallback
    /\ peerHeartBeatMap' = [peerHeartBeatMap EXCEPT ![p] = 2]
    /\ listener' = Nobody
    /\ silent' = [silent EXCEPT ![p] = 0]
    /\ delays' = [delays EXCEPT ![p] = 0]
    /\ UNCHANGED <<status, sentThisInterval, inFlight, losses, inCallback, reports>>

----------------------------------------------------------------------------
(* startDetectorThread: the sleep ends *)

Tick ==
    /\ listener # Aborted
    /\ ~ inCallback
    /\ Timely => /\ \A p \in Peer : status[p] = "up" => p \in sentThisInterval
                 /\ \A p \in Peer : inFlight[p] = 0
                 /\ listener = Nobody
    /\ sentThisInterval' = {}
    /\ silent' = [p \in Peer |-> Saturate(silent[p], MaxCount)]
    /\ UNCHANGED <<status, inFlight, losses, listener>>

\* No entry is at zero: all are decremented.
DecrementAll ==
    /\ Tick
    /\ \A p \in Peer : peerHeartBeatMap[p] # 0
    /\ peerHeartBeatMap' = [p \in Peer |->
            IF peerHeartBeatMap[p] = Absent THEN Absent ELSE peerHeartBeatMap[p] - 1]
    /\ UNCHANGED <<inCallback, reports, delays>>

\* Mutant: the crashed entry stays in the map, at zero.
BugErased(crashedPeerId, visited) ==
    [p \in Peer |->
        IF p \in visited THEN peerHeartBeatMap[p] - 1 ELSE peerHeartBeatMap[p]]

\* The map after the pass that visited some entries and then the crashed one.
Erased(crashedPeerId, visited) ==
    [p \in Peer |->
        IF p = crashedPeerId THEN Absent
        ELSE IF p \in visited THEN peerHeartBeatMap[p] - 1
        ELSE peerHeartBeatMap[p]]

\* The first entry found at zero is erased and reported, and the pass ends.
ReportCrash(crashedPeerId) ==
    /\ Tick
    /\ peerHeartBeatMap[crashedPeerId] = 0
    /\ \E visited \in SUBSET {p \in Peer : peerHeartBeatMap[p] > 0} :
            peerHeartBeatMap' = Erased(crashedPeerId, visited)
    /\ inCallback' = TRUE
    /\ reports' = [reports EXCEPT ![crashedPeerId] = Saturate(@, MaxReports)]
    /\ delays' = [p \in Peer |->
            IF p = crashedPeerId THEN delays[p] ELSE Saturate(delays[p], MaxCount)]

\* The callbacks return, the mutex is released and the monitor sleeps again.
EndCallback ==
    /\ listener # Aborted
    /\ inCallback
    /\ inCallback' = FALSE
    /\ UNCHANGED <<status, sentThisInterval, inFlight, losses, listener,
                   peerHeartBeatMap, history>>

----------------------------------------------------------------------------
Init ==
    /\ status = [p \in Peer |-> "down"]
    /\ sentThisInterval = {}
    /\ inFlight = [p \in Peer |-> 0]
    /\ losses = 0
    /\ listener = Nobody
    /\ peerHeartBeatMap = [p \in Peer |-> Absent]
    /\ inCallback = FALSE
    /\ reports = [p \in Peer |-> 0]
    /\ silent = [p \in Peer |-> 0]
    /\ delays = [p \in Peer |-> 0]

Monitor == DecrementAll \/ (\E p \in Peer : ReportCrash(p)) \/ EndCallback

Listener == \E p \in Peer : ReceiveHeartBeat(p) \/ ListenerAborts(p) \/ ApplyHeartBeat(p)

Environment == \E p \in Peer : Start(p) \/ Crash(p) \/ Lose(p)

Next == Monitor \/ Listener \/ Environment \/ \E p \in Peer : startHeartBeatSender(p)

Spec == Init /\ [][Next]_vars

(***************************************************************************)
(* Fairness: the threads of the detector and the senders keep running.     *)
(* Nothing obliges a peer to start or to crash, or the network to lose.    *)
(***************************************************************************)
FairSpec ==
    /\ Spec
    /\ WF_vars(Monitor)
    /\ WF_vars(Listener)
    /\ \A p \in Peer : WF_vars(startHeartBeatSender(p))

----------------------------------------------------------------------------
(* Properties *)

\* Types of the state: an entry of the map never goes below zero, although
\* the monitor decrements before it erases.
TypeOK ==
    /\ status \in [Peer -> {"down", "up", "crashed"}]
    /\ sentThisInterval \subseteq Peer
    /\ inFlight \in [Peer -> 0..MaxInFlight]
    /\ losses \in 0..MaxLoss
    /\ listener \in Peer \cup {Nobody, Aborted}
    /\ peerHeartBeatMap \in [Peer -> {Absent, 0, 1, 2}]
    /\ inCallback \in BOOLEAN
    /\ reports \in [Peer -> 0..MaxReports]
    /\ silent \in [Peer -> 0..MaxCount]
    /\ delays \in [Peer -> 0..MaxCount]

\* A peer is reported only if no heartbeat of it was applied in the last two
\* complete intervals of the monitor, in whatever order the entries are
\* visited and however late the heartbeats come.
TwoIntervalsMissed ==
    [][\A p \in Peer :
        peerHeartBeatMap[p] # Absent /\ peerHeartBeatMap'[p] = Absent
            => silent[p] >= 2]_vars

\* How long the report of a silent peer can take: besides the two missed
\* intervals only a pass that ended early, because another peer was reported,
\* can put it off.
DetectionBounded ==
    \A p \in Peer : peerHeartBeatMap[p] # Absent => silent[p] <= 2 + delays[p]

\* Crashes are reported in their order: a peer is reported before one that has
\* been silent for longer only if a pass ended early, at a third peer, since
\* that one was last heard.  The membership service relies on it when a leader
\* crashes after the peer whose DEL it started.
LongestSilentFirst ==
    [][\A p, q \in Peer :
        (/\ peerHeartBeatMap[p] # Absent /\ peerHeartBeatMap'[p] = Absent
         /\ peerHeartBeatMap[q] # Absent /\ silent[q] > silent[p])
            => delays[q] > 0]_vars

\* If heartbeats arrive within their interval, losing one of them does not get
\* a live peer reported.
Accurate == \A p \in Peer : status[p] = "up" => reports[p] = 0

\* ... and a peer that crashed is reported once.
ReportedOnce == \A p \in Peer : reports[p] <= 1

\* A crashed peer leaves the map for good, also when others crash as well,
\* unless its last heartbeat ends the process of the detector.
CrashDetected ==
    \A p \in Peer :
        <>[](listener = Aborted \/ (status[p] = "crashed" => peerHeartBeatMap[p] = Absent))
=============================================================================
