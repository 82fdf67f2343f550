----------------------- MODULE FailureDetectorProofs -----------------------
(***************************************************************************)
(* Proofs about FailureDetector.  CountInv is the invariant of the         *)
(* counters, which needs no timing; TimelyInv the one of the accuracy of   *)
(* the detector, which needs Timely and at most one lost heartbeat.        *)
(***************************************************************************)
EXTENDS FailureDetector, TLAPS

\* What an entry of the map says about the silence of its peer: two intervals
\* less the value, and one more for every pass that ended early.
CountInv ==
    \A p \in Peer : peerHeartBeatMap[p] # Absent =>
        /\ peerHeartBeatMap[p] + silent[p] >= 2
        /\ peerHeartBeatMap[p] + silent[p] <= 2 + delays[p]

\* The heartbeat of this interval is on its way.
Coming(p) == inFlight[p] > 0 \/ listener = p

\* An entry of a live peer falls below its peers' only by lost heartbeats; a
\* peer that was reported is crashed and nothing of it is on its way.
TimelyInv ==
    \A p \in Peer :
        /\ status[p] = "up" =>
            /\ reports[p] = 0
            /\ peerHeartBeatMap[p] = 0 => losses >= 1
            /\ peerHeartBeatMap[p] = 1 /\ p \in sentThisInterval =>
                    Coming(p) \/ losses >= 1
            /\ peerHeartBeatMap[p] = 0 /\ p \in sentThisInterval =>
                    Coming(p) \/ losses >= 2
        /\ status[p] = "down" =>
            reports[p] = 0 /\ peerHeartBeatMap[p] = Absent /\ ~ Coming(p)
        /\ reports[p] > 0 =>
            reports[p] = 1 /\ peerHeartBeatMap[p] = Absent /\ ~ Coming(p)

Inv == TypeOK /\ CountInv

USE DEF Absent

\* The initial state: every map is empty and nothing is on its way.
LEMMA InvInit == Init => Inv /\ TimelyInv
<1> SUFFICES ASSUME Init PROVE Inv /\ TimelyInv
    OBVIOUS
<1>1. TypeOK
    <2> USE BoundsAssumption DEF Init
    <2>1. status \in [Peer -> {"down", "up", "crashed"}] /\ sentThisInterval \subseteq Peer
        OBVIOUS
    <2>2. inFlight \in [Peer -> 0..MaxInFlight] /\ losses \in 0..MaxLoss
        OBVIOUS
    <2>3. peerHeartBeatMap \in [Peer -> {Absent, 0, 1, 2}]
        OBVIOUS
    <2>4. inCallback \in BOOLEAN /\ listener \in Peer \cup {Nobody, Aborted}
        OBVIOUS
    <2>5. reports \in [Peer -> 0..MaxReports]
        OBVIOUS
    <2>6. silent \in [Peer -> 0..MaxCount] /\ delays \in [Peer -> 0..MaxCount]
        OBVIOUS
    <2> QED  BY <2>1, <2>2, <2>3, <2>4, <2>5, <2>6 DEF TypeOK
<1>2. CountInv
    BY DEF Init, CountInv
<1>3. TimelyInv
    <2>1. \A p \in Peer : status[p] = "down" /\ reports[p] = 0
        BY DEF Init
    <2>2. \A p \in Peer : peerHeartBeatMap[p] = Absent
        BY DEF Init
    <2>3. ASSUME NEW p \in Peer PROVE ~ Coming(p)
        BY NobodyAssumption DEF Init, Coming
    <2>4. ASSUME NEW p \in Peer PROVE ~ (status[p] = "up") /\ ~ (reports[p] > 0)
        BY <2>1
    <2> QED  BY <2>1, <2>2, <2>3, <2>4, Zenon DEF TimelyInv
<1> QED  BY <1>1, <1>2, <1>3 DEF Inv

\* Types are preserved by every step of the monitor, the listener, the
\* senders and the environment.
LEMMA TypeStep == TypeOK /\ [Next]_vars => TypeOK'
<1> SUFFICES ASSUME TypeOK, [Next]_vars PROVE TypeOK'
    OBVIOUS
<1> USE BoundsAssumption DEF TypeOK
<1>1. CASE UNCHANGED vars
    BY <1>1 DEF vars, history
<1>2. ASSUME NEW p \in Peer, Start(p) \/ Crash(p) \/ Lose(p) PROVE TypeOK'
    BY <1>2 DEF Start, Crash, Lose, history
<1>3. ASSUME NEW p \in Peer, startHeartBeatSender(p) PROVE TypeOK'
    BY <1>3 DEF startHeartBeatSender, history
<1>4. ASSUME NEW p \in Peer,
             ReceiveHeartBeat(p) \/ ListenerAborts(p) \/ ApplyHeartBeat(p)
      PROVE  TypeOK'
    BY <1>4 DEF ReceiveHeartBeat, ListenerAborts, ApplyHeartBeat, history
<1>5. CASE DecrementAll
    <2>1. peerHeartBeatMap' \in [Peer -> {Absent, 0, 1, 2}]
        BY <1>5 DEF DecrementAll
    <2>2. silent' \in [Peer -> 0..MaxCount]
        BY <1>5 DEF DecrementAll, Tick, Saturate
    <2> QED  BY <1>5, <2>1, <2>2 DEF DecrementAll, Tick
<1>6. ASSUME NEW p \in Peer, ReportCrash(p) PROVE TypeOK'
    <2>1. peerHeartBeatMap' \in [Peer -> {Absent, 0, 1, 2}]
        <3>1. PICK visited \in SUBSET {q \in Peer : peerHeartBeatMap[q] > 0} :
                    peerHeartBeatMap' = Erased(p, visited)
            BY <1>6 DEF ReportCrash
        <3> QED  BY <3>1 DEF Erased
    <2>2. silent' \in [Peer -> 0..MaxCount]
        BY <1>6 DEF ReportCrash, Tick, Saturate
    <2>3. reports' \in [Peer -> 0..MaxReports] /\ delays' \in [Peer -> 0..MaxCount]
        BY <1>6 DEF ReportCrash, Saturate
    <2> QED  BY <1>6, <2>1, <2>2, <2>3 DEF ReportCrash, Tick
<1>7. CASE EndCallback
    BY <1>7 DEF EndCallback, history
<1> QED  BY <1>1, <1>2, <1>3, <1>4, <1>5, <1>6, <1>7
         DEF Next, Monitor, Listener, Environment

\* The counters are preserved: a pass that decrements an entry adds a silent
\* tick, and one that skips an entry reports another peer.
LEMMA CountStep == TypeOK /\ CountInv /\ [Next]_vars => CountInv'
<1> SUFFICES ASSUME TypeOK, CountInv, [Next]_vars, NEW q \in Peer,
                    peerHeartBeatMap'[q] # Absent
             PROVE  /\ peerHeartBeatMap'[q] + silent'[q] >= 2
                    /\ peerHeartBeatMap'[q] + silent'[q] <= 2 + delays'[q]
    BY DEF CountInv
<1> USE BoundsAssumption
<1>0. /\ peerHeartBeatMap[q] \in {Absent, 0, 1, 2}
      /\ silent[q] \in 0..MaxCount
      /\ delays[q] \in 0..MaxCount
    BY DEF TypeOK
<1>a. peerHeartBeatMap[q] # Absent =>
        /\ peerHeartBeatMap[q] + silent[q] >= 2
        /\ peerHeartBeatMap[q] + silent[q] <= 2 + delays[q]
    BY DEF CountInv
<1>1. CASE UNCHANGED <<peerHeartBeatMap, silent, delays>>
    BY <1>1, <1>a
<1>2. ASSUME NEW p \in Peer, ApplyHeartBeat(p)
      PROVE  /\ peerHeartBeatMap'[q] + silent'[q] >= 2
             /\ peerHeartBeatMap'[q] + silent'[q] <= 2 + delays'[q]
    BY <1>2, <1>0, <1>a DEF ApplyHeartBeat, TypeOK
<1>3. CASE DecrementAll
    <2>1. /\ peerHeartBeatMap[q] \in {1, 2}
          /\ peerHeartBeatMap'[q] = peerHeartBeatMap[q] - 1
          /\ silent'[q] = Saturate(silent[q], MaxCount)
          /\ delays'[q] = delays[q]
        BY <1>3, <1>0 DEF DecrementAll, Tick
    <2> QED  BY <2>1, <1>0, <1>a DEF Saturate
<1>4. ASSUME NEW p \in Peer, ReportCrash(p)
      PROVE  /\ peerHeartBeatMap'[q] + silent'[q] >= 2
             /\ peerHeartBeatMap'[q] + silent'[q] <= 2 + delays'[q]
    <2>1. PICK visited \in SUBSET {r \in Peer : peerHeartBeatMap[r] > 0} :
                peerHeartBeatMap' = Erased(p, visited)
        BY <1>4 DEF ReportCrash
    <2>2. q # p
        BY <2>1 DEF Erased
    <2>3. /\ silent'[q] = Saturate(silent[q], MaxCount)
          /\ delays'[q] = Saturate(delays[q], MaxCount)
        BY <1>4, <2>2 DEF ReportCrash, Tick
    <2>4. \/ peerHeartBeatMap'[q] = peerHeartBeatMap[q]
          \/ peerHeartBeatMap[q] > 0 /\ peerHeartBeatMap'[q] = peerHeartBeatMap[q] - 1
        BY <2>1, <2>2 DEF Erased
    <2>5. peerHeartBeatMap[q] # Absent
        BY <2>4, <1>0
    <2> QED  BY <2>3, <2>4, <2>5, <1>0, <1>a DEF Saturate
<1> QED  BY <1>1, <1>2, <1>3, <1>4
         DEF Next, Monitor, Listener, Environment, vars, history, Start, Crash,
             Lose, startHeartBeatSender, ReceiveHeartBeat, ListenerAborts, EndCallback

\* A report in the code's sense, the entry leaving the map, finds two missed
\* intervals.
LEMMA ReportStep ==
    Inv /\ [Next]_vars =>
        \A p \in Peer : peerHeartBeatMap[p] # Absent /\ peerHeartBeatMap'[p] = Absent
            => silent[p] >= 2
<1> SUFFICES ASSUME Inv, [Next]_vars, NEW q \in Peer,
                    peerHeartBeatMap[q] # Absent, peerHeartBeatMap'[q] = Absent
             PROVE  silent[q] >= 2
    OBVIOUS
<1>0. /\ peerHeartBeatMap[q] \in {0, 1, 2}
      /\ silent[q] \in Nat
      /\ peerHeartBeatMap[q] + silent[q] >= 2
    BY BoundsAssumption DEF Inv, TypeOK, CountInv
<1>2. ASSUME NEW p \in Peer, ApplyHeartBeat(p) PROVE FALSE
    BY <1>2 DEF ApplyHeartBeat, Inv, TypeOK
<1>3. CASE DecrementAll
    BY <1>3, <1>0 DEF DecrementAll
<1>4. ASSUME NEW p \in Peer, ReportCrash(p) PROVE peerHeartBeatMap[q] = 0
    BY <1>4, <1>0 DEF ReportCrash, Erased
<1> QED  BY <1>0, <1>2, <1>3, <1>4
         DEF Next, Monitor, Listener, Environment, vars, history, Start, Crash,
             Lose, startHeartBeatSender, ReceiveHeartBeat, ListenerAborts, EndCallback

\* With timely heartbeats, one of which may be lost, a tick never finds the
\* entry of a live peer at zero, and leaves nothing of a crashed peer on its
\* way that could bring its entry back.
LEMMA TimelyStep ==
    ASSUME Timely, MaxLoss <= 1
    PROVE  TypeOK /\ TimelyInv /\ [Next]_vars => TimelyInv'
<1> SUFFICES ASSUME TypeOK, TimelyInv, [Next]_vars PROVE TimelyInv'
    OBVIOUS
<1> USE BoundsAssumption DEF TypeOK
<1>1. CASE UNCHANGED vars
    BY <1>1 DEF vars, TimelyInv, Coming
<1>2. ASSUME NEW p \in Peer, Start(p) PROVE TimelyInv'
    BY <1>2 DEF Start, TimelyInv, Coming, history
<1>3. ASSUME NEW p \in Peer, Crash(p) PROVE TimelyInv'
    BY <1>3 DEF Crash, TimelyInv, Coming, history
<1>4. ASSUME NEW p \in Peer, Lose(p) PROVE TimelyInv'
    BY <1>4 DEF Lose, TimelyInv, Coming, history
<1>5. ASSUME NEW p \in Peer, startHeartBeatSender(p) PROVE TimelyInv'
    BY <1>5 DEF startHeartBeatSender, TimelyInv, Coming, history
<1>6. ASSUME NEW p \in Peer, ReceiveHeartBeat(p) PROVE TimelyInv'
    BY <1>6, NobodyAssumption DEF ReceiveHeartBeat, TimelyInv, Coming, history
<1>a. ASSUME NEW p \in Peer, ListenerAborts(p) PROVE TimelyInv'
    BY <1>a, NobodyAssumption DEF ListenerAborts, TimelyInv, Coming, history
<1>7. ASSUME NEW p \in Peer, ApplyHeartBeat(p) PROVE TimelyInv'
    BY <1>7, NobodyAssumption DEF ApplyHeartBeat, TimelyInv, Coming, history
<1>8. ASSUME Tick
      PROVE  \A q \in Peer :
                /\ ~ Coming(q)
                /\ status[q] = "up" => peerHeartBeatMap[q] # 0
                /\ status[q] = "up" /\ peerHeartBeatMap[q] = 1 => losses >= 1
    BY <1>8, NobodyAssumption DEF Tick, TimelyInv, Coming
<1>9. CASE DecrementAll
    <2>1. Tick /\ UNCHANGED <<status, inFlight, listener, losses, reports>>
        BY <1>9 DEF DecrementAll, Tick
    <2>2. sentThisInterval' = {}
        BY <2>1 DEF Tick
    <2>3. \A q \in Peer : peerHeartBeatMap'[q] =
            IF peerHeartBeatMap[q] = Absent THEN Absent ELSE peerHeartBeatMap[q] - 1
        BY <1>9 DEF DecrementAll
    <2> QED  BY <1>8, <2>1, <2>2, <2>3 DEF TimelyInv, Coming
<1>10. ASSUME NEW p \in Peer, ReportCrash(p) PROVE TimelyInv'
    <2>1. Tick /\ UNCHANGED <<status, inFlight, listener, losses>>
        BY <1>10 DEF ReportCrash, Tick
    <2>2. sentThisInterval' = {}
        BY <2>1 DEF Tick
    <2>3. PICK visited \in SUBSET {q \in Peer : peerHeartBeatMap[q] > 0} :
                peerHeartBeatMap' = Erased(p, visited)
        BY <1>10 DEF ReportCrash
    <2>4. status[p] = "crashed" /\ reports[p] = 0 /\ reports'[p] <= 1
        BY <1>8, <1>10, <2>1 DEF ReportCrash, TimelyInv, Saturate
    <2>5. \A q \in Peer : q # p => reports'[q] = reports[q]
        BY <1>10 DEF ReportCrash
    <2>6. reports' \in [Peer -> 0..MaxReports]
        BY <1>10 DEF ReportCrash, Saturate
    <2>7. peerHeartBeatMap'[p] = Absent
        BY <2>3 DEF Erased
    <2>8. \A q \in Peer : q # p =>
            \/ peerHeartBeatMap'[q] = peerHeartBeatMap[q]
            \/ peerHeartBeatMap[q] > 0 /\ peerHeartBeatMap'[q] = peerHeartBeatMap[q] - 1
        BY <2>3 DEF Erased
    <2> QED  BY <1>8, <2>1, <2>2, <2>4, <2>5, <2>6, <2>7, <2>8 DEF TimelyInv, Coming
<1>11. CASE EndCallback
    BY <1>11 DEF EndCallback, TimelyInv, Coming, history
<1> QED  BY <1>1, <1>2, <1>3, <1>4, <1>5, <1>6, <1>7, <1>9, <1>10, <1>11, <1>a
         DEF Next, Monitor, Listener, Environment

----------------------------------------------------------------------------
\* The types and the counters hold in every behaviour, for any number of peers
\* and any timing.
THEOREM InvHolds == Spec => []Inv
<1>1. Inv /\ [Next]_vars => Inv'
    BY TypeStep, CountStep DEF Inv
<1> QED  BY InvInit, <1>1, PTL DEF Spec

\* Type correctness of the detector.
THEOREM DetectorTypes == Spec => []TypeOK
<1>1. Inv => TypeOK
    BY DEF Inv
<1> QED  BY InvHolds, <1>1, PTL

\* No more than two missed intervals, and one pass per other peer reported,
\* separate the last heartbeat of a peer from its report.
THEOREM DetectionIsBounded == Spec => []DetectionBounded
<1>1. Inv => DetectionBounded
    BY BoundsAssumption DEF Inv, TypeOK, CountInv, DetectionBounded
<1> QED  BY InvHolds, <1>1, PTL

\* No peer is reported before two of its intervals were missed.
THEOREM MissesTwoIntervals == Spec => TwoIntervalsMissed
<1>1. Inv /\ [Next]_vars =>
        (\A p \in Peer :
            peerHeartBeatMap[p] # Absent /\ peerHeartBeatMap'[p] = Absent
                => silent[p] >= 2)
    BY ReportStep
<1> QED  BY InvHolds, <1>1, PTL DEF Spec, TwoIntervalsMissed

\* Reports come in the order in which the peers fell silent, unless a pass that
\* ended early skipped the peer that was silent for longer.
THEOREM ReportsInOrder == Spec => LongestSilentFirst
<1>1. ASSUME Inv, [Next]_vars
      PROVE  \A p, q \in Peer :
                (/\ peerHeartBeatMap[p] # Absent /\ peerHeartBeatMap'[p] = Absent
                 /\ peerHeartBeatMap[q] # Absent /\ silent[q] > silent[p])
                    => delays[q] > 0
    <2> SUFFICES ASSUME NEW p \in Peer, NEW q \in Peer,
                        peerHeartBeatMap[p] # Absent, peerHeartBeatMap'[p] = Absent,
                        peerHeartBeatMap[q] # Absent, silent[q] > silent[p]
                 PROVE  delays[q] > 0
        OBVIOUS
    <2>1. silent[p] >= 2
        BY <1>1, ReportStep
    <2>2. peerHeartBeatMap[q] + silent[q] <= 2 + delays[q]
        BY <1>1 DEF Inv, CountInv
    <2>3. /\ peerHeartBeatMap[q] \in {0, 1, 2}
          /\ silent[p] \in Nat /\ silent[q] \in Nat /\ delays[q] \in Nat
        BY <1>1, BoundsAssumption DEF Inv, TypeOK
    <2> QED  BY <2>1, <2>2, <2>3
<1> QED  BY InvHolds, <1>1, PTL DEF Spec, LongestSilentFirst

\* The invariant of the timely detector.
THEOREM TimelyHolds ==
    ASSUME Timely, MaxLoss <= 1
    PROVE  Spec => [](TypeOK /\ TimelyInv)
<1>1. TypeOK /\ TimelyInv /\ [Next]_vars => (TypeOK /\ TimelyInv)'
    BY TypeStep, TimelyStep
<1>2. Init => TypeOK /\ TimelyInv
    BY InvInit DEF Inv
<1> QED  BY <1>1, <1>2, PTL DEF Spec

\* No live peer is reported, for any number of peers, as long as heartbeats
\* arrive within their interval and at most one is lost.
THEOREM DetectorAccurate ==
    ASSUME Timely, MaxLoss <= 1
    PROVE  Spec => []Accurate
<1>1. TypeOK /\ TimelyInv => Accurate
    BY DEF TimelyInv, Accurate
<1> QED  BY TimelyHolds, <1>1, PTL

\* Under the same timing no crash is reported twice.
THEOREM CrashReportedOnce ==
    ASSUME Timely, MaxLoss <= 1
    PROVE  Spec => []ReportedOnce
<1>1. TypeOK /\ TimelyInv => ReportedOnce
    <2> SUFFICES ASSUME TypeOK, TimelyInv, NEW p \in Peer PROVE reports[p] <= 1
        BY DEF ReportedOnce
    <2>1. reports[p] \in Nat
        BY BoundsAssumption DEF TypeOK
    <2>2. reports[p] > 0 => reports[p] = 1
        BY DEF TimelyInv
    <2> QED  BY <2>1, <2>2
<1> QED  BY TimelyHolds, <1>1, PTL
=============================================================================
