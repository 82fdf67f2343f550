-------------------------- MODULE MembershipProofs --------------------------
(***************************************************************************)
(* Theorems about Membership: Inv is inductive, and what follows from it.  *)
(*                                                                         *)
(* MembershipSteps has the steps of a leader in an operation, and          *)
(* MembershipElection those of an election; the lemmas below are about the *)
(* other steps.                                                            *)
(***************************************************************************)
EXTENDS MembershipElection

\* Who looks for a leader is the first process or joins one.
LEMMA Searching ==
    ASSUME Inv, NEW p \in Live, pc[p]["main"] = "findLeader"
    PROVE  \/ First(p)
           \/ \E c \in Proc : /\ Led(c) /\ Joining(c, p) /\ backlog[c] = <<>>
                              /\ c \in todo[p]["main"] /\ p \notin todo[p]["main"]
<1>1. ~ Empty
  BY DEF Empty
<1>2. \A l, m \in Proc : ~ Election(l, m)
  <2> SUFFICES ASSUME NEW l \in Proc, NEW m \in Proc, Election(l, m) PROVE FALSE
    OBVIOUS
  <2> QED BY Place DEF Leaderless, Waiting, Called, Following
<1>3. CASE \E q \in Proc : First(q)
  BY <1>3 DEF First
<1>4. ASSUME NEW c \in Proc, Led(c)
      PROVE  /\ Joining(c, p) /\ backlog[c] = <<>>
             /\ c \in todo[p]["main"] /\ p \notin todo[p]["main"]
  <2>1. p # c
    BY <1>4 DEF Led, Idle, Joining, Losing, Working, Role, Resting, Thread, Ops
  <2>2. p \in Peers(c) /\ ~ Following(p, c)
    BY <2>1 DEF Peers, Following
  <2>3. PICK j \in Proc : Joining(c, j)
    BY <1>4, <2>2 DEF Led, Idle, Losing, Working
  <2>4. j = p
    BY <2>2, <2>3 DEF Joining
  <2> QED BY <2>2, <2>3, <2>4 DEF Joining
<1> QED BY <1>1, <1>2, <1>3, <1>4 DEF Inv, Phase

\* When the last event is dealt with, nobody is live or a leader is idle.
LEMMA Rest ==
    ASSUME Inv, Settled
    PROVE  Empty \/ \E c \in Proc : Led(c) /\ Idle(c)
<1>1. \A p \in Live : /\ pc[p]["main"] \in {"accept", "follow"} /\ pc[p]["detector"] = "watch"
                      /\ leaderPeerId[p] \in Live /\ heard[p] = Live \ {p} /\ backlog[p] = <<>>
  BY DEF Settled
<1>2. \A p \in Proc : ~ First(p)
  BY <1>1 DEF First
<1>3. \A l, m \in Proc : ~ Election(l, m)
  BY <1>1 DEF Election, Vacant, Taking, Leaderless, Dead
<1>4. ASSUME NEW c \in Proc, Led(c) PROVE Idle(c)
  <2>1. c \in Live
    BY <1>4 DEF Led
  <2>2. ~ \E j \in Proc : Joining(c, j)
    <3> SUFFICES ASSUME NEW j \in Proc, Joining(c, j) PROVE FALSE
      OBVIOUS
    <3>1. backlog[c] = <<>> /\ pc[j]["main"] # "findLeader"
      BY <1>1, <2>1 DEF Joining, Peers
    <3>2. backlog[c] = <<j>>
      BY <3>1 DEF Joining
    <3> QED BY <3>1, <3>2, OneMessage
  <2>3. ~ \E x \in Proc : Losing(c, x)
    BY <1>1, <2>1 DEF Losing, Dead
  <2>4. ~ \E t \in Thread : Working(c, t)
    BY <1>1, <2>1 DEF Working, Role, Thread, Ops
  <2> QED BY <1>4, <2>2, <2>3, <2>4 DEF Led
<1> QED BY <1>2, <1>3, <1>4 DEF Inv, Phase

\* Then all have its view, and nothing is on its way.
LEMMA RestState ==
    ASSUME Inv, Settled, NEW c \in Proc, Led(c), Idle(c)
    PROVE  /\ \A a \in Proc, b \in Live : chan[a][b] = <<>>
           /\ \A q \in Peers(c) : Following(q, c) /\ UpToDate(q, c)
           /\ \A q \in Live : heard[q] = Live \ {q}
           /\ \A q \in Peers(c) : q \in Proc /\ q # c
           /\ c \in Live /\ Resting(c) /\ backlog[c] = <<>>
           /\ getGroupMembers(c) = Live /\ Connected(c, Live)
<1>1. /\ \A a \in Proc, b \in Live : chan[a][b] = <<>>
      /\ \A q \in Live : heard[q] = Live \ {q}
  BY DEF Settled
<1>2. \A q \in Peers(c) : Following(q, c) /\ UpToDate(q, c)
  <2>1. TAKE q \in Peers(c)
  <2>2. chan[c][q] = <<>>
    BY <1>1 DEF Peers
  <2>3. ~ ViewOnWay(q, c)
    BY <2>2, OneMessage DEF ViewOnWay
  <2> QED BY <2>3 DEF Idle
<1> QED BY <1>1, <1>2 DEF Led, Idle, Peers, Live

\* A process that begins to look for a leader is the first, or joins.
LEMMA Enter ==
    ASSUME Inv, NEW p \in Dead, Settled, Types', PeerTypes', History',
           status'[p] = "up", heard' = heard,
           pc'[p]["main"] = "findLeader", pc'[p]["detector"] = "watch",
           todo'[p]["main"] = Proc \ {p},
           alivePeers'[p] = {}, pendingRequest'[p] = Dummy, viewId'[p] = 1,
           ~ leaderCrashed'[p], ~ listening'[p], backlog'[p] = <<>>,
           \A r \in Proc \ {p} :
               /\ status'[r] = status[r] /\ pc'[r] = pc[r]
               /\ leaderPeerId'[r] = leaderPeerId[r] /\ viewId'[r] = viewId[r]
               /\ alivePeers'[r] = alivePeers[r] /\ tcpClientMap'[r] = tcpClientMap[r]
               /\ pendingRequest'[r] = pendingRequest[r]
               /\ leaderCrashed'[r] = leaderCrashed[r]
               /\ listening'[r] = listening[r] /\ backlog'[r] = backlog[r],
           \A a, b \in Proc : chan'[a][b] = IF p \in {a, b} THEN <<>> ELSE chan[a][b]
    PROVE  Inv'
<1>1. p \in Proc /\ p \notin Live /\ Live' = Live \cup {p} /\ heard[p] = {}
  BY DEF Dead, Live, Inv, History
<1>2. CASE Empty
  <2>1. Live' = {p}
    BY <1>1, <1>2 DEF Empty
  <2>2. First(p)'
    BY <1>1, <2>1 DEF First
  <2> QED BY <1>1, <2>2 DEF Inv, Phase
<1>3. CASE \E c \in Proc : Led(c) /\ Idle(c)
  <2>1. PICK c \in Proc : Led(c) /\ Idle(c)
    BY <1>3
  <2>2. /\ \A a \in Proc, b \in Live : chan[a][b] = <<>>
        /\ \A q \in Peers(c) : Following(q, c) /\ UpToDate(q, c)
        /\ \A q \in Live : heard[q] = Live \ {q}
        /\ \A q \in Peers(c) : q \in Proc /\ q # c
        /\ c \in Live /\ Resting(c) /\ backlog[c] = <<>>
        /\ getGroupMembers(c) = Live /\ Connected(c, Live)
    BY <2>1, RestState
  <2>3. c # p /\ Peers(c)' = Peers(c) \cup {p} /\ p \notin Peers(c)
    BY <1>1, <2>2 DEF Peers
  <2>4. \A q \in Proc \ {p} : getGroupMembers(q)' = getGroupMembers(q)
    BY DEF getGroupMembers
  <2>5. \A q \in Peers(c) : Following(q, c)' /\ UpToDate(q, c)'
    BY <1>1, <2>2, <2>3, <2>4 DEF Following, UpToDate, Quiet
  <2>6. Resting(c)' /\ backlog'[c] = <<>> /\ getGroupMembers(c)' = Live' \ {p}
        /\ Connected(c, Live \ {p})'
    BY <1>1, <2>2, <2>3, <2>4 DEF Resting, Connected
  <2>7. Quiet(c, p)'
    BY <1>1 DEF Quiet
  <2>8. Joining(c, p)'
    BY <1>1, <2>2, <2>3, <2>5, <2>6, <2>7 DEF Joining
  <2>9. \A a \in Proc, b \in Live' : chan'[a][b] = <<>>
    BY <1>1, <2>2 DEF Live
  <2>10. Private(c)'
    BY <2>9 DEF Private
  <2>11. \A q \in Peers(c)' : viewId'[q] <= viewId'[c]
    <3>1. viewId' \in [Proc -> Nat \ {0}]
      BY DEF Types
    <3>2. \A q \in Peers(c) : viewId'[q] = viewId'[c]
      BY <2>5 DEF UpToDate
    <3> QED BY <2>1, <2>3, <3>1, <3>2
  <2>12. \A q, r \in Peers(c)' : Agree(q, r)'
    <3>1. \A q, r \in Peers(c) : Agree(q, r)'
      BY <2>5 DEF UpToDate, Agree
    <3> QED BY <2>3, <3>1 DEF Agree
  <2>13. Led(c)'
    BY <1>1, <2>2, <2>8, <2>10, <2>11, <2>12 DEF Led
  <2> QED BY <2>13 DEF Inv, Phase
<1> QED BY <1>2, <1>3, Rest

\* A process is started.
LEMMA StartStep ==
    ASSUME Inv, NEW p \in Proc, Start(p)
    PROVE  Inv'
<1>1. /\ status[p] = "down" /\ Settled
      /\ status' = [status EXCEPT ![p] = "up"]
      /\ todo' = [todo EXCEPT ![p]["main"] = Proc \ {p}]
      /\ pc' = [pc EXCEPT ![p]["main"] = "findLeader"]
      /\ UNCHANGED <<request, newViewId, leaderPeerId, requestCounter, viewId, alivePeers,
                     tcpClientMap, pendingRequest, leaderCrashed, listening,
                     backlog, chan, heard, crashes, goneAt>>
  BY DEF Start, Visit, Goto, state, net
<1>2. /\ status \in [Proc -> {"down", "up", "crashed"}]
      /\ todo \in [Proc -> [Thread -> SUBSET Proc]] /\ pc \in [Proc -> [Thread -> Label]]
      /\ "main" \in Thread /\ "detector" \in Thread /\ "findLeader" \in Label
  BY DEF Inv, Types, Thread, Label
<1>3. /\ status'[p] = "up" /\ todo'[p]["main"] = Proc \ {p}
      /\ pc'[p]["main"] = "findLeader" /\ pc'[p]["detector"] = pc[p]["detector"]
      /\ \A r \in Proc \ {p} : status'[r] = status[r] /\ pc'[r] = pc[r]
  BY <1>1, <1>2
<1>4. Unused(p) /\ p \in Dead
  BY <1>1 DEF Inv, History, Dead, Live
<1>5. Types'
  <2>1. /\ status' \in [Proc -> {"down", "up", "crashed"}]
        /\ todo' \in [Proc -> [Thread -> SUBSET Proc]] /\ pc' \in [Proc -> [Thread -> Label]]
    BY <1>1, <1>2
  <2> QED BY <1>1, <2>1 DEF Inv, Types
<1>6. PeerTypes'
  BY <1>1 DEF Inv, PeerTypes
<1>7. History'
  <2>1. \A r \in Proc \ {p} : Unused(r)' = Unused(r)
    BY <1>1, <1>3 DEF Unused
  <2>2. \A r \in Proc : status'[r] = "crashed" <=> status[r] = "crashed"
    BY <1>1, <1>3
  <2>3. \A r \in Proc : \A q \in heard[r] : q \in Proc /\ status'[q] # "down"
    BY <1>3 DEF Inv, PeerTypes, History
  <2>4. \A r \in Proc : status'[r] # "up" => heard[r] = {}
    BY <1>3 DEF Inv, History
  <2>5. \A r \in Proc : status'[r] = "down" => Unused(r)'
    BY <1>3, <2>1 DEF Inv, History
  <2>6. \A r \in Proc : (goneAt[r] > 0 <=> status'[r] = "crashed") /\ goneAt[r] <= crashes
    BY <2>2 DEF Inv, History
  <2>7. \A q, r \in Proc : goneAt[q] > 0 /\ goneAt[q] = goneAt[r] => q = r
    BY DEF Inv, History
  <2> QED BY <1>1, <2>3, <2>4, <2>5, <2>6, <2>7 DEF History
<1>8. \A a, b \in Proc : chan'[a][b] = IF p \in {a, b} THEN <<>> ELSE chan[a][b]
  BY <1>1, <1>4 DEF Unused
<1>9. /\ pc'[p]["detector"] = "watch" /\ alivePeers'[p] = {} /\ pendingRequest'[p] = Dummy
      /\ viewId'[p] = 1 /\ ~ leaderCrashed'[p] /\ ~ listening'[p] /\ backlog'[p] = <<>>
  BY <1>1, <1>3, <1>4 DEF Unused
<1> QED BY <1>1, <1>3, <1>4, <1>5, <1>6, <1>7, <1>8, <1>9, Enter

\* A process that crashed is started again.
LEMMA RestartStep ==
    ASSUME Inv, NEW p \in Proc, Restart(p)
    PROVE  Inv'
<1>1. /\ status[p] = "crashed" /\ Settled
      /\ status' = [status EXCEPT ![p] = "up"]
      /\ goneAt' = [goneAt EXCEPT ![p] = 0]
      /\ pc' = [pc EXCEPT ![p] = [main |-> "findLeader", detector |-> "watch"]]
      /\ request' = [request EXCEPT ![p] = [t \in Thread |-> Dummy]]
      /\ todo' = [todo EXCEPT ![p] = [main |-> Proc \ {p}, detector |-> {}]]
      /\ newViewId' = [newViewId EXCEPT ![p] = [t \in Thread |-> 0]]
      /\ leaderPeerId' = [leaderPeerId EXCEPT ![p] = 1]
      /\ requestCounter' = [requestCounter EXCEPT ![p] = 1]
      /\ UNCHANGED <<heard, crashes>>
  BY DEF Restart
<1>2. /\ viewId' = [viewId EXCEPT ![p] = 1]
      /\ alivePeers' = [alivePeers EXCEPT ![p] = {}]
      /\ tcpClientMap' = [tcpClientMap EXCEPT ![p] = {}]
      /\ pendingRequest' = [pendingRequest EXCEPT ![p] = Dummy]
      /\ leaderCrashed' = [leaderCrashed EXCEPT ![p] = FALSE]
      /\ listening' = [listening EXCEPT ![p] = FALSE]
      /\ backlog' = [backlog EXCEPT ![p] = <<>>]
      /\ chan' = [q \in Proc |-> [r \in Proc |-> IF p \in {q, r} THEN <<>> ELSE chan[q][r]]]
  BY DEF Restart
<1>3. /\ status \in [Proc -> {"down", "up", "crashed"}] /\ goneAt \in [Proc -> Nat]
      /\ todo \in [Proc -> [Thread -> SUBSET Proc]] /\ pc \in [Proc -> [Thread -> Label]]
      /\ request \in [Proc -> [Thread -> Request]] /\ newViewId \in [Proc -> [Thread -> Nat]]
      /\ leaderPeerId \in [Proc -> Proc] /\ requestCounter \in [Proc -> Nat]
  BY DEF Inv, Types
<1>4. /\ viewId \in [Proc -> Nat \ {0}] /\ pendingRequest \in [Proc -> Request]
      /\ leaderCrashed \in [Proc -> BOOLEAN] /\ listening \in [Proc -> BOOLEAN]
      /\ backlog \in [Proc -> Seq(Proc)]
      /\ alivePeers \in [Proc -> SUBSET Proc] /\ tcpClientMap \in [Proc -> SUBSET Proc]
  BY DEF Inv, Types, PeerTypes
<1>5. Dummy \in Request /\ 1 \in Proc /\ {"findLeader", "watch"} \subseteq Label
  BY NAssumption DEF Dummy, Request, Proc, Label
<1>6. /\ status' \in [Proc -> {"down", "up", "crashed"}] /\ goneAt' \in [Proc -> Nat]
      /\ todo' \in [Proc -> [Thread -> SUBSET Proc]] /\ pc' \in [Proc -> [Thread -> Label]]
      /\ request' \in [Proc -> [Thread -> Request]] /\ newViewId' \in [Proc -> [Thread -> Nat]]
      /\ leaderPeerId' \in [Proc -> Proc] /\ requestCounter' \in [Proc -> Nat]
  <2>1. status' \in [Proc -> {"down", "up", "crashed"}] /\ goneAt' \in [Proc -> Nat]
    BY <1>1, <1>3
  <2>2. todo' \in [Proc -> [Thread -> SUBSET Proc]]
    <3>1. [main |-> Proc \ {p}, detector |-> {}] \in [Thread -> SUBSET Proc]
      BY DEF Thread
    <3> QED BY <1>1, <1>3, <3>1
  <2>3. pc' \in [Proc -> [Thread -> Label]]
    <3>1. [main |-> "findLeader", detector |-> "watch"] \in [Thread -> Label]
      BY <1>5 DEF Thread
    <3> QED BY <1>1, <1>3, <3>1
  <2>4. request' \in [Proc -> [Thread -> Request]] /\ newViewId' \in [Proc -> [Thread -> Nat]]
    BY <1>1, <1>3, <1>5
  <2>5. leaderPeerId' \in [Proc -> Proc] /\ requestCounter' \in [Proc -> Nat]
    BY <1>1, <1>3, <1>5
  <2> QED BY <2>1, <2>2, <2>3, <2>4, <2>5
<1>7. /\ viewId' \in [Proc -> Nat \ {0}] /\ pendingRequest' \in [Proc -> Request]
      /\ leaderCrashed' \in [Proc -> BOOLEAN] /\ listening' \in [Proc -> BOOLEAN]
      /\ backlog' \in [Proc -> Seq(Proc)]
      /\ alivePeers' \in [Proc -> SUBSET Proc] /\ tcpClientMap' \in [Proc -> SUBSET Proc]
  BY <1>2, <1>4, <1>5
<1>8. \A a, b \in Proc : chan'[a][b] = IF p \in {a, b} THEN <<>> ELSE chan[a][b]
  BY <1>2
<1>9. chan' = [a \in Proc |-> [b \in Proc |-> chan'[a][b]]]
  BY <1>2
<1>10. Types'
  BY <1>1, <1>6, <1>7, <1>9 DEF Inv, Types
<1>11. /\ status'[p] = "up" /\ goneAt'[p] = 0 /\ todo'[p]["main"] = Proc \ {p}
       /\ pc'[p]["main"] = "findLeader" /\ pc'[p]["detector"] = "watch"
       /\ \A r \in Proc \ {p} : /\ status'[r] = status[r] /\ goneAt'[r] = goneAt[r]
                                /\ pc'[r] = pc[r] /\ leaderPeerId'[r] = leaderPeerId[r]
  <2>1. /\ pc'[p] = [main |-> "findLeader", detector |-> "watch"]
        /\ todo'[p] = [main |-> Proc \ {p}, detector |-> {}]
    BY <1>1, <1>3
  <2> QED BY <1>1, <1>3, <2>1
<1>12. /\ viewId'[p] = 1 /\ alivePeers'[p] = {} /\ tcpClientMap'[p] = {}
       /\ pendingRequest'[p] = Dummy /\ ~ leaderCrashed'[p] /\ ~ listening'[p]
       /\ backlog'[p] = <<>>
       /\ \A r \in Proc \ {p} : /\ viewId'[r] = viewId[r] /\ alivePeers'[r] = alivePeers[r]
                                /\ tcpClientMap'[r] = tcpClientMap[r]
                                /\ pendingRequest'[r] = pendingRequest[r]
                                /\ leaderCrashed'[r] = leaderCrashed[r]
                                /\ listening'[r] = listening[r] /\ backlog'[r] = backlog[r]
  BY <1>2, <1>4
<1>13. PeerTypes'
  <2>1. heard' \in [Proc -> SUBSET Proc] /\ \A r \in Proc : r \notin heard'[r]
    BY <1>1 DEF Inv, PeerTypes
  <2>2. \A r \in Proc : r \notin alivePeers'[r] /\ r \notin tcpClientMap'[r]
    BY <1>12 DEF Inv, PeerTypes
  <2> QED BY <1>7, <2>1, <2>2 DEF PeerTypes
<1>14. History'
  <2>1. ASSUME NEW r \in Proc, status'[r] = "down" PROVE Unused(r)'
    <3>1. r # p /\ Unused(r)
      BY <1>11, <2>1 DEF Inv, History
    <3> QED BY <1>8, <1>11, <1>12, <3>1 DEF Unused
  <2>2. \A r \in Proc : \A q \in heard[r] : q \in Proc /\ status'[q] # "down"
    BY <1>11 DEF Inv, PeerTypes, History
  <2>3. \A r \in Proc : status'[r] # "up" => heard[r] = {}
    BY <1>11 DEF Inv, History
  <2>4. \A r \in Proc : (goneAt'[r] > 0 <=> status'[r] = "crashed") /\ goneAt'[r] <= crashes
    <3>1. crashes >= 0
      BY DEF Inv, Types
    <3> QED BY <1>11, <3>1 DEF Inv, History
  <2>5. \A q, r \in Proc : goneAt'[q] > 0 /\ goneAt'[q] = goneAt'[r] => q = r
    BY <1>11 DEF Inv, History
  <2> QED BY <1>1, <2>1, <2>2, <2>3, <2>4, <2>5 DEF History
<1>15. p \in Dead
  BY <1>1 DEF Dead, Live
<1> QED BY <1>1, <1>8, <1>10, <1>11, <1>12, <1>13, <1>14, <1>15, Enter

\* What a process that leads, and may crash, is in the middle of.
LEMMA Busy ==
    ASSUME Inv, NEW p \in Live, leaderPeerId[p] = p, listening[p], NEW t \in Thread,
           pc[p][t] \notin {"accept", "watch"}
    PROVE  pc[p][t] \in Ops
<1>1. ~ Empty /\ ~ \E q \in Proc : First(q)
  BY DEF Empty, First
<1>2. \A l, m \in Proc : ~ Election(l, m)
  <2> SUFFICES ASSUME NEW l \in Proc, NEW m \in Proc, Election(l, m) PROVE FALSE
    OBVIOUS
  <2>1. l # p /\ (p \in Peers(m) => p # m)
    BY DEF Election, Dead, Peers
  <2>2. ~ Leaderless(p, l) /\ ~ Waiting(p, l) /\ ~ Called(p, l, m) /\ ~ Following(p, m)
    BY <2>1 DEF Leaderless, Waiting, Called, Following
  <2> QED BY <2>1, <2>2, Place DEF Taking
<1>3. PICK c \in Proc : Led(c)
  BY <1>1, <1>2 DEF Inv, Phase
<1>4. p = c
  <2> SUFFICES ASSUME p # c PROVE FALSE
    OBVIOUS
  <2>1. ~ Following(p, c) /\ p \in Peers(c)
    BY DEF Following, Peers
  <2>2. PICK j \in Proc : Joining(c, j)
    BY <1>3, <2>1 DEF Led, Idle, Losing, Working
  <2>3. j # p
    BY <2>1, <2>2 DEF Joining
  <2> QED BY <2>1, <2>2, <2>3 DEF Joining
<1>5. ~ Resting(p)
  BY DEF Resting, Thread
<1>6. PICK u \in Thread : Working(p, u)
  BY <1>3, <1>4, <1>5 DEF Led, Idle, Joining, Losing
<1>7. u = t
  BY <1>6 DEF Working, Role, Thread
<1> QED BY <1>6, <1>7 DEF Working, Role

\* A process crashes when the last event is dealt with.
LEMMA CrashAtRest ==
    ASSUME Inv, NEW p \in Live, Settled, Gone(p, "crashed"), UNCHANGED <<pc, local, state, net>>
    PROVE  Inv'
<1>1. PICK c \in Proc : Led(c) /\ Idle(c)
  BY Rest DEF Empty
<1>2. /\ \A a \in Proc, b \in Live : chan[a][b] = <<>>
      /\ \A q \in Peers(c) : Following(q, c) /\ UpToDate(q, c)
      /\ \A q \in Live : heard[q] = Live \ {q}
      /\ \A q \in Peers(c) : q \in Proc /\ q # c
      /\ c \in Live /\ Resting(c) /\ backlog[c] = <<>>
      /\ getGroupMembers(c) = Live /\ Connected(c, Live)
  BY <1>1, RestState
<1>3. HeardAll
  BY <1>2 DEF HeardAll
<1>4. CASE p = c
  <2>1. Descending(Peers(c), c)
    <3>1. \A q \in Peers(c) : Eff(q, c) = viewId[c]
      BY <1>2 DEF Eff, UpToDate, Peers
    <3>2. viewId[c] \in Nat
      BY DEF Inv, Types
    <3> QED BY <3>1, <3>2 DEF Descending
  <2>2. \A q \in Peers(c) : /\ Live \subseteq getGroupMembers(q) /\ Harmless(pendingRequest[q])
                            /\ chan[c][q] = <<>>
    BY <1>2 DEF UpToDate, Harmless, Dummy, Quiet
  <2>3. listening[c]
    BY <1>2 DEF Resting
  <2> QED BY <1>1, <1>2, <1>3, <1>4, <2>1, <2>2, <2>3, LeaderGone
<1>5. CASE p # c
  <2>1. /\ Types' /\ PeerTypes' /\ History'
        /\ Live' = Live \ {p} /\ Dead' = Dead \cup {p}
        /\ \A q \in Proc \ {p} : heard'[q] = heard[q]
        /\ UNCHANGED <<pc, request, todo, newViewId, leaderPeerId, requestCounter, viewId,
                       alivePeers, tcpClientMap, pendingRequest, leaderCrashed, listening,
                       backlog, chan>>
    BY GoneKeeps
  <2>2. Peers(c)' = Peers(c) \ {p} /\ c \in Live' /\ p \in Proc
    BY <1>2, <1>5, <2>1 DEF Peers, Live
  <2>3. \A q : getGroupMembers(q)' = getGroupMembers(q)
    BY <2>1 DEF getGroupMembers
  <2>4. \A q \in Peers(c)' : Following(q, c)' /\ UpToDate(q, c)'
    BY <1>2, <2>1, <2>2, <2>3 DEF Following, UpToDate, Quiet
  <2>5. Losing(c, p)'
    <3>1. heard'[c] \cap Dead' = {p}
      BY <1>2, <1>5, <2>1 DEF Dead
    <3>2. HeardAll'
      BY <1>2, <2>1 DEF HeardAll, Live
    <3>3. getGroupMembers(c)' = Live' \cup {p} /\ Connected(c, Live)'
      BY <1>2, <2>1, <2>3 DEF Connected
    <3>4. Resting(c)' /\ backlog'[c] = <<>>
      BY <1>2, <2>1 DEF Resting
    <3> QED BY <2>1, <2>4, <3>1, <3>2, <3>3, <3>4 DEF Losing
  <2>6. Private(c)'
    BY <1>2, <2>1 DEF Private
  <2>7. \A q \in Peers(c)' : viewId'[q] <= viewId'[c]
    BY <1>1, <2>1, <2>2 DEF Led
  <2>8. \A q, r \in Peers(c)' : Agree(q, r)'
    BY <2>4 DEF UpToDate, Agree
  <2>9. Led(c)'
    BY <2>2, <2>5, <2>6, <2>7, <2>8 DEF Led
  <2> QED BY <2>1, <2>9 DEF Inv, Phase
<1> QED BY <1>4, <1>5

\* A process crashes; the leader not during an ADD.
LEMMA CrashStep ==
    ASSUME Inv, NEW p \in Proc, Crash(p), "ADD" \notin LeaderMayCrash
    PROVE  Inv'
<1>1. p \in Live /\ Gone(p, "crashed") /\ UNCHANGED <<pc, local, state, net>>
  BY DEF Crash, Live
<1>2. CASE Settled
  BY <1>1, <1>2, CrashAtRest
<1>3. CASE ~ Settled
  <2>1. leaderPeerId[p] = p /\ listening[p] /\ Doing(p) \cap LeaderMayCrash # {}
    BY <1>3 DEF Crash
  <2>2. PICK t \in Thread : pc[p][t] \notin {"accept", "watch"} /\ request[p][t].op \in LeaderMayCrash
    BY <2>1 DEF Doing
  <2>3. request[p][t].op = "DEL"
    <3>1. request[p][t] \in Request
      BY DEF Inv, Types
    <3>2. request[p][t].op \in {"NOTHING", "ADD", "DEL"}
      BY <3>1 DEF Request
    <3>3. request[p][t].op \in {"idle", "ADD", "DEL"} /\ request[p][t].op # "ADD"
      BY <2>2, LeaderMayCrashAssumption
    <3> QED BY <3>2, <3>3
  <2>4. pc[p][t] \in Ops
    BY <1>1, <2>1, <2>2, Busy
  <2> QED BY <1>1, <2>3, <2>4, WorkerGone
<1> QED BY <1>2, <1>3

\* In the demo the leader exits once the requests of a DEL are sent.
LEMMA DemoStep ==
    ASSUME Inv, NEW p \in Proc, NEW t \in Thread, RequestsSent(p, t), isTestCase4(p, t)
    PROVE  Inv'
<1>1. p \in Live /\ pc[p][t] \in Ops /\ request[p][t].op = "DEL"
  BY DEF RequestsSent, At, Live, Ops, isTestCase4
<1>2. Gone(p, "crashed") /\ UNCHANGED <<pc, local, state, net>>
  BY DEF RequestsSent
<1> QED BY <1>1, <1>2, WorkerGone

\* A step in which only what was heard changes, and not of live processes that
\* were heard of, keeps Led.
LEMMA HeardStep ==
    ASSUME Inv, NEW c \in Proc, Led(c),
           UNCHANGED <<status, pc, request, todo, newViewId, leaderPeerId, requestCounter, viewId,
                       alivePeers, tcpClientMap, pendingRequest, leaderCrashed, listening,
                       backlog, chan>>,
           heard'[c] \cap Dead = heard[c] \cap Dead, heard' \in [Proc -> SUBSET Proc],
           \A r \in Proc : /\ \A q \in heard'[r] : q \in heard[r] \/ q \in Live
                           /\ \A q \in heard[r] : q \in heard'[r] \/ q \in Dead
    PROVE  Led(c)'
<1>1. Live' = Live /\ Dead' = Dead /\ Peers(c)' = Peers(c) /\ MayDiffer' = MayDiffer
  BY DEF Live, Dead, Peers, MayDiffer
<1>2. \A q : getGroupMembers(q)' = getGroupMembers(q)
  BY DEF getGroupMembers
<1>3. \A q, r : Agree(q, r)' = Agree(q, r)
  BY <1>1, <1>2 DEF Agree
<1>4. \A q : Following(q, c)' = Following(q, c) /\ UpToDate(q, c)' = UpToDate(q, c)
  BY <1>2 DEF Following, UpToDate, Quiet
<1>5. /\ \A q : ViewOnWay(q, c)' = ViewOnWay(q, c) /\ Quiet(c, q)' = Quiet(c, q)
      /\ \A q : Eff(q, c)' = Eff(q, c)
      /\ Resting(c)' = Resting(c)
      /\ \A S : Connected(c, S)' = Connected(c, S)
  BY <1>1, <1>2 DEF ViewOnWay, Quiet, Eff, Resting, Connected
<1>6. /\ \A r \in Proc : heard[r] \subseteq Live => heard'[r] \subseteq Live
      /\ HeardAll => HeardAll'
  BY <1>1 DEF HeardAll, Live, Dead
<1>7. Private(c)'
  BY <1>1 DEF Led, Private
<1>8. Idle(c) => Idle(c)'
  BY <1>1, <1>2, <1>3, <1>4, <1>5, <1>6 DEF Idle
<1>9. \A j \in Proc : Joining(c, j) => Joining(c, j)'
  BY <1>1, <1>2, <1>4, <1>5, <1>6 DEF Joining
<1>10. \A x \in Proc : Losing(c, x) => Losing(c, x)'
  BY <1>1, <1>2, <1>4, <1>5, <1>6 DEF Losing
<1>11. ASSUME NEW t \in Thread, Working(c, t) PROVE Working(c, t)'
  <2>1. Role(c, t)'
    BY <1>1, <1>5, <1>6, <1>11 DEF Working, Role
  <2>2. GroupAt(c, t)' /\ Loop(c, t)'
    BY <1>1, <1>2, <1>11 DEF Working, GroupAt, Loop
  <2>3. request[c][t].op # "ADD" => Replaceable(c)'
    BY <1>1, <1>2, <1>5, <1>6, <1>11 DEF Working, Replaceable, Descending, Harmless
  <2>4. \A q \in Peers(c) : Exchanged(c, t, q)'
    BY <1>1, <1>4, <1>5, <1>11 DEF Working, Exchanged, Asked, isTestCase4
  <2> QED BY <1>1, <1>3, <1>4, <1>11, <2>1, <2>2, <2>3, <2>4 DEF Working
<1> QED BY <1>1, <1>3, <1>7, <1>8, <1>9, <1>10, <1>11 DEF Led

\* A heartbeat arrives.
LEMMA HeartBeatStep ==
    ASSUME Inv, NEW p \in Proc, NEW q \in Proc \ {p}, HeartBeat(p, q)
    PROVE  Inv'
<1>1. p \in Live /\ q \in Live
  BY DEF HeartBeat, At, Live
<1>2. CASE \E l, m \in Proc : Election(l, m)
  BY <1>2, HeartBeatElection
<1>3. ~ Empty /\ ~ \E r \in Proc : First(r)
  BY <1>1 DEF Empty, First
<1>4. CASE \E c \in Proc : Led(c)
  <2>1. PICK c \in Proc : Led(c)
    BY <1>4
  <2>2. /\ heard' = [heard EXCEPT ![p] = @ \cup {q}]
        /\ UNCHANGED <<status, pc, request, todo, newViewId, leaderPeerId, requestCounter, viewId,
                       alivePeers, tcpClientMap, pendingRequest, leaderCrashed, listening,
                       backlog, chan, crashes, goneAt>>
    BY DEF HeartBeat, local, state, net
  <2>3. heard \in [Proc -> SUBSET Proc]
    BY DEF Inv, PeerTypes
  <2>4. /\ heard' \in [Proc -> SUBSET Proc] /\ heard'[p] = heard[p] \cup {q}
        /\ \A r \in Proc \ {p} : heard'[r] = heard[r]
    BY <2>2, <2>3
  <2>5. Types'
    BY <2>2 DEF Inv, Types
  <2>6. PeerTypes'
    BY <2>2, <2>4 DEF Inv, PeerTypes
  <2>7. /\ heard'[c] \cap Dead = heard[c] \cap Dead
        /\ \A r \in Proc : /\ \A s \in heard'[r] : s \in heard[r] \/ s \in Live
                           /\ \A s \in heard[r] : s \in heard'[r] \/ s \in Dead
    BY <1>1, <2>4 DEF Dead
  <2>8. \A r \in Proc : r \notin Live => heard'[r] = heard[r]
    BY <1>1, <2>4
  <2>9. History'
    BY <2>2, <2>7, <2>8, SameHistory
  <2>10. Led(c)'
    BY <2>1, <2>2, <2>4, <2>7, HeardStep
  <2> QED BY <2>5, <2>6, <2>9, <2>10 DEF Inv, Phase
<1> QED BY <1>2, <1>3, <1>4 DEF Inv, Phase

\* The failure of a follower is reported to the leader, which begins a DEL.
LEMMA FailureLeader ==
    ASSUME Inv, NEW p \in Proc, NEW x \in Proc \ {p}, handlePeerFailure(p, x), Led(p)
    PROVE  Inv'
<1>1. /\ x \in heard[p] /\ x \in Dead /\ p \in Live
      /\ pc[p]["detector"] = "watch"
  BY DEF handlePeerFailure, FirstUnreported, Unreported, At, Live, Dead, Inv, History
<1>2. Losing(p, x)
  <2>1. ~ heard[p] \subseteq Live
    BY <1>1 DEF Dead
  <2>2. PICK y \in Proc : Losing(p, y)
    BY <2>1 DEF Led, Idle, Joining, Working, Role
  <2>3. x = y
    BY <1>1, <2>2 DEF Losing
  <2> QED BY <2>2, <2>3
<1> DEFINE del == [type |-> "REQUEST", op |-> "DEL", peer |-> x, id |-> requestCounter[p] + 1]
<1>3. leaderPeerId[p] = p
  BY <1>2 DEF Losing, Resting
<1>4. /\ heard' = [heard EXCEPT ![p] = @ \ {x}]
      /\ requestCounter' = [requestCounter EXCEPT ![p] = @ + 1]
      /\ request' = [request EXCEPT ![p]["detector"] = del]
      /\ pc' = [pc EXCEPT ![p]["detector"] = "modify"]
      /\ UNCHANGED <<todo, newViewId, leaderPeerId, viewId, alivePeers, tcpClientMap,
                     pendingRequest, leaderCrashed, listening, backlog, chan,
                     status, crashes, goneAt>>
  BY <1>3 DEF handlePeerFailure, createRequestMsg, Goto, net
<1>5. /\ heard \in [Proc -> SUBSET Proc] /\ requestCounter \in [Proc -> Nat]
      /\ request \in [Proc -> [Thread -> Request]] /\ pc \in [Proc -> [Thread -> Label]]
      /\ "main" \in Thread /\ "detector" \in Thread /\ "modify" \in Label
  BY DEF Inv, Types, PeerTypes, Thread, Label, Ops
<1>6. del \in Request
  <2>1. x \in 0..N /\ requestCounter[p] + 1 \in Nat
    BY <1>5, NAssumption DEF Proc
  <2> QED BY <2>1 DEF Request
<1>7. /\ heard'[p] = heard[p] \ {x} /\ \A r \in Proc \ {p} : heard'[r] = heard[r]
      /\ request'[p]["detector"] = del
      /\ pc'[p]["detector"] = "modify" /\ pc'[p]["main"] = pc[p]["main"]
      /\ \A r \in Proc \ {p} : pc'[r] = pc[r]
  BY <1>4, <1>5
<1>8. /\ heard' \in [Proc -> SUBSET Proc] /\ requestCounter' \in [Proc -> Nat]
      /\ request' \in [Proc -> [Thread -> Request]] /\ pc' \in [Proc -> [Thread -> Label]]
  BY <1>4, <1>5, <1>6
<1>9. Types'
  BY <1>4, <1>8 DEF Inv, Types
<1>10. PeerTypes'
  BY <1>4, <1>7, <1>8 DEF Inv, PeerTypes
<1>11. History'
  <2>1. /\ UNCHANGED <<status, crashes, goneAt>>
        /\ \A r \in Proc : r \notin Live => heard'[r] = heard[r] /\ pc'[r] = pc[r]
        /\ \A r \in Proc : \A q \in heard'[r] : q \in heard[r] \/ q \in Live
    BY <1>1, <1>4, <1>7
  <2> QED BY <1>4, <2>1, SameHistory
<1>12. Live' = Live /\ Dead' = Dead /\ Peers(p)' = Peers(p) /\ MayDiffer' = MayDiffer
  BY <1>4 DEF Live, Dead, Peers, MayDiffer
<1>13. \A q : getGroupMembers(q)' = getGroupMembers(q)
  BY <1>4 DEF getGroupMembers
<1>14. \A q \in Peers(p) : /\ q \in Proc \ {p} /\ Following(q, p)' /\ UpToDate(q, p)'
  <2>1. \A q \in Peers(p) : q \in Proc \ {p} /\ Following(q, p) /\ UpToDate(q, p)
    BY <1>2 DEF Losing, Peers, Live
  <2>2. \A q \in Peers(p) : Following(q, p)'
    BY <1>4, <1>7, <2>1 DEF Following
  <2>3. \A q \in Peers(p) : UpToDate(q, p)'
    BY <1>4, <1>13, <2>1 DEF UpToDate, Quiet
  <2> QED BY <2>1, <2>2, <2>3
<1>15. Role(p, "detector")'
  <2>1. heard'[p] \subseteq Live
    BY <1>2, <1>5, <1>7 DEF Losing, Dead
  <2>2. backlog'[p] = <<>> /\ Connected(p, Live)'
    BY <1>2, <1>4, <1>12 DEF Losing, Connected
  <2>3. pc'[p]["main"] = "accept" /\ leaderPeerId'[p] = p /\ listening'[p]
    BY <1>2, <1>4, <1>7 DEF Losing, Resting
  <2>4. request'[p]["detector"].op = "DEL" /\ request'[p]["detector"].peer \in Dead'
    BY <1>1, <1>7, <1>12
  <2> QED BY <1>7, <1>12, <2>1, <2>2, <2>3, <2>4 DEF Role, Ops
<1>16. GroupAt(p, "detector")'
  BY <1>2, <1>7, <1>12, <1>13 DEF GroupAt, Losing
<1>17. Loop(p, "detector")'
  BY <1>7 DEF Loop
<1>18. Replaceable(p)'
  <2>1. HeardAll'
    <3>1. x \notin Live
      BY <1>1 DEF Dead
    <3> QED BY <1>2, <1>7, <1>12, <3>1 DEF Losing, HeardAll, Live
  <2>2. \A q \in Peers(p)' : Eff(q, p)' = viewId'[p]
    BY <1>12, <1>14 DEF UpToDate, Quiet, Eff
  <2>3. Descending(Peers(p), p)'
    <3>1. viewId'[p] \in Nat
      BY <1>9 DEF Types
    <3> QED BY <2>2, <3>1 DEF Descending
  <2>4. \A q \in Peers(p)' : Live' \subseteq getGroupMembers(q)' /\ Harmless(pendingRequest[q])'
    BY <1>2, <1>12, <1>13, <1>14 DEF UpToDate, Harmless, Dummy, Losing
  <2> QED BY <2>1, <2>3, <2>4 DEF Replaceable
<1>19. \A q \in Peers(p)' : Exchanged(p, "detector", q)'
  BY <1>7, <1>12, <1>14 DEF Exchanged, UpToDate
<1>20. Working(p, "detector")'
  BY <1>7, <1>12, <1>14, <1>15, <1>16, <1>17, <1>18, <1>19 DEF Working, Before
<1>21. Private(p)'
  BY <1>4, <1>12 DEF Led, Private
<1>22. \A q, r \in Peers(p)' : Agree(q, r)'
  BY <1>12, <1>14 DEF UpToDate, Agree
<1>23. Led(p)'
  BY <1>1, <1>4, <1>5, <1>12, <1>20, <1>21, <1>22 DEF Led
<1> QED BY <1>9, <1>10, <1>11, <1>23 DEF Inv, Phase

\* A failure is reported.
LEMMA FailureStep ==
    ASSUME Inv, NEW p \in Proc, NEW x \in Proc \ {p}, handlePeerFailure(p, x)
    PROVE  Inv'
<1>1. /\ x \in heard[p] /\ x \in Dead /\ p \in Live
  BY DEF handlePeerFailure, FirstUnreported, Unreported, At, Live, Dead, Inv, History
<1>2. CASE \E l, m \in Proc : Election(l, m)
  BY <1>2, FailureElection
<1>3. ~ Empty /\ ~ \E r \in Proc : First(r)
  BY <1>1 DEF Empty, First
<1>4. CASE \E c \in Proc : Led(c)
  <2>1. PICK c \in Proc : Led(c)
    BY <1>4
  <2>2. CASE p = c
    BY <2>1, <2>2, FailureLeader
  <2>3. CASE p # c
    <3>1. ~ heard[p] \subseteq Live /\ p \in Peers(c)
      BY <1>1, <2>3 DEF Dead, Peers
    <3>2. Following(p, c)
      <4>1. \A j \in Proc : Joining(c, j) => Following(p, c)
        BY <3>1 DEF Joining
      <4> QED BY <2>1, <3>1, <4>1 DEF Led, Idle, Losing, Working
    <3>3. leaderPeerId[p] = c /\ c # x /\ c \in Live
      BY <1>1, <2>1, <3>2 DEF Following, Led, Dead
    <3>4. /\ heard' = [heard EXCEPT ![p] = @ \ {x}]
          /\ leaderCrashed' = [leaderCrashed EXCEPT ![p] = @ \/ x = leaderPeerId[p]]
          /\ UNCHANGED <<status, pc, request, todo, newViewId, leaderPeerId, requestCounter, viewId,
                         alivePeers, tcpClientMap, pendingRequest, listening,
                         backlog, chan, crashes, goneAt>>
      BY <2>3, <3>3 DEF handlePeerFailure, net
    <3>5. heard \in [Proc -> SUBSET Proc] /\ leaderCrashed \in [Proc -> BOOLEAN]
      BY DEF Inv, Types, PeerTypes
    <3>6. leaderCrashed' = leaderCrashed
      <4>1. (leaderCrashed[p] \/ x = leaderPeerId[p]) = leaderCrashed[p]
        BY <3>3, <3>5
      <4>2. leaderCrashed' = [leaderCrashed EXCEPT ![p] = leaderCrashed[p]]
        BY <3>4, <4>1
      <4> QED BY <3>5, <4>2
    <3>7. /\ heard' \in [Proc -> SUBSET Proc] /\ heard'[p] = heard[p] \ {x}
          /\ \A r \in Proc \ {p} : heard'[r] = heard[r]
      BY <3>4, <3>5
    <3>8. Types'
      <4>1. Types
        BY DEF Inv
      <4>2. chan' = [a \in Proc |-> [b \in Proc |-> chan'[a][b]]]
        BY <3>4, <4>1, Zenon DEF Types
      <4> QED BY <3>4, <3>6, <4>1, <4>2 DEF Types
    <3>9. PeerTypes'
      BY <3>4, <3>7 DEF Inv, PeerTypes
    <3>10. /\ heard'[c] \cap Dead = heard[c] \cap Dead
           /\ \A r \in Proc : /\ \A s \in heard'[r] : s \in heard[r] \/ s \in Live
                              /\ \A s \in heard[r] : s \in heard'[r] \/ s \in Dead
      BY <1>1, <2>3, <3>7
    <3>11. \A r \in Proc : r \notin Live => heard'[r] = heard[r]
      BY <1>1, <3>7
    <3>12. History'
      BY <3>4, <3>6, <3>10, <3>11, SameHistory
    <3>13. Led(c)'
      BY <2>1, <3>4, <3>6, <3>7, <3>10, HeardStep
    <3> QED BY <3>8, <3>9, <3>12, <3>13 DEF Inv, Phase
  <2> QED BY <2>2, <2>3
<1> QED BY <1>2, <1>3, <1>4 DEF Inv, Phase

\* One connection attempt of findLeader.
LEMMA TryHostStep ==
    ASSUME Inv, NEW p \in Proc, TryHost(p)
    PROVE  Inv'
<1>1. /\ p \in Live /\ pc[p]["main"] = "findLeader" /\ todo[p]["main"] # {}
      /\ "main" \in Thread /\ "detector" \in Thread
  BY DEF TryHost, At, Live, Thread
<1> DEFINE q == Next1(p, "main")
<1>2. /\ todo \in [Proc -> [Thread -> SUBSET Proc]] /\ pc \in [Proc -> [Thread -> Label]]
      /\ leaderPeerId \in [Proc -> Proc] /\ backlog \in [Proc -> Seq(Proc)]
      /\ tcpClientMap \in [Proc -> SUBSET Proc] /\ "follow" \in Label
  BY DEF Inv, Types, PeerTypes, Label
<1>3. q \in todo[p]["main"] /\ q \in Proc
  <2>1. todo[p]["main"] \in SUBSET Proc
    BY <1>1, <1>2
  <2> QED BY <1>1, <2>1, MinLowest DEF Next1
<1>4. UNCHANGED <<request, newViewId, requestCounter, viewId, alivePeers, pendingRequest,
                  leaderCrashed, listening, chan, status, heard, crashes, goneAt>>
  BY DEF TryHost, world
<1>5. Live' = Live /\ Dead' = Dead /\ MayDiffer' = MayDiffer
      /\ (\A r : Peers(r)' = Peers(r)) /\ (\A r : getGroupMembers(r)' = getGroupMembers(r))
  BY <1>4 DEF Live, Dead, Peers, MayDiffer, getGroupMembers
<1>6. \A r, s : Agree(r, s)' = Agree(r, s)
  BY <1>4, <1>5 DEF Agree
<1>7. CASE ~ (status[q] = "up" /\ listening[q])
  <2>1. /\ todo' = [todo EXCEPT ![p]["main"] = todo[p]["main"] \ {q}]
        /\ UNCHANGED <<leaderPeerId, tcpClientMap, backlog, pc>>
    BY <1>7 DEF TryHost, Visited, Visit
  <2>2. /\ todo' \in [Proc -> [Thread -> SUBSET Proc]]
        /\ todo'[p]["main"] = todo[p]["main"] \ {q}
    BY <1>1, <1>2, <2>1
  <2>3. Types' /\ PeerTypes'
    BY <1>4, <2>1, <2>2 DEF Inv, Types, PeerTypes
  <2>4. History'
    BY <1>4, <2>1, SameHistory
  <2>5. CASE First(p)
    <3>1. First(p)'
      BY <1>4, <1>5, <2>1, <2>2, <2>5 DEF First
    <3> QED BY <2>3, <2>4, <3>1 DEF Inv, Phase
  <2>6. ASSUME NEW c \in Proc, Led(c), Joining(c, p), backlog[c] = <<>>,
               c \in todo[p]["main"], p \notin todo[p]["main"]
        PROVE  Inv'
    <3>1. c # q /\ c \in todo'[p]["main"] /\ p \notin todo'[p]["main"]
      BY <1>7, <2>2, <2>6 DEF Led, Joining, Resting, Live
    <3>2. \A r \in Proc : /\ Following(r, c)' = Following(r, c)
                          /\ UpToDate(r, c)' = UpToDate(r, c) /\ Quiet(c, r)' = Quiet(c, r)
      BY <1>4, <1>5, <2>1 DEF Following, UpToDate, Quiet
    <3>3. Resting(c)' /\ Connected(c, Live \ {p})'
      BY <1>4, <1>5, <2>1, <2>6 DEF Joining, Resting, Connected
    <3>4. pc[p]["main"] = "findLeader" /\ pc[p]["detector"] = "watch"
          /\ heard[p] \subseteq Live /\ ~ leaderCrashed[p] /\ ~ listening[p]
          /\ backlog[p] = <<>>
      BY <1>1, <2>6 DEF Joining, Following
    <3>5. Joining(c, p)'
      <4>1. \A r \in Peers(c) \ {p} : Following(r, c)' /\ UpToDate(r, c)'
        BY <2>6, <3>2 DEF Joining, Peers, Live
      <4> QED BY <1>4, <1>5, <2>1, <2>6, <3>1, <3>2, <3>3, <3>4, <4>1 DEF Joining
    <3>6. Private(c)'
      BY <1>4, <1>5, <2>6 DEF Led, Private
    <3>7. Led(c)'
      BY <1>4, <1>5, <1>6, <2>6, <3>5, <3>6 DEF Led
    <3> QED BY <2>3, <2>4, <3>7 DEF Inv, Phase
  <2> QED BY <1>1, <2>5, <2>6, Searching
<1>8. CASE status[q] = "up" /\ listening[q]
  <2>1. /\ leaderPeerId' = [leaderPeerId EXCEPT ![p] = q]
        /\ tcpClientMap' = [tcpClientMap EXCEPT ![p] = @ \cup {q}]
        /\ backlog' = [backlog EXCEPT ![q] = Append(@, p)]
        /\ pc' = [pc EXCEPT ![p]["main"] = "follow"]
        /\ UNCHANGED todo
    BY <1>8 DEF TryHost, Goto
  <2>2. q \in Live
    BY <1>3, <1>8 DEF Live
  <2>3. PICK c \in Proc : /\ Led(c) /\ Joining(c, p) /\ backlog[c] = <<>>
                          /\ c \in todo[p]["main"] /\ p \notin todo[p]["main"]
    <3>1. ~ First(p)
      BY <1>3, <2>2 DEF First
    <3> QED BY <1>1, <3>1, Searching
  <2>4. q = c /\ p # c
    <3>1. q # p
      BY <1>3, <2>3
    <3>2. \A r \in Peers(c) \ {p} : ~ listening[r]
      BY <2>3 DEF Joining, Following
    <3> QED BY <1>8, <2>2, <2>3, <3>1, <3>2 DEF Peers
  <2>5. /\ leaderPeerId'[p] = c /\ tcpClientMap'[p] = tcpClientMap[p] \cup {c}
        /\ backlog'[c] = <<p>>
        /\ pc'[p]["main"] = "follow" /\ pc'[p]["detector"] = pc[p]["detector"]
        /\ \A r \in Proc \ {p} : /\ leaderPeerId'[r] = leaderPeerId[r] /\ pc'[r] = pc[r]
                                 /\ tcpClientMap'[r] = tcpClientMap[r]
        /\ \A r \in Proc \ {c} : backlog'[r] = backlog[r]
    <3>1. Append(backlog[c], p) = <<p>>
      BY <2>3, OneMessage
    <3> QED BY <1>1, <1>2, <2>1, <2>4, <3>1
  <2>6. /\ leaderPeerId' \in [Proc -> Proc] /\ tcpClientMap' \in [Proc -> SUBSET Proc]
        /\ backlog' \in [Proc -> Seq(Proc)] /\ pc' \in [Proc -> [Thread -> Label]]
    BY <1>1, <1>2, <1>3, <2>1
  <2>7. Types'
    <3>1. UNCHANGED <<request, todo, newViewId, requestCounter, viewId, pendingRequest,
                      leaderCrashed, listening, chan, status, crashes, goneAt>>
      BY <1>4, <2>1
    <3> QED BY <2>6, <3>1 DEF Inv, Types
  <2>8. PeerTypes'
    BY <1>4, <2>4, <2>5, <2>6 DEF Inv, PeerTypes
  <2>9. c \in Live
    BY <2>3 DEF Led
  <2>10. History'
    BY <1>1, <1>4, <2>5, <2>9, SameHistory
  <2>11. /\ pc[p]["main"] = "findLeader" /\ pc[p]["detector"] = "watch"
         /\ heard[p] \subseteq Live /\ ~ leaderCrashed[p] /\ ~ listening[p]
         /\ backlog[p] = <<>>
    BY <1>1, <2>3 DEF Joining, Following
  <2>12. Following(p, c)'
    BY <1>4, <2>4, <2>5, <2>11 DEF Following
  <2>13. \A r \in Peers(c) \ {p} : Following(r, c)' /\ UpToDate(r, c)'
    <3>1. TAKE r \in Peers(c) \ {p}
    <3>2. r \in Proc /\ r # p /\ r # c /\ Following(r, c) /\ UpToDate(r, c)
      BY <2>3 DEF Joining, Peers, Live
    <3>3. Following(r, c)'
      BY <1>4, <2>5, <3>2 DEF Following
    <3>4. UpToDate(r, c)'
      BY <1>4, <1>5, <3>2 DEF UpToDate, Quiet
    <3> QED BY <3>3, <3>4
  <2>14. Resting(c)' /\ Connected(c, Live \ {p})' /\ Quiet(c, p)'
    BY <1>4, <1>5, <2>3, <2>4, <2>5 DEF Joining, Resting, Connected, Quiet
  <2>15. Joining(c, p)'
    BY <1>4, <1>5, <2>3, <2>5, <2>12, <2>13, <2>14 DEF Joining
  <2>16. Private(c)'
    BY <1>4, <1>5, <2>3 DEF Led, Private
  <2>17. Led(c)'
    BY <1>4, <1>5, <1>6, <2>3, <2>15, <2>16 DEF Led
  <2> QED BY <2>7, <2>8, <2>10, <2>17 DEF Inv, Phase
<1> QED BY <1>7, <1>8

\* Nobody answered: the first process leads.
LEMMA NoLeaderFoundStep ==
    ASSUME Inv, NEW p \in Proc, NoLeaderFound(p)
    PROVE  Inv'
<1>1. p \in Live /\ pc[p]["main"] = "findLeader" /\ todo[p]["main"] = {} /\ "accept" \in Label
  BY DEF NoLeaderFound, At, Live, Label
<1>2. First(p)
  BY <1>1, Searching
<1>3. /\ leaderPeerId' = [leaderPeerId EXCEPT ![p] = p]
      /\ listening' = [listening EXCEPT ![p] = TRUE]
      /\ Goto(p, "main", "accept")
      /\ UNCHANGED <<request, todo, newViewId, requestCounter, viewId, alivePeers, tcpClientMap,
                     pendingRequest, leaderCrashed, backlog, chan, status, heard, crashes, goneAt>>
  BY DEF NoLeaderFound, local, net, world
<1>4. leaderPeerId \in [Proc -> Proc] /\ listening \in [Proc -> BOOLEAN]
  BY DEF Inv, Types
<1>5. /\ leaderPeerId' \in [Proc -> Proc] /\ listening' \in [Proc -> BOOLEAN]
      /\ leaderPeerId'[p] = p /\ listening'[p]
      /\ \A r \in Proc \ {p} : listening'[r] = listening[r]
  BY <1>3, <1>4
<1>6. /\ pc' \in [Proc -> [Thread -> Label]]
      /\ pc'[p]["main"] = "accept" /\ pc'[p]["detector"] = pc[p]["detector"]
      /\ \A r \in Proc \ {p} : pc'[r] = pc[r]
  BY <1>1, <1>3, MainGoes
<1>7. Types' /\ PeerTypes'
  BY <1>3, <1>5, <1>6 DEF Inv, Types, PeerTypes
<1>8. History'
  BY <1>1, <1>3, <1>5, <1>6, SameHistory
<1>9. Live' = {p} /\ Peers(p)' = {}
  BY <1>2, <1>3 DEF First, Live, Peers
<1>10. Idle(p)'
  <2>1. Resting(p)'
    BY <1>2, <1>5, <1>6 DEF First, Resting
  <2>2. getGroupMembers(p)' = Live'
    BY <1>2, <1>3, <1>9 DEF First, getGroupMembers
  <2>3. Connected(p, Live)'
    BY <1>9 DEF Connected
  <2> QED BY <1>2, <1>3, <1>9, <2>1, <2>2, <2>3 DEF First, Idle
<1>11. Private(p)'
  BY <1>2, <1>3, <1>9 DEF First, Private
<1>12. Led(p)'
  BY <1>9, <1>10, <1>11 DEF Led
<1> QED BY <1>7, <1>8, <1>12 DEF Inv, Phase

\* The leader accepts a connection and begins an ADD.
LEMMA StartAsLeaderStep ==
    ASSUME Inv, NEW p \in Proc, startAsLeader(p)
    PROVE  Inv'
<1>1. /\ p \in Live /\ pc[p]["main"] = "accept" /\ backlog[p] # <<>>
      /\ "main" \in Thread /\ "detector" \in Thread /\ "modify" \in Label
  BY DEF startAsLeader, At, Live, Thread, Label, Ops
<1>2. PICK j \in Proc : Led(p) /\ Joining(p, j) /\ backlog[p] = <<j>> /\ Following(j, p)
  <2>1. ~ Empty /\ ~ \E q \in Proc : First(q)
    BY <1>1 DEF Empty, First
  <2>2. \A l, m \in Proc : ~ Election(l, m)
    <3> SUFFICES ASSUME NEW l \in Proc, NEW m \in Proc, Election(l, m) PROVE FALSE
      OBVIOUS
    <3> QED BY <1>1, Place DEF Leaderless, Waiting, Called, Following
  <2>3. PICK c \in Proc : Led(c)
    BY <2>1, <2>2 DEF Inv, Phase
  <2>4. c = p
    <3> SUFFICES ASSUME c # p PROVE FALSE
      OBVIOUS
    <3>1. p \in Peers(c) /\ ~ Following(p, c)
      BY <1>1 DEF Peers, Following
    <3>2. PICK j \in Proc : Joining(c, j)
      BY <2>3, <3>1 DEF Led, Idle, Losing, Working
    <3> QED BY <1>1, <3>1, <3>2 DEF Joining, Following
  <2>5. PICK j \in Proc : Joining(p, j)
    BY <1>1, <2>3, <2>4 DEF Led, Idle, Losing, Working, Role
  <2> QED BY <1>1, <2>3, <2>4, <2>5 DEF Joining
<1> DEFINE add == [type |-> "REQUEST", op |-> "ADD", peer |-> j, id |-> requestCounter[p] + 1]
<1>3. Head(backlog[p]) = j /\ Tail(backlog[p]) = <<>>
  BY <1>2, OneMessage
<1>4. /\ tcpClientMap' = [tcpClientMap EXCEPT ![p] = @ \cup {j}]
      /\ backlog' = [backlog EXCEPT ![p] = <<>>]
      /\ requestCounter' = [requestCounter EXCEPT ![p] = @ + 1]
      /\ request' = [request EXCEPT ![p]["main"] = add]
      /\ Goto(p, "main", "modify")
      /\ UNCHANGED <<todo, newViewId, leaderPeerId, viewId, alivePeers, pendingRequest,
                     leaderCrashed, listening, chan, status, heard, crashes, goneAt>>
  BY <1>3 DEF startAsLeader, createRequestMsg, world
<1>5. /\ tcpClientMap \in [Proc -> SUBSET Proc] /\ backlog \in [Proc -> Seq(Proc)]
      /\ requestCounter \in [Proc -> Nat] /\ request \in [Proc -> [Thread -> Request]]
  BY DEF Inv, Types, PeerTypes
<1>6. add \in Request
  <2>1. j \in 0..N /\ requestCounter[p] + 1 \in Nat
    BY <1>5, NAssumption DEF Proc
  <2> QED BY <2>1 DEF Request
<1>7. /\ tcpClientMap' \in [Proc -> SUBSET Proc] /\ backlog' \in [Proc -> Seq(Proc)]
      /\ requestCounter' \in [Proc -> Nat] /\ request' \in [Proc -> [Thread -> Request]]
  BY <1>1, <1>4, <1>5, <1>6
<1>8. /\ tcpClientMap'[p] = tcpClientMap[p] \cup {j} /\ backlog'[p] = <<>>
      /\ request'[p]["main"] = add
      /\ \A r \in Proc \ {p} : tcpClientMap'[r] = tcpClientMap[r] /\ backlog'[r] = backlog[r]
  BY <1>1, <1>4, <1>5
<1>9. /\ pc' \in [Proc -> [Thread -> Label]]
      /\ pc'[p]["main"] = "modify" /\ pc'[p]["detector"] = pc[p]["detector"]
      /\ \A r \in Proc \ {p} : pc'[r] = pc[r]
  BY <1>1, <1>4, MainGoes
<1>10. j \in Peers(p) /\ j # p
  BY <1>2 DEF Joining, Peers
<1>11. UNCHANGED <<todo, newViewId, leaderPeerId, viewId, alivePeers, pendingRequest,
                   leaderCrashed, listening, chan, status, heard, crashes, goneAt>>
  BY <1>4
<1>12. Types'
  BY <1>7, <1>9, <1>11 DEF Inv, Types
<1>13. PeerTypes'
  BY <1>7, <1>8, <1>10, <1>11 DEF Inv, PeerTypes
<1>14. History'
  BY <1>1, <1>8, <1>9, <1>11, SameHistory
<1>15. /\ Live' = Live /\ Dead' = Dead /\ Peers(p)' = Peers(p) /\ MayDiffer' = MayDiffer
       /\ \A q : getGroupMembers(q)' = getGroupMembers(q)
  BY <1>11 DEF Live, Dead, Peers, MayDiffer, getGroupMembers
<1>16. /\ Resting(p) /\ heard[p] \subseteq Live
       /\ getGroupMembers(p) = Live \ {j} /\ Connected(p, Live \ {j})
       /\ \A q \in Peers(p) : q \in Proc \ {p} /\ Following(q, p) /\ Quiet(p, q)
  BY <1>2 DEF Joining, UpToDate, Peers, Live
<1>17. Role(p, "main")'
  <2>1. Connected(p, Live)'
    BY <1>8, <1>15, <1>16 DEF Connected
  <2>2. pc'[p]["detector"] = "watch" /\ leaderPeerId'[p] = p /\ listening'[p]
    BY <1>9, <1>11, <1>16 DEF Resting
  <2> QED BY <1>8, <1>9, <1>10, <1>11, <1>15, <1>16, <2>1, <2>2 DEF Role, Ops
<1>18. GroupAt(p, "main")'
  BY <1>8, <1>9, <1>15, <1>16 DEF GroupAt, Before
<1>19. Loop(p, "main")'
  BY <1>9 DEF Loop
<1>20. \A q \in Peers(p) : Following(q, p)' /\ Exchanged(p, "main", q)'
  <2>1. TAKE q \in Peers(p)
  <2>2. q \in Proc \ {p} /\ Following(q, p) /\ Quiet(p, q)
    BY <1>16
  <2>3. Following(q, p)'
    BY <1>8, <1>9, <1>11, <2>2 DEF Following
  <2>4. Exchanged(p, "main", q)'
    BY <1>9, <1>11, <2>2 DEF Exchanged, Quiet
  <2> QED BY <2>3, <2>4
<1>21. Working(p, "main")'
  BY <1>8, <1>9, <1>15, <1>17, <1>18, <1>19, <1>20 DEF Working, Before
<1>22. Private(p)'
  BY <1>2, <1>11, <1>15 DEF Led, Private
<1>23. \A q, r : Agree(q, r)' = Agree(q, r)
  BY <1>11, <1>15 DEF Agree
<1>24. Led(p)'
  BY <1>1, <1>2, <1>11, <1>15, <1>21, <1>22, <1>23 DEF Led
<1> QED BY <1>12, <1>13, <1>14, <1>24 DEF Inv, Phase

\* Nothing happens.
LEMMA Stutter ==
    ASSUME Inv, UNCHANGED vars
    PROVE  Inv'
<1>1. UNCHANGED <<status, pc, request, todo, newViewId, leaderPeerId, requestCounter, viewId,
                  alivePeers, tcpClientMap, pendingRequest, leaderCrashed, listening,
                  backlog, chan, heard, crashes, goneAt>>
  BY DEF vars, local, state, net, world
<1>2. Types' /\ PeerTypes'
  BY <1>1 DEF Inv, Types, PeerTypes
<1>3. History'
  BY <1>1, SameHistory
<1>4. Live' = Live /\ Dead' = Dead
  BY <1>1 DEF Live, Dead
<1>5. CASE Empty
  BY <1>2, <1>3, <1>4, <1>5 DEF Empty, Inv, Phase
<1>6. ASSUME NEW p \in Proc, First(p) PROVE Inv'
  <2>1. First(p)'
    BY <1>1, <1>4, <1>6 DEF First
  <2> QED BY <1>2, <1>3, <2>1 DEF Inv, Phase
<1>7. ASSUME NEW c \in Proc, Led(c) PROVE Inv'
  <2>1. heard' \in [Proc -> SUBSET Proc]
    BY <1>2 DEF PeerTypes
  <2>2. Led(c)'
    BY <1>1, <1>7, <2>1, HeardStep
  <2> QED BY <1>2, <1>3, <2>2 DEF Inv, Phase
<1>8. ASSUME NEW l \in Proc, NEW m \in Proc, Election(l, m) PROVE Inv'
  <2>1. m \in Live /\ m \in Proc
    BY <1>8 DEF Election
  <2>2. Elector(m, l)' = Elector(m, l) /\ Leaderless(m, l)' = Leaderless(m, l)
        /\ Waiting(m, l)' = Waiting(m, l) /\ Called(m, l, m)' = Called(m, l, m)
        /\ Following(m, m)' = Following(m, m) /\ Eff(m, l)' = Eff(m, l)
    BY <1>1, SameElector
  <2>3. Elector(m, l) /\ Live \ {m} \subseteq heard'[m]
    BY <1>1, <1>8, <2>1 DEF Election, HeardAll
  <2>4. \/ Vacant(l, m) /\ Leaderless(m, l)'
        \/ Taking(l, m)
    BY <1>8, <2>2 DEF Election, Vacant
  <2> QED BY <1>1, <1>2, <1>8, <2>1, <2>2, <2>3, <2>4, ElectionStep
<1> QED BY <1>5, <1>6, <1>7, <1>8 DEF Inv, Phase

\* A follower takes a request ...
LEMMA RequestTaken ==
    ASSUME NEW p, NEW l, startAsFollower(p), leaderPeerId[p] = l,
           NEW msg, chan[l][p] = <<msg>>, msg.type = "REQUEST"
    PROVE  /\ processRequestMsg(p, l, msg)
           /\ UNCHANGED <<pc, request, todo, newViewId, leaderPeerId, requestCounter, tcpClientMap,
                          leaderCrashed, listening, backlog>>
<1>1. /\ chan[l][p] = <<msg>> /\ Head(chan[l][p]) = msg /\ Tail(chan[l][p]) = <<>>
      /\ Recv(p, l) = {1}
  BY OneMessage DEF Recv
<1>2. PICK n \in Recv(p, l) \ {0} :
           CASE Deserialized(p, l, n, "REQUEST") -> processRequestMsg(p, l, Head(chan[l][p]))
             [] Deserialized(p, l, n, "NEW_VIEW") -> processNewViewMsg(p, l, Head(chan[l][p]))
             [] OTHER -> /\ Gone(p, "aborted")
                         /\ UNCHANGED <<viewId, alivePeers, pendingRequest, chan>>
  BY DEF startAsFollower
<1>3. Deserialized(p, l, n, "REQUEST") /\ ~ Deserialized(p, l, n, "NEW_VIEW")
  BY <1>1, <1>2 DEF Deserialized
<1>4. processRequestMsg(p, l, msg)
  BY <1>1, <1>2, <1>3
<1>5. UNCHANGED <<pc, request, todo, newViewId, leaderPeerId, requestCounter, tcpClientMap,
                  leaderCrashed, listening, backlog>>
  BY DEF startAsFollower, local
<1> QED BY <1>4, <1>5

\* ... or the new view.
LEMMA ViewTaken ==
    ASSUME NEW p, NEW l, startAsFollower(p), leaderPeerId[p] = l,
           NEW msg, chan[l][p] = <<msg>>, msg.type = "NEW_VIEW"
    PROVE  /\ processNewViewMsg(p, l, msg)
           /\ UNCHANGED <<pc, request, todo, newViewId, leaderPeerId, requestCounter, tcpClientMap,
                          leaderCrashed, listening, backlog>>
<1>1. /\ chan[l][p] = <<msg>> /\ Head(chan[l][p]) = msg /\ Tail(chan[l][p]) = <<>>
      /\ Recv(p, l) = {1}
  BY OneMessage DEF Recv
<1>2. PICK n \in Recv(p, l) \ {0} :
           CASE Deserialized(p, l, n, "REQUEST") -> processRequestMsg(p, l, Head(chan[l][p]))
             [] Deserialized(p, l, n, "NEW_VIEW") -> processNewViewMsg(p, l, Head(chan[l][p]))
             [] OTHER -> /\ Gone(p, "aborted")
                         /\ UNCHANGED <<viewId, alivePeers, pendingRequest, chan>>
  BY DEF startAsFollower
<1>3. Deserialized(p, l, n, "NEW_VIEW") /\ ~ Deserialized(p, l, n, "REQUEST")
  BY <1>1, <1>2 DEF Deserialized
<1>4. processNewViewMsg(p, l, msg)
  BY <1>1, <1>2, <1>3
<1>5. UNCHANGED <<pc, request, todo, newViewId, leaderPeerId, requestCounter, tcpClientMap,
                  leaderCrashed, listening, backlog>>
  BY DEF startAsFollower, local
<1> QED BY <1>4, <1>5

\* What a follower of a live leader may find.
LEMMA FollowState ==
    ASSUME Inv, NEW p \in Proc, startAsFollower(p), NEW c \in Proc, Led(c)
    PROVE  /\ p \in Peers(c) /\ p # c /\ p \in Live /\ c \in Live /\ Following(p, c)
           /\ \/ \E t \in Thread : /\ Working(c, t) /\ pc[c][t] \in {"request", "ok"}
                                   /\ Asked(p, c, t)
                                   /\ chan[c][p] = <<request[c][t]>> /\ chan[p][c] = <<>>
              \/ /\ ViewOnWay(p, c) /\ Agree(p, c)
                 /\ \/ Idle(c)
                    \/ \E t \in Thread : Working(c, t) /\ pc[c][t] = "view" /\ p \notin todo[c][t]
<1>1. p \in Live /\ pc[p]["main"] = "follow"
  BY DEF startAsFollower, At, Live
<1>2. chan[leaderPeerId[p]][p] # <<>>
  BY DEF startAsFollower, Recv
<1>3. p # c
  BY <1>1 DEF Led, Idle, Joining, Losing, Working, Role, Resting, Thread, Ops
<1>4. p \in Peers(c) /\ Following(p, c)
  BY <1>1, <1>3 DEF Led, Idle, Joining, Losing, Working, Peers
<1>5. chan[c][p] # <<>> /\ ~ Quiet(c, p) /\ ~ UpToDate(p, c)
  BY <1>2, <1>4 DEF Following, Quiet, UpToDate
<1>6. (\A j \in Proc : ~ Joining(c, j)) /\ (\A x \in Proc : ~ Losing(c, x))
  BY <1>4, <1>5 DEF Joining, Losing
<1>7. CASE Idle(c)
  BY <1>1, <1>3, <1>4, <1>5, <1>7 DEF Idle, Led
<1>8. ASSUME NEW t \in Thread, Working(c, t)
      PROVE  \/ /\ pc[c][t] \in {"request", "ok"} /\ Asked(p, c, t)
                /\ chan[c][p] = <<request[c][t]>> /\ chan[p][c] = <<>>
             \/ pc[c][t] = "view" /\ p \notin todo[c][t] /\ ViewOnWay(p, c) /\ Agree(p, c)
  <2>1. Exchanged(c, t, p) /\ pc[c][t] \in Ops /\ (pc[c][t] \notin Before => Agree(p, c))
    BY <1>4, <1>8 DEF Working, Role
  <2>2. Asked(p, c, t) => chan[c][p] = <<request[c][t]>> /\ chan[p][c] = <<>>
    BY <1>5 DEF Asked
  <2>3. CASE pc[c][t] = "request"
    BY <1>5, <2>1, <2>2, <2>3 DEF Exchanged
  <2>4. CASE pc[c][t] = "ok"
    BY <1>5, <2>1, <2>2, <2>4 DEF Exchanged
  <2>5. CASE pc[c][t] = "view"
    BY <1>5, <2>1, <2>5 DEF Exchanged, Before
  <2> QED BY <1>5, <2>1, <2>3, <2>4, <2>5 DEF Exchanged, Ops
<1> QED BY <1>1, <1>3, <1>4, <1>6, <1>7, <1>8 DEF Led

\* A follower remembers the request of its leader and answers.
LEMMA FollowRequest ==
    ASSUME Inv, NEW p \in Proc, startAsFollower(p), NEW c \in Proc, Led(c),
           NEW t \in Thread, Working(c, t), pc[c][t] \in {"request", "ok"},
           chan[c][p] = <<request[c][t]>>, chan[p][c] = <<>>
    PROVE  Inv'
<1>1. p \in Peers(c) /\ p # c /\ p \in Live /\ c \in Live /\ Following(p, c)
  BY FollowState
<1>0. PICK msg : msg = request[c][t]
  OBVIOUS
<1>2. /\ pendingRequest \in [Proc -> Request]
      /\ chan = [a \in Proc |-> [b \in Proc |-> chan[a][b]]]
      /\ msg \in Request /\ msg.type = "REQUEST"
  <2>1. /\ pendingRequest \in [Proc -> Request] /\ request \in [Proc -> [Thread -> Request]]
        /\ chan = [a \in Proc |-> [b \in Proc |-> chan[a][b]]]
    BY DEF Inv, Types
  <2>2. msg \in Request
    BY <1>0, <2>1
  <2> QED BY <2>1, <2>2 DEF Request
<1>3. leaderPeerId[p] = c
  BY <1>1 DEF Following
<1>4. /\ pendingRequest' = [pendingRequest EXCEPT ![p] = msg]
      /\ chan' = [chan EXCEPT ![c][p] = <<>>, ![p][c] = Append(@, OkMsg(msg.id))]
      /\ UNCHANGED <<status, pc, request, todo, newViewId, leaderPeerId, requestCounter,
                     viewId, alivePeers, tcpClientMap, leaderCrashed, listening, backlog,
                     heard, crashes, goneAt>>
  <2>1. msg.type = "REQUEST" /\ chan[c][p] = <<msg>>
    BY <1>0, <1>2
  <2>2. /\ processRequestMsg(p, c, msg)
        /\ UNCHANGED <<pc, request, todo, newViewId, leaderPeerId, requestCounter, tcpClientMap,
                       leaderCrashed, listening, backlog>>
    BY <1>3, <2>1, RequestTaken
  <2>3. Tail(chan[c][p]) = <<>>
    BY <2>1, OneMessage
  <2> QED BY <2>2, <2>3 DEF processRequestMsg, world
<1>5. /\ pendingRequest' \in [Proc -> Request] /\ pendingRequest'[p] = msg
      /\ \A r \in Proc \ {p} : pendingRequest'[r] = pendingRequest[r]
  BY <1>2, <1>4
<1>6. /\ chan'[c][p] = <<>> /\ chan'[p][c] = <<OkMsg(msg.id)>>
      /\ \A a, b \in Proc : chan'[a][b] # chan[a][b] => (a = c /\ b = p) \/ (a = p /\ b = c)
      /\ chan' = [a \in Proc |-> [b \in Proc |-> chan'[a][b]]]
  <2>1. Append(chan[p][c], OkMsg(msg.id)) = <<OkMsg(msg.id)>>
    BY OneMessage
  <2>2. chan' = [chan EXCEPT ![c][p] = <<>>, ![p][c] = <<OkMsg(msg.id)>>]
    BY <1>1, <1>2, <1>4, <2>1
  <2> QED BY <1>1, <1>2, <2>2
<1>7. UNCHANGED <<status, pc, request, todo, newViewId, leaderPeerId, requestCounter,
                  viewId, alivePeers, tcpClientMap, leaderCrashed, listening, backlog,
                  heard, crashes, goneAt>>
  BY <1>4
<1>8. Types' /\ PeerTypes'
  <2>1. chan' = [a \in Proc |-> [b \in Proc |-> chan'[a][b]]] /\ pendingRequest' \in [Proc -> Request]
    BY <1>5, <1>6
  <2> QED BY <1>7, <2>1 DEF Inv, Types, PeerTypes
<1>9. History'
  <2>1. \A a, b \in Proc : status[a] = "down" \/ status[b] = "down" => chan'[a][b] = chan[a][b]
    BY <1>1, <1>6 DEF Live
  <2> QED BY <1>1, <1>5, <1>7, <2>1, SameHistory
<1>10. /\ Live' = Live /\ Dead' = Dead /\ Peers(c)' = Peers(c) /\ MayDiffer' = MayDiffer
       /\ \A q : getGroupMembers(q)' = getGroupMembers(q)
  BY <1>7 DEF Live, Dead, Peers, MayDiffer, getGroupMembers
<1>11. \A q, r : Agree(q, r)' = Agree(q, r)
  BY <1>7, <1>10 DEF Agree
<1>12. \A q \in Peers(c) \ {p} : /\ q \in Proc /\ q # c
                                 /\ chan'[c][q] = chan[c][q] /\ chan'[q][c] = chan[q][c]
  BY <1>1, <1>6 DEF Peers, Live
<1>13. Role(c, t)'
  BY <1>7, <1>10 DEF Working, Role, Connected
<1>14. GroupAt(c, t)' /\ Loop(c, t)'
  BY <1>7, <1>10 DEF Working, GroupAt, Loop
<1>15. request[c][t].op # "ADD" => Replaceable(c)'
  <2> SUFFICES ASSUME request[c][t].op # "ADD" PROVE Replaceable(c)'
    OBVIOUS
  <2>1. Replaceable(c)
    BY DEF Working
  <2>2. \A q \in Peers(c) : Eff(q, c)' = Eff(q, c)
    <3>1. Eff(p, c)' = Eff(p, c)
      <4>1. Eff(p, c) = viewId[p]
        BY <1>0, <1>2, OneMessage DEF Eff
      <4> QED BY <1>6, <1>7, <4>1 DEF Eff
    <3>2. \A q \in Peers(c) \ {p} : Eff(q, c)' = Eff(q, c)
      BY <1>7, <1>12 DEF Eff
    <3> QED BY <3>1, <3>2
  <2>3. Descending(Peers(c), c)'
    BY <1>10, <2>1, <2>2 DEF Replaceable, Descending
  <2>4. HeardAll'
    BY <1>7, <1>10, <2>1 DEF Replaceable, HeardAll
  <2>5. Harmless(pendingRequest[p])'
    <3>1. Harmless(msg)
      BY <1>0 DEF Working, Role, Harmless
    <3> QED BY <1>5, <1>10, <3>1 DEF Harmless
  <2>6. \A q \in Peers(c) : Live' \subseteq getGroupMembers(q)' /\ Harmless(pendingRequest[q])'
    BY <1>5, <1>10, <1>12, <2>1, <2>5 DEF Replaceable, Harmless
  <2> QED BY <1>10, <2>3, <2>4, <2>6 DEF Replaceable
<1>16. \A q \in Peers(c) : Following(q, c)'
  BY <1>7 DEF Working, Following
<1>17. \A q \in Peers(c) \ {p} : Exchanged(c, t, q)'
  <2>1. TAKE q \in Peers(c) \ {p}
  <2>2. Exchanged(c, t, q)
    BY DEF Working
  <2>3. Quiet(c, q)' = Quiet(c, q) /\ Asked(q, c, t)' = Asked(q, c, t)
    BY <1>7, <1>12 DEF Quiet, Asked
  <2> QED BY <1>7, <2>2, <2>3 DEF Exchanged, isTestCase4
<1>18. Exchanged(c, t, p)'
  <2>1. Asked(p, c, t)'
    BY <1>0, <1>6, <1>7 DEF Asked
  <2>2. ~ Quiet(c, p) /\ Exchanged(c, t, p)
    BY <1>1, OneMessage DEF Quiet, Working
  <2>3. /\ pc[c][t] = "request" => ~ (p \in todo[c][t] \/ p \notin alivePeers[c])
        /\ pc[c][t] = "ok" => p \in todo[c][t]
    BY <2>2 DEF Exchanged
  <2> QED BY <1>7, <2>1, <2>3 DEF Exchanged
<1>19. Working(c, t)'
  BY <1>7, <1>10, <1>13, <1>14, <1>15, <1>16, <1>17, <1>18 DEF Working, Before
<1>20. Private(c)'
  <2>1. Private(c)
    BY DEF Led
  <2> SUFFICES ASSUME NEW a \in Proc, NEW b \in Live, chan'[a][b] # <<>>
               PROVE  a # b /\ (a = c \/ (b = c /\ a \in Live))
    BY <1>10 DEF Private
  <2>2. CASE chan'[a][b] = chan[a][b]
    BY <2>1, <2>2 DEF Private
  <2>3. CASE chan'[a][b] # chan[a][b]
    BY <1>1, <1>6, <2>3 DEF Live
  <2> QED BY <2>2, <2>3
<1>21. Led(c)'
  BY <1>1, <1>7, <1>10, <1>11, <1>19, <1>20 DEF Led
<1> QED BY <1>8, <1>9, <1>21 DEF Inv, Phase

\* A follower installs the view of its leader.
LEMMA FollowView ==
    ASSUME Inv, NEW p \in Proc, startAsFollower(p), NEW c \in Proc, Led(c),
           ViewOnWay(p, c), Agree(p, c),
           \/ Idle(c)
           \/ \E t \in Thread : Working(c, t) /\ pc[c][t] = "view" /\ p \notin todo[c][t]
    PROVE  Inv'
<1>1. p \in Peers(c) /\ p # c /\ p \in Live /\ c \in Live /\ Following(p, c)
  BY FollowState
<1>0. PICK msg : msg = NewViewMsg(viewId[c], getGroupMembers(c))
  OBVIOUS
<1>2. /\ pendingRequest \in [Proc -> Request] /\ viewId \in [Proc -> Nat \ {0}]
      /\ alivePeers \in [Proc -> SUBSET Proc]
      /\ chan = [a \in Proc |-> [b \in Proc |-> chan[a][b]]]
      /\ Dummy \in Request
  <2>1. Dummy \in Request
    BY NAssumption DEF Request, Dummy
  <2> QED BY <2>1 DEF Inv, Types, PeerTypes
<1>3. /\ leaderPeerId[p] = c /\ chan[c][p] = <<msg>>
      /\ msg.type = "NEW_VIEW" /\ msg.id = viewId[c] /\ msg.members = getGroupMembers(c)
  BY <1>0, <1>1 DEF Following, ViewOnWay, NewViewMsg
<1>4. /\ viewId' = [viewId EXCEPT ![p] = viewId[c]]
      /\ alivePeers' = [alivePeers EXCEPT ![p] = getGroupMembers(c) \ {p}]
      /\ pendingRequest' = [pendingRequest EXCEPT ![p] = Dummy]
      /\ chan' = [chan EXCEPT ![c][p] = <<>>]
      /\ UNCHANGED <<status, pc, request, todo, newViewId, leaderPeerId, requestCounter,
                     tcpClientMap, leaderCrashed, listening, backlog,
                     heard, crashes, goneAt>>
  <2>1. /\ processNewViewMsg(p, c, msg)
        /\ UNCHANGED <<pc, request, todo, newViewId, leaderPeerId, requestCounter, tcpClientMap,
                       leaderCrashed, listening, backlog>>
    BY <1>3, ViewTaken
  <2>2. Tail(chan[c][p]) = <<>>
    BY <1>3, OneMessage
  <2> QED BY <1>3, <2>1, <2>2 DEF processNewViewMsg, Consume, world
<1>5. getGroupMembers(c) = Live /\ Live \subseteq Proc
  BY DEF Idle, Working, GroupAt, Before, Live
<1>6. /\ viewId' \in [Proc -> Nat \ {0}] /\ viewId'[p] = viewId[c]
      /\ alivePeers' \in [Proc -> SUBSET Proc] /\ alivePeers'[p] = Live \ {p}
      /\ pendingRequest' \in [Proc -> Request] /\ pendingRequest'[p] = Dummy
      /\ \A r \in Proc \ {p} : /\ viewId'[r] = viewId[r] /\ alivePeers'[r] = alivePeers[r]
                               /\ pendingRequest'[r] = pendingRequest[r]
  <2>1. /\ pendingRequest \in [Proc -> Request] /\ viewId \in [Proc -> Nat \ {0}]
        /\ alivePeers \in [Proc -> SUBSET Proc] /\ Dummy \in Request
        /\ getGroupMembers(c) \ {p} \in SUBSET Proc
    BY <1>2, <1>5
  <2>2. /\ viewId' = [viewId EXCEPT ![p] = viewId[c]]
        /\ alivePeers' = [alivePeers EXCEPT ![p] = getGroupMembers(c) \ {p}]
        /\ pendingRequest' = [pendingRequest EXCEPT ![p] = Dummy]
    BY <1>4
  <2> QED BY <1>5, <2>1, <2>2
<1>7. /\ chan'[c][p] = <<>>
      /\ \A a, b \in Proc : chan'[a][b] # chan[a][b] => a = c /\ b = p
      /\ chan' = [a \in Proc |-> [b \in Proc |-> chan'[a][b]]]
  <2>1. chan = [a \in Proc |-> [b \in Proc |-> chan[a][b]]]
    BY <1>2
  <2>2. chan' = [chan EXCEPT ![c][p] = <<>>]
    BY <1>4
  <2> QED BY <2>1, <2>2
<1>8. UNCHANGED <<status, pc, request, todo, newViewId, leaderPeerId, requestCounter,
                  tcpClientMap, leaderCrashed, listening, backlog,
                  heard, crashes, goneAt>>
  BY <1>4
<1>9. Types'
  <2>1. /\ chan' = [a \in Proc |-> [b \in Proc |-> chan'[a][b]]]
        /\ pendingRequest' \in [Proc -> Request] /\ viewId' \in [Proc -> Nat \ {0}]
    BY <1>6, <1>7
  <2> QED BY <1>8, <2>1 DEF Inv, Types
<1>10. PeerTypes'
  <2>1. alivePeers' \in [Proc -> SUBSET Proc] /\ \A r \in Proc : r \notin alivePeers'[r]
    BY <1>6 DEF Inv, PeerTypes
  <2> QED BY <1>8, <2>1 DEF Inv, PeerTypes
<1>11. History'
  <2>1. \A a, b \in Proc : status[a] = "down" \/ status[b] = "down" => chan'[a][b] = chan[a][b]
    BY <1>1, <1>7 DEF Live
  <2> QED BY <1>1, <1>6, <1>8, <2>1, SameHistory
<1>12. /\ Live' = Live /\ Dead' = Dead /\ Peers(c)' = Peers(c) /\ MayDiffer' = MayDiffer
  BY <1>8 DEF Live, Dead, Peers, MayDiffer
<1>13. /\ \A q \in Proc \ {p} : getGroupMembers(q)' = getGroupMembers(q)
       /\ getGroupMembers(p)' = Live /\ getGroupMembers(c)' = Live
  BY <1>1, <1>5, <1>6 DEF getGroupMembers
<1>14. \A q \in Peers(c) : q \in Proc /\ q # c
  BY DEF Peers, Live
<1>15. \A q \in Peers(c) : Agree(q, c)
  <2>1. CASE Idle(c)
    BY <2>1 DEF Idle, UpToDate, Agree
  <2>2. CASE \E t \in Thread : Working(c, t) /\ pc[c][t] = "view"
    BY <2>2 DEF Working, Before
  <2> QED BY <2>1, <2>2
<1>16. alivePeers[c] # {}
  BY <1>1, <1>5 DEF getGroupMembers
<1>17. \A q \in Peers(c) \ {p} : Agree(q, c)' /\ Agree(q, p)' /\ Agree(p, q)'
  <2>1. TAKE q \in Peers(c) \ {p}
  <2>2. /\ viewId'[q] = viewId[q] /\ alivePeers'[q] = alivePeers[q] /\ viewId'[c] = viewId[c]
        /\ getGroupMembers(q)' = getGroupMembers(q)
    BY <1>1, <1>6, <1>13, <1>14
  <2>3. alivePeers[q] # {} /\ viewId[q] = viewId[c]
            => getGroupMembers(q) \ MayDiffer = Live \ MayDiffer
    BY <1>5, <1>15, <1>16 DEF Agree
  <2> QED BY <1>6, <1>12, <1>13, <2>2, <2>3 DEF Agree
<1>18. Agree(p, c)' /\ Agree(p, p)'
  BY <1>13 DEF Agree
<1>19. \A q, r \in Peers(c) : Agree(q, r)'
  <2>1. \A q, r \in Peers(c) \ {p} : Agree(q, r)'
    <3>1. TAKE q, r \in Peers(c) \ {p}
    <3>2. /\ q \in Proc \ {p} /\ r \in Proc \ {p} /\ Agree(q, r)
      BY <1>14 DEF Led
    <3> QED BY <1>6, <1>12, <1>13, <3>2 DEF Agree
  <2> QED BY <1>17, <1>18, <2>1
<1>20. \A q \in Peers(c) \ {p} : /\ chan'[c][q] = chan[c][q] /\ chan'[q][c] = chan[q][c]
  BY <1>1, <1>7, <1>14
<1>21. \A q \in Peers(c) \ {p} : /\ UpToDate(q, c) => UpToDate(q, c)'
                                 /\ ViewOnWay(q, c) => ViewOnWay(q, c)'
                                 /\ Quiet(c, q) => Quiet(c, q)'
  <2>1. TAKE q \in Peers(c) \ {p}
  <2>2. /\ viewId'[q] = viewId[q] /\ viewId'[c] = viewId[c]
        /\ pendingRequest'[q] = pendingRequest[q]
        /\ getGroupMembers(q)' = getGroupMembers(q) /\ getGroupMembers(c)' = getGroupMembers(c)
        /\ chan'[c][q] = chan[c][q] /\ chan'[q][c] = chan[q][c]
    BY <1>1, <1>6, <1>13, <1>14, <1>20
  <2> QED BY <2>2 DEF UpToDate, ViewOnWay, Quiet
<1>22. UpToDate(p, c)'
  <2>1. chan'[p][c] = <<>>
    BY <1>1, <1>7 DEF ViewOnWay
  <2> QED BY <1>1, <1>6, <1>7, <1>13, <2>1 DEF UpToDate, Quiet
<1>23. \A q : Following(q, c)' = Following(q, c)
  BY <1>8 DEF Following
<1>24. Private(c)'
  <2>1. Private(c)
    BY DEF Led
  <2> SUFFICES ASSUME NEW a \in Proc, NEW b \in Live, chan'[a][b] # <<>>
               PROVE  a # b /\ (a = c \/ (b = c /\ a \in Live))
    BY <1>12 DEF Private
  <2>2. chan'[a][b] = chan[a][b]
    BY <1>7 DEF Live
  <2> QED BY <2>1, <2>2 DEF Private
<1>25. \A q \in Peers(c) : viewId'[q] <= viewId'[c]
  <2>1. \A q \in Peers(c) : viewId[q] <= viewId[c] /\ viewId[c] \in Nat
    BY <1>2 DEF Led
  <2> QED BY <1>1, <1>6, <1>14, <2>1
<1>26. CASE Idle(c)
  <2>1. Resting(c)' /\ Connected(c, Live)'
    BY <1>8, <1>12, <1>26 DEF Idle, Resting, Connected
  <2>2. \A q \in Peers(c) : Following(q, c)' /\ (UpToDate(q, c)' \/ (ViewOnWay(q, c)' /\ Agree(q, c)'))
    BY <1>17, <1>21, <1>22, <1>23, <1>26 DEF Idle
  <2>3. Idle(c)'
    BY <1>8, <1>12, <1>13, <1>26, <2>1, <2>2 DEF Idle
  <2>4. Led(c)'
    BY <1>1, <1>12, <1>19, <1>24, <1>25, <2>3 DEF Led
  <2> QED BY <1>9, <1>10, <1>11, <2>4 DEF Inv, Phase
<1>27. ASSUME NEW t \in Thread, Working(c, t), pc[c][t] = "view", p \notin todo[c][t]
       PROVE  Inv'
  <2>1. Role(c, t)'
    <3>1. Role(c, t)
      BY <1>27 DEF Working
    <3> QED BY <1>8, <1>12, <3>1 DEF Role, Connected
  <2>2. GroupAt(c, t)'
    BY <1>8, <1>12, <1>13, <1>27 DEF GroupAt, Before
  <2>3. Loop(c, t)'
    <3>1. Loop(c, t) /\ alivePeers'[c] = alivePeers[c] /\ viewId'[c] = viewId[c]
      BY <1>1, <1>6, <1>27 DEF Working
    <3> QED BY <1>8, <1>12, <3>1 DEF Loop
  <2>4. request[c][t].op # "ADD" => Replaceable(c)'
    <3> SUFFICES ASSUME request[c][t].op # "ADD" PROVE Replaceable(c)'
      OBVIOUS
    <3>1. Replaceable(c)
      BY <1>27 DEF Working
    <3>2. \A q \in Peers(c) : Eff(q, c)' = Eff(q, c)
      <4>1. Eff(p, c) = viewId[c]
        BY <1>3, OneMessage DEF Eff
      <4>2. Eff(p, c)' = viewId[c]
        BY <1>6, <1>7 DEF Eff
      <4>3. \A q \in Peers(c) \ {p} : Eff(q, c)' = Eff(q, c)
        BY <1>6, <1>14, <1>20 DEF Eff
      <4> QED BY <4>1, <4>2, <4>3
    <3>3. Descending(Peers(c), c)'
      BY <1>12, <3>1, <3>2 DEF Replaceable, Descending
    <3>4. HeardAll'
      BY <1>8, <1>12, <3>1 DEF Replaceable, HeardAll
    <3>5. Harmless(Dummy)'
      BY DEF Harmless, Dummy
    <3>6. \A q \in Peers(c) : Live' \subseteq getGroupMembers(q)' /\ Harmless(pendingRequest[q])'
      BY <1>6, <1>12, <1>13, <1>14, <3>1, <3>5 DEF Replaceable, Harmless
    <3> QED BY <1>12, <3>3, <3>4, <3>6 DEF Replaceable
  <2>5. \A q \in Peers(c) : Following(q, c)' /\ Agree(q, c)'
    BY <1>17, <1>18, <1>23, <1>27 DEF Working
  <2>6. \A q \in Peers(c) \ {p} : Exchanged(c, t, q)'
    <3>1. TAKE q \in Peers(c) \ {p}
    <3>2. IF q \in todo[c][t] THEN Quiet(c, q) ELSE UpToDate(q, c) \/ ViewOnWay(q, c)
      BY <1>27 DEF Working, Exchanged
    <3> QED BY <1>8, <1>21, <1>27, <3>2 DEF Exchanged
  <2>7. Exchanged(c, t, p)'
    BY <1>8, <1>22, <1>27 DEF Exchanged
  <2>8. Working(c, t)'
    BY <1>8, <1>12, <1>27, <2>1, <2>2, <2>3, <2>4, <2>5, <2>6, <2>7 DEF Working
  <2>9. Led(c)'
    BY <1>1, <1>12, <1>19, <1>24, <1>25, <2>8 DEF Led
  <2> QED BY <1>9, <1>10, <1>11, <2>9 DEF Inv, Phase
<1> QED BY <1>26, <1>27

----------------------------------------------------------------------------
(* Inv is inductive. *)

\* At first nobody runs.
THEOREM InvInit == Init => Inv
<1> SUFFICES ASSUME Init PROVE Inv
  OBVIOUS
<1>1. Live = {}
  BY DEF Init, Live
<1>2. Dummy \in Request /\ 1 \in Proc /\ {"findLeader", "watch"} \subseteq Label
  BY NAssumption DEF Dummy, Request, Proc, Label
<1>3. Types
  <2>1. /\ status \in [Proc -> {"down", "up", "crashed"}]
        /\ request \in [Proc -> [Thread -> Request]] /\ todo \in [Proc -> [Thread -> SUBSET Proc]]
        /\ newViewId \in [Proc -> [Thread -> Nat]] /\ leaderPeerId \in [Proc -> Proc]
        /\ requestCounter \in [Proc -> Nat] /\ viewId \in [Proc -> Nat \ {0}]
        /\ pendingRequest \in [Proc -> Request] /\ leaderCrashed \in [Proc -> BOOLEAN]
        /\ listening \in [Proc -> BOOLEAN] /\ backlog \in [Proc -> Seq(Proc)]
        /\ crashes \in Nat /\ goneAt \in [Proc -> Nat]
    BY <1>2 DEF Init
  <2>2. pc \in [Proc -> [Thread -> Label]]
    BY <1>2 DEF Init
  <2>3. chan = [p \in Proc |-> [q \in Proc |-> chan[p][q]]]
    BY DEF Init
  <2> QED BY <2>1, <2>2, <2>3 DEF Types
<1>4. PeerTypes
  BY DEF Init, PeerTypes
<1>5. History
  <2>1. \A p \in Proc : Unused(p)
    BY DEF Init, Unused, Thread
  <2> QED BY <2>1 DEF Init, History
<1> QED BY <1>1, <1>3, <1>4, <1>5 DEF Inv, Phase, Empty

\* Every step keeps it, if the leader does not crash during an ADD.
THEOREM InvNext ==
    ASSUME "ADD" \notin LeaderMayCrash, Inv, [Next]_vars
    PROVE  Inv'
<1>1. ASSUME NEW p \in Proc, NEW t \in Thread, ModifyGroup(p, t) PROVE Inv'
  <2>1. CASE RequestsSent(p, t)
    BY <2>1, DemoStep, RequestsSentStep
  <2> QED
    BY <1>1, <2>1, LockGroupStep, SendRequestStep, WaitForOkStep, InstallViewStep, ReadViewIdStep,
       LockViewStep, SendNewViewStep, EndViewStep DEF ModifyGroup
<1>2. ASSUME NEW p \in Proc, startAsFollower(p) PROVE Inv'
  <2>1. p \in Live /\ pc[p]["main"] = "follow"
    BY <1>2 DEF startAsFollower, At, Live
  <2>2. ~ Empty /\ ~ \E q \in Proc : First(q)
    BY <2>1 DEF Empty, First
  <2>3. ASSUME NEW c \in Proc, Led(c) PROVE Inv'
    <3>1. \/ \E t \in Thread : /\ Working(c, t) /\ pc[c][t] \in {"request", "ok"}
                               /\ chan[c][p] = <<request[c][t]>> /\ chan[p][c] = <<>>
          \/ /\ ViewOnWay(p, c) /\ Agree(p, c)
             /\ \/ Idle(c)
                \/ \E t \in Thread : Working(c, t) /\ pc[c][t] = "view" /\ p \notin todo[c][t]
      BY <1>2, <2>3, FollowState
    <3> QED BY <1>2, <2>3, <3>1, FollowRequest, FollowView
  <2> QED BY <1>2, <2>2, <2>3, FollowOn DEF Inv, Phase
<1>3. ASSUME NEW p \in Proc, MainThread(p) PROVE Inv'
  <2>1. "main" \in Thread
    BY DEF Thread
  <2> QED
    BY <1>1, <1>2, <1>3, <2>1, TryHostStep, NoLeaderFoundStep, StartAsLeaderStep, LoseLeaderStep,
       AwaitCrashStep, BecomeLeaderStep, SendNewLeaderStep, NewLeaderSentStep, WaitForPendingStep,
       CompletePendingStep, AwaitLeaderStep, AcceptLeaderStep, AnswerLeaderStep DEF MainThread
<1>4. ASSUME NEW p \in Proc, DetectorThread(p) PROVE Inv'
  <2>1. "detector" \in Thread
    BY DEF Thread
  <2> QED BY <1>1, <1>4, <2>1, FailureStep DEF DetectorThread
<1>5. ASSUME NEW p \in Proc, NEW q \in Proc \ {p}, HeartBeat(p, q) PROVE Inv'
  BY <1>5, HeartBeatStep
<1> QED
  BY <1>3, <1>4, <1>5, StartStep, RestartStep, CrashStep, Stutter DEF Next

\* So it is an invariant.
THEOREM InvAlways ==
    ASSUME "ADD" \notin LeaderMayCrash
    PROVE  Spec => []Inv
<1>1. Inv /\ [Next]_vars => Inv'
  BY InvNext
<1> QED BY <1>1, InvInit, PTL DEF Spec

----------------------------------------------------------------------------
(* Connections to processes that are gone *)

\* A step of p: the others keep what Entries looks at.
Alone(p) ==
    /\ UNCHANGED status
    /\ \A r \in Proc \ {p} :
        /\ pc'[r] = pc[r] /\ request'[r] = request[r] /\ heard'[r] = heard[r]
        /\ tcpClientMap'[r] = tcpClientMap[r] /\ leaderPeerId'[r] = leaderPeerId[r]

\* The entries of r stay in order while it does nothing and hears of no less.
LEMMA EntriesKept ==
    ASSUME NEW r \in Proc, Entries(r), Live \subseteq Live',
           pc'[r] = pc[r], request'[r] = request[r], heard[r] \subseteq heard'[r],
           tcpClientMap'[r] = tcpClientMap[r], leaderPeerId'[r] = leaderPeerId[r]
    PROVE  Entries(r)'
<1>1. Dead' \subseteq Dead
  BY DEF Dead
<1>2. ASSUME NEW x, Removes(r, x) PROVE Removes(r, x)'
  BY <1>2 DEF Removes
<1> QED BY <1>1, <1>2 DEF Entries

\* So only the entries of the process that moves are to be looked at.
LEMMA AloneStep ==
    ASSUME Connections, NEW p \in Live, Alone(p), Entries(p)'
    PROVE  Connections'
<1>1. Live' = Live /\ p \in Proc
  BY DEF Alone, Live
<1>2. ASSUME NEW r \in Live \ {p} PROVE Entries(r)'
  <2>1. r \in Proc \ {p} /\ Entries(r)
    BY <1>2 DEF Connections, Live
  <2> QED BY <1>1, <2>1, EntriesKept DEF Alone
<1> QED BY <1>1, <1>2 DEF Connections

\* A process goes that all others have heard of.
LEMMA GoneConnections ==
    ASSUME Inv, Connections, NEW p \in Live, Gone(p, "crashed"), UNCHANGED <<pc, local, state, net>>,
           \A q \in Live \ {p} : p \in heard[q]
    PROVE  Connections'
<1>1. Live' \subseteq Live \ {p} /\ Dead' \subseteq Dead \cup {p} /\ \A r \in Live : r \in Proc
  BY DEF Gone, Live, Dead, Inv, Types
<1>2. ASSUME NEW r \in Live' PROVE Entries(r)'
  <2>1. r \in Proc /\ r # p /\ p \in heard[r] /\ Entries(r)
    BY <1>1, <1>2 DEF Connections
  <2>2. /\ pc'[r] = pc[r] /\ request'[r] = request[r] /\ heard'[r] = heard[r]
        /\ tcpClientMap'[r] = tcpClientMap[r] /\ leaderPeerId'[r] = leaderPeerId[r]
    BY <2>1 DEF Gone, local, state
  <2>3. ASSUME NEW x, Removes(r, x) \/ x = p PROVE Removes(r, x)'
    BY <2>1, <2>2, <2>3 DEF Removes
  <2> QED BY <1>1, <2>1, <2>2, <2>3 DEF Entries
<1> QED BY <1>2 DEF Connections

\* modifyGroupMembership erases the entry of the process it removes.
LEMMA ModifyConnections ==
    ASSUME Inv, Inv', Connections, NEW p \in Proc, NEW t \in Thread, ModifyGroup(p, t)
    PROVE  Connections'
<1>1. p \in Live /\ pc[p][t] \in Ops
  BY DEF ModifyGroup, LockGroup, sendRequestMsg, RequestsSent, waitForOkMsg, InstallView,
         ReadViewId, LockView, sendNewViewMsg, EndView, At, Live, Ops
<1>2. Working(p, t) /\ Entries(p)
  BY <1>1, Worker DEF Connections
<1>3. ~ Gone(p, "aborted")
  <2>1. Gone(p, "aborted") => status'[p] = "aborted"
    BY DEF Gone, Inv, Types
  <2>2. status'[p] \in {"down", "up", "crashed"}
    BY DEF Inv, Types
  <2> QED BY <2>1, <2>2
<1>4. CASE Gone(p, "crashed") /\ UNCHANGED <<pc, local, state, net>> /\ isTestCase4(p, t)
  <2>1. request[p][t].op = "DEL"
    BY <1>4 DEF isTestCase4
  <2>2. HeardAll
    BY <1>2, <2>1 DEF Working, Replaceable
  <2> QED BY <1>1, <1>4, <2>2, GoneConnections DEF HeardAll
<1> DEFINE next == Ops \cup {IF t = "main" THEN "accept" ELSE "watch"}
           Moves == /\ UNCHANGED <<status, heard, request>>
                    /\ \E label \in next : pc' = pc \/ Goto(p, t, label)
                    /\ \E l : leaderPeerId' = [leaderPeerId EXCEPT ![p] = l]
           Erases == LET x == request[p][t].peer
                     IN  /\ request[p][t].op = "DEL"
                         /\ tcpClientMap' = [tcpClientMap EXCEPT ![p] = @ \ {x}]
<1>5. \/ Gone(p, "crashed") /\ UNCHANGED <<pc, local, state, net>> /\ isTestCase4(p, t)
      \/ Moves /\ (UNCHANGED tcpClientMap \/ Erases) /\ (pc[p][t] = "modify" => LockGroup(p, t))
  <2>1. CASE LockGroup(p, t)
    <3>1. Moves
      <4>1. leaderPeerId' = [leaderPeerId EXCEPT ![p] = leaderPeerId[p]]
        BY <2>1 DEF LockGroup, Inv, Types
      <4>2. Goto(p, t, "request") /\ "request" \in next
        BY <2>1 DEF LockGroup, Ops
      <4> QED BY <2>1, <4>1, <4>2 DEF LockGroup, world
    <3>2. UNCHANGED tcpClientMap \/ Erases
      <4>1. CASE request[p][t].op = "DEL"
        BY <2>1, <4>1 DEF LockGroup
      <4>2. CASE request[p][t].op # "DEL"
        <5>1. tcpClientMap' = [tcpClientMap EXCEPT ![p] = @ \ {}]
          BY <2>1, <4>2 DEF LockGroup
        <5> QED BY <5>1 DEF Inv, PeerTypes
      <4> QED BY <4>1, <4>2
    <3> QED BY <2>1, <3>1, <3>2
  <2>2. CASE EndView(p, t)
    <3>1. \E label \in next : Goto(p, t, label)
      BY <2>2 DEF EndView
    <3>2. \E l : leaderPeerId' = [leaderPeerId EXCEPT ![p] = l]
      BY <2>2 DEF EndView
    <3> QED BY <2>2, <3>1, <3>2 DEF EndView, At, local, world
  <2>3. CASE InstallView(p, t) \/ ReadViewId(p, t) \/ LockView(p, t)
    <3>1. \E label \in next : Goto(p, t, label)
      BY <2>3 DEF InstallView, ReadViewId, LockView, Ops
    <3>2. UNCHANGED <<leaderPeerId, tcpClientMap, status, heard, request>> /\ pc[p][t] # "modify"
      BY <2>3 DEF InstallView, ReadViewId, LockView, At, local, state, world
    <3>3. leaderPeerId' = [leaderPeerId EXCEPT ![p] = leaderPeerId[p]]
      BY <3>2 DEF Inv, Types
    <3> QED BY <3>1, <3>2, <3>3
  <2>4. CASE sendRequestMsg(p, t) \/ RequestsSent(p, t) \/ waitForOkMsg(p, t) \/ sendNewViewMsg(p, t)
    <3>1. pc[p][t] # "modify"
      BY <2>4 DEF sendRequestMsg, RequestsSent, waitForOkMsg, sendNewViewMsg, At
    <3>2. \/ Gone(p, "crashed") /\ UNCHANGED <<pc, local, state, net>> /\ isTestCase4(p, t)
          \/ /\ UNCHANGED <<leaderPeerId, tcpClientMap, status, heard, request>>
             /\ pc' = pc \/ Goto(p, t, "ok")
      BY <1>3, <2>4 DEF sendRequestMsg, RequestsSent, waitForOkMsg, sendNewViewMsg, Abort, state, world
    <3>3. "ok" \in next
      BY DEF Ops
    <3>4. UNCHANGED leaderPeerId => leaderPeerId' = [leaderPeerId EXCEPT ![p] = leaderPeerId[p]]
      BY DEF Inv, Types
    <3> QED BY <3>1, <3>2, <3>3, <3>4
  <2> QED BY <2>1, <2>2, <2>3, <2>4 DEF ModifyGroup
<1>6. CASE Moves /\ (UNCHANGED tcpClientMap \/ Erases) /\ (pc[p][t] = "modify" => LockGroup(p, t))
  <2>1. /\ pc'[p][t] \in next
        /\ \A u \in Thread \ {t} : pc'[p][u] = pc[p][u]
        /\ \A r \in Proc \ {p} : pc'[r] = pc[r] /\ leaderPeerId'[r] = leaderPeerId[r]
    <3>1. \A r \in Proc \ {p} : leaderPeerId'[r] = leaderPeerId[r]
      BY <1>6 DEF Inv, Types
    <3>2. CASE pc' = pc
      BY <1>1, <3>1, <3>2
    <3>3. ASSUME NEW label \in next, Goto(p, t, label)
          PROVE  /\ pc'[p][t] \in next
                 /\ \A u \in Thread \ {t} : pc'[p][u] = pc[p][u]
                 /\ \A r \in Proc \ {p} : pc'[r] = pc[r]
      BY <3>3 DEF Goto, Inv, Types
    <3> QED BY <1>6, <3>1, <3>2, <3>3
  <2>2. \A r \in Proc \ {p} : tcpClientMap'[r] = tcpClientMap[r]
    BY <1>6 DEF Inv, PeerTypes
  <2>3. Alone(p)
    BY <1>6, <2>1, <2>2 DEF Alone
  <2>4. /\ pc[p]["main"] \in {"accept"} \cup Ops
        /\ pc'[p]["main"] \in {"accept"} \cup Ops
    BY <1>1, <1>2, <2>1 DEF Working, Role, Thread
  <2>5. ASSUME NEW x \in tcpClientMap'[p] \cap Dead' PROVE Removes(p, x)'
    <3>1. x \in tcpClientMap[p] \cap Dead
      BY <1>6, <2>5 DEF Dead, Live, Inv, PeerTypes
    <3>2. Removes(p, x)
      BY <1>2, <2>4, <3>1 DEF Entries, Ops
    <3>3. CASE x \in heard[p]
      BY <1>6, <3>3 DEF Removes
    <3>4. ASSUME NEW u \in Thread, pc[p][u] = "modify", request[p][u].op = "DEL", request[p][u].peer = x
          PROVE  Removes(p, x)'
      <4>1. u # t
        <5> SUFFICES ASSUME u = t PROVE FALSE
          OBVIOUS
        <5>1. tcpClientMap' = [tcpClientMap EXCEPT ![p] = @ \ {x}]
          BY <1>6, <3>4 DEF LockGroup
        <5> QED BY <2>5, <5>1 DEF Inv, PeerTypes
      <4>2. pc'[p][u] = "modify" /\ request'[p][u] = request[p][u]
        BY <1>6, <2>1, <3>4, <4>1
      <4> QED BY <3>4, <4>2 DEF Removes
    <3> QED BY <3>2, <3>3, <3>4 DEF Removes
  <2>6. Entries(p)'
    BY <2>4, <2>5 DEF Entries, Ops
  <2> QED BY <1>1, <2>3, <2>6, AloneStep
<1> QED BY <1>4, <1>5, <1>6

\* Who is accepted by a leader is live.
LEMMA Accepted ==
    ASSUME Inv, NEW p \in Live, pc[p]["main"] = "accept", backlog[p] # <<>>
    PROVE  Head(backlog[p]) \in Live
<1>1. ~ Empty /\ ~ \E q \in Proc : First(q)
  BY DEF Empty, First
<1>2. ~ \E l, m \in Proc : Election(l, m)
  BY Place DEF Leaderless, Waiting, Called, Following
<1>3. PICK c \in Proc : Led(c)
  BY <1>1, <1>2 DEF Inv, Phase
<1>4. PICK j \in Proc : Joining(c, j)
  BY <1>3 DEF Led, Idle, Losing, Working, Role, Following, Peers
<1>5. backlog[p] = <<j>> /\ j \in Live
  BY <1>4 DEF Joining, Following, Peers
<1> QED BY <1>5, OneMessage

\* The steps of the main thread outside modifyGroupMembership.
LEMMA MainConnections ==
    ASSUME Inv, Inv', Connections, NEW p \in Proc, MainThread(p), ~ ModifyGroup(p, "main")
    PROVE  Connections'
<1> DEFINE Goes(label) == pc' = [pc EXCEPT ![p]["main"] = label]
           Leader(l) == leaderPeerId' = [leaderPeerId EXCEPT ![p] = l]
           Has(S) == tcpClientMap' = [tcpClientMap EXCEPT ![p] = S]
           main == pc[p]["main"]
<1>1. p \in Live /\ Entries(p) /\ "main" \in Thread
  <2>1. p \in Live
    BY DEF MainThread, TryHost, NoLeaderFound, startAsLeader, startAsFollower, LoseLeader,
           AwaitCrash, BecomeLeader, sendNewLeaderMsg, NewLeaderSent, waitForPendingRequestMsg,
           CompletePending, AwaitLeader, AcceptLeader, AnswerLeader, At, Live
  <2> QED BY <2>1 DEF Connections, Thread
<1>2. ~ Gone(p, "aborted")
  <2>1. Gone(p, "aborted") => status'[p] = "aborted"
    BY DEF Gone, Inv, Types
  <2>2. status'[p] \in {"down", "up", "crashed"}
    BY DEF Inv, Types
  <2> QED BY <2>1, <2>2
<1>3. /\ \A label : Goes(label) => /\ pc'[p]["main"] = label
                                   /\ \A u \in Thread \ {"main"} : pc'[p][u] = pc[p][u]
                                   /\ \A r \in Proc \ {p} : pc'[r] = pc[r]
      /\ \A l : Leader(l) => /\ leaderPeerId'[p] = l
                             /\ \A r \in Proc \ {p} : leaderPeerId'[r] = leaderPeerId[r]
      /\ \A S : Has(S) => /\ tcpClientMap'[p] = S
                          /\ \A r \in Proc \ {p} : tcpClientMap'[r] = tcpClientMap[r]
  BY <1>1 DEF Inv, Types, PeerTypes
<1>4. todo[p]["main"] # {} => Next1(p, "main") \in Proc
  <2>1. todo[p]["main"] \in SUBSET Proc
    BY <1>1 DEF Inv, Types
  <2> QED BY <2>1, MinLowest DEF Next1
<1> HIDE DEF Goes, Leader, Has
<1>5. CASE TryHost(p)
  <2>1. /\ UNCHANGED <<status, heard, request>> /\ main = "findLeader"
        /\ \/ \E q \in Proc : Leader(q) /\ Has(tcpClientMap[p] \cup {q}) /\ Goes("follow")
           \/ UNCHANGED <<leaderPeerId, tcpClientMap, pc>>
    <3>1. Next1(p, "main") \in Proc
      BY <1>4, <1>5 DEF TryHost
    <3> QED BY <1>5, <3>1 DEF TryHost, At, Goto, world, Goes, Leader, Has
  <2>2. Alone(p)
    <3>1. \A r \in Proc \ {p} : pc'[r] = pc[r]
      BY <1>3, <2>1
    <3>2. \A r \in Proc \ {p} : leaderPeerId'[r] = leaderPeerId[r]
      BY <1>3, <2>1
    <3>3. \A r \in Proc \ {p} : tcpClientMap'[r] = tcpClientMap[r]
      BY <1>3, <2>1
    <3> QED BY <2>1, <3>1, <3>2, <3>3 DEF Alone
  <2>3. tcpClientMap[p] = {}
    BY <1>1, <2>1 DEF Entries
  <2>4. Entries(p)'
    <3>1. \/ pc'[p]["main"] = "follow" /\ tcpClientMap'[p] \subseteq {leaderPeerId'[p]}
          \/ pc'[p]["main"] = "findLeader" /\ tcpClientMap'[p] = {}
      <4>1. ASSUME NEW q \in Proc, Leader(q), Has(tcpClientMap[p] \cup {q}), Goes("follow")
            PROVE  pc'[p]["main"] = "follow" /\ tcpClientMap'[p] \subseteq {leaderPeerId'[p]}
        <5>1. leaderPeerId'[p] = q /\ tcpClientMap'[p] = tcpClientMap[p] \cup {q} /\ pc'[p]["main"] = "follow"
          BY <1>3, <4>1
        <5> QED BY <2>3, <5>1
      <4> QED BY <2>1, <2>3, <4>1
    <3> QED BY <3>1 DEF Entries, Ops
  <2> QED BY <1>1, <2>2, <2>4, AloneStep
<1>6. CASE \/ NoLeaderFound(p) \/ BecomeLeader(p) \/ AwaitLeader(p) \/ AcceptLeader(p)
  <2>1. /\ UNCHANGED <<status, heard, request>>
        /\ \/ /\ Leader(p) /\ Goes("accept") /\ main = "findLeader" /\ UNCHANGED tcpClientMap
           \/ /\ Has({}) /\ (Goes("newLeader") \/ Goes("awaitLeader")) /\ UNCHANGED leaderPeerId
           \/ \E l : /\ Leader(l) /\ Has(tcpClientMap[p] \cup {l}) /\ Goes("newLeaderMsg")
                     /\ main = "awaitLeader"
    BY <1>6 DEF NoLeaderFound, BecomeLeader, AwaitLeader, AcceptLeader, At, Goto, local, world,
                 Goes, Leader, Has
  <2>2. Alone(p)
    BY <1>3, <2>1 DEF Alone
  <2>3. main \in {"findLeader", "awaitLeader"} => tcpClientMap[p] = {}
    BY <1>1 DEF Entries
  <2>4. Entries(p)'
    <3>1. \/ pc'[p]["main"] \in {"accept", "newLeader", "awaitLeader"} /\ tcpClientMap'[p] = {}
          \/ pc'[p]["main"] = "newLeaderMsg" /\ tcpClientMap'[p] \subseteq {leaderPeerId'[p]}
      <4>1. ASSUME NEW l, Leader(l), Has(tcpClientMap[p] \cup {l}), Goes("newLeaderMsg"),
                   main = "awaitLeader"
            PROVE  pc'[p]["main"] = "newLeaderMsg" /\ tcpClientMap'[p] \subseteq {leaderPeerId'[p]}
        <5>1. /\ leaderPeerId'[p] = l /\ tcpClientMap'[p] = tcpClientMap[p] \cup {l}
              /\ pc'[p]["main"] = "newLeaderMsg"
          BY <1>3, <4>1
        <5> QED BY <2>3, <4>1, <5>1
      <4> QED BY <1>3, <2>1, <2>3, <4>1
    <3> QED BY <3>1 DEF Entries, Ops
  <2> QED BY <1>1, <2>2, <2>4, AloneStep
<1>7. CASE \/ startAsFollower(p) \/ LoseLeader(p) \/ AwaitCrash(p) \/ AnswerLeader(p)
  <2>1. /\ UNCHANGED <<status, heard, request, leaderPeerId, tcpClientMap>>
        /\ main \in {"follow", "awaitCrash", "newLeaderMsg"}
        /\ UNCHANGED pc \/ Goes("awaitCrash") \/ Goes("elect") \/ Goes("follow")
    BY <1>2, <1>7 DEF startAsFollower, processRequestMsg, processNewViewMsg, LoseLeader, AwaitCrash,
                      AnswerLeader, Abort, At, Goto, local, state, world, Goes
  <2>2. Alone(p)
    BY <1>3, <2>1 DEF Alone
  <2>3. Entries(p)'
    BY <1>1, <1>3, <2>1 DEF Entries, Ops
  <2> QED BY <1>1, <2>2, <2>3, AloneStep
<1>8. CASE \/ startAsLeader(p) \/ sendNewLeaderMsg(p) \/ NewLeaderSent(p)
           \/ waitForPendingRequestMsg(p) \/ CompletePending(p)
  <2>1. /\ UNCHANGED <<status, heard, leaderPeerId>>
        /\ main \in {"accept", "newLeader", "pending"}
        /\ \/ UNCHANGED pc \/ Goes("modify") \/ Goes("pending") \/ Goes("newView")
        /\ UNCHANGED request \/ \E r : request' = [request EXCEPT ![p]["main"] = r]
    BY <1>2, <1>8 DEF startAsLeader, sendNewLeaderMsg, NewLeaderSent, waitForPendingRequestMsg,
                      CompletePending, createRequestMsg, Abort, At, Goto, state, world, Goes
  <2>2. UNCHANGED tcpClientMap \/ \E q \in Live : Has(tcpClientMap[p] \cup {q})
    <3>1. CASE startAsLeader(p)
      <4>1. Head(backlog[p]) \in Live
        BY <1>1, <3>1, Accepted DEF startAsLeader, At
      <4> QED BY <3>1, <4>1 DEF startAsLeader, Has
    <3>2. CASE sendNewLeaderMsg(p)
      <4>1. Next1(p, "main") \in Proc
        BY <1>4, <3>2 DEF sendNewLeaderMsg
      <4> QED BY <3>2, <4>1 DEF sendNewLeaderMsg, Live, Has
    <3> QED BY <1>2, <1>8, <3>1, <3>2 DEF NewLeaderSent, waitForPendingRequestMsg, CompletePending,
                                          Abort, state
  <2>3. /\ \A r \in Proc \ {p} : request'[r] = request[r]
        /\ \A u \in Thread \ {"main"} : request'[p][u] = request[p][u]
    <3>1. CASE UNCHANGED request
      BY <3>1
    <3>2. ASSUME NEW m, request' = [request EXCEPT ![p]["main"] = m]
          PROVE  /\ \A r \in Proc \ {p} : request'[r] = request[r]
                 /\ \A u \in Thread \ {"main"} : request'[p][u] = request[p][u]
      BY <1>1, <3>2 DEF Inv, Types
    <3> QED BY <2>1, <3>1, <3>2
  <2>4. Alone(p)
    BY <1>3, <2>1, <2>2, <2>3 DEF Alone
  <2>5. pc'[p]["main"] \in {"accept", "newLeader", "pending"} \cup Ops
    BY <1>3, <2>1 DEF Ops
  <2>6. ASSUME NEW x \in tcpClientMap'[p] \cap Dead' PROVE Removes(p, x)'
    <3>1. x \in tcpClientMap[p] \cap Dead
      <4>1. Dead' = Dead /\ x \notin Live
        BY <2>1, <2>6 DEF Dead, Live
      <4>2. CASE UNCHANGED tcpClientMap
        BY <2>6, <4>1, <4>2
      <4>3. ASSUME NEW q \in Live, Has(tcpClientMap[p] \cup {q}) PROVE x \in tcpClientMap[p]
        <5>1. tcpClientMap'[p] = tcpClientMap[p] \cup {q}
          BY <1>3, <4>3
        <5> QED BY <2>6, <4>1, <4>3, <5>1
      <4> QED BY <2>2, <2>6, <4>1, <4>2, <4>3
    <3>2. Removes(p, x)
      BY <1>1, <2>1, <3>1 DEF Entries
    <3>3. \A u \in Thread \ {"main"} : pc'[p][u] = pc[p][u]
      BY <1>3, <2>1
    <3> QED BY <2>1, <2>3, <3>2, <3>3 DEF Removes
  <2>7. Entries(p)'
    BY <2>5, <2>6 DEF Entries, Ops
  <2> QED BY <1>1, <2>4, <2>7, AloneStep
<1> QED BY <1>5, <1>6, <1>7, <1>8 DEF MainThread

\* A process whose detector reports a peer has no entry of it, or, as the
\* leader, goes on to erase it.
LEMMA FailureConnections ==
    ASSUME Inv, Connections, NEW p \in Proc, NEW x \in Proc \ {p}, handlePeerFailure(p, x)
    PROVE  Connections'
<1>1. p \in Live /\ pc[p]["detector"] = "watch" /\ "detector" \in Thread /\ "main" \in Thread
  BY DEF handlePeerFailure, At, Live, Thread
<1>2. Entries(p) /\ x \in heard[p] \cap Dead
  <2>1. goneAt[x] > 0 /\ x \in heard[p]
    BY DEF handlePeerFailure, FirstUnreported, Unreported
  <2> QED BY <1>1, <2>1 DEF Connections, Inv, History, Dead, Live
<1>3. /\ UNCHANGED <<status, leaderPeerId, tcpClientMap>>
      /\ heard' = [heard EXCEPT ![p] = @ \ {x}]
  BY DEF handlePeerFailure
<1>4. /\ heard'[p] = heard[p] \ {x}
      /\ \A r \in Proc \ {p} : heard'[r] = heard[r]
  BY <1>3 DEF Inv, PeerTypes
<1>5. CASE leaderPeerId[p] = p
  <2> DEFINE del == [type |-> "REQUEST", op |-> "DEL", peer |-> x, id |-> requestCounter[p] + 1]
  <2>1. /\ request' = [request EXCEPT ![p]["detector"] = del]
        /\ pc' = [pc EXCEPT ![p]["detector"] = "modify"]
    BY <1>5 DEF handlePeerFailure, createRequestMsg, Goto
  <2>2. /\ request'[p]["detector"] = del /\ pc'[p]["detector"] = "modify"
        /\ \A u \in Thread \ {"detector"} : request'[p][u] = request[p][u] /\ pc'[p][u] = pc[p][u]
        /\ \A r \in Proc \ {p} : request'[r] = request[r] /\ pc'[r] = pc[r]
    BY <1>1, <2>1 DEF Inv, Types
  <2>3. Alone(p)
    BY <1>3, <1>4, <2>2 DEF Alone
  <2>4. Removes(p, x)'
    BY <1>1, <2>2 DEF Removes
  <2>5. ASSUME NEW y, Removes(p, y) PROVE Removes(p, y)'
    BY <1>1, <1>4, <2>2, <2>4, <2>5 DEF Removes
  <2>6. pc'[p]["main"] = pc[p]["main"] /\ Dead' = Dead
    BY <1>1, <1>3, <2>2 DEF Dead, Live
  <2>7. Entries(p)'
    BY <1>2, <1>3, <2>5, <2>6 DEF Entries
  <2> QED BY <1>1, <2>3, <2>7, AloneStep
<1>6. CASE leaderPeerId[p] # p
  <2>1. UNCHANGED <<pc, request>>
    BY <1>6 DEF handlePeerFailure
  <2>2. pc[p]["main"] \notin {"accept", "newLeader", "pending"} \cup Ops
    <3>1. pc[p]["main"] \notin Ops
      <4> SUFFICES ASSUME pc[p]["main"] \in Ops PROVE FALSE
        OBVIOUS
      <4>1. Working(p, "main")
        BY <1>1, Worker
      <4> QED BY <1>2, <4>1 DEF Working, Role, Dead
    <3>2. pc[p]["main"] \notin {"newLeader", "pending"}
      <4> SUFFICES ASSUME pc[p]["main"] \in {"newLeader", "pending"} PROVE FALSE
        OBVIOUS
      <4>1. PICK l, m \in Proc : Election(l, m)
        BY <1>1, InElection
      <4>2. Elector(p, l)
        BY <1>1, <4>1 DEF Election
      <4> QED BY <1>2, <4>2 DEF Elector, Dead
    <3>3. pc[p]["main"] # "accept"
      <4> SUFFICES ASSUME pc[p]["main"] = "accept" PROVE FALSE
        OBVIOUS
      <4>1. ~ Empty /\ ~ \E q \in Proc : First(q)
        BY <1>1 DEF Empty, First
      <4>2. ~ \E l, m \in Proc : Election(l, m)
        BY <1>1, Place DEF Leaderless, Waiting, Called, Following
      <4>3. PICK c \in Proc : Led(c)
        BY <4>1, <4>2 DEF Inv, Phase
      <4>4. ~ Following(p, c)
        BY DEF Following
      <4>5. p = c
        BY <1>1, <4>3, <4>4 DEF Led, Idle, Joining, Losing, Working, Peers, Following
      <4>6. ~ Resting(p)
        BY <1>6 DEF Resting
      <4>7. \A t \in Thread : ~ Working(p, t)
        BY <1>1, <1>6 DEF Working, Role, Thread, Ops
      <4> QED BY <4>3, <4>5, <4>6, <4>7 DEF Led, Idle, Joining, Losing
    <3> QED BY <3>1, <3>2, <3>3
  <2>3. Alone(p)
    BY <1>3, <1>4, <2>1 DEF Alone
  <2>4. Entries(p)'
    BY <1>2, <1>3, <2>1, <2>2 DEF Entries, Ops
  <2> QED BY <1>1, <2>3, <2>4, AloneStep
<1> QED BY <1>5, <1>6

\* A process that starts, or comes back, has no entry.
LEMMA StartConnections ==
    ASSUME Inv, Connections, NEW p \in Proc, Start(p) \/ Restart(p)
    PROVE  Connections'
<1>1. /\ Live \subseteq Live' /\ Live' \subseteq Live \cup {p} /\ p \notin Live
  BY DEF Start, Restart, Live, Inv, Types
<1>2. ASSUME NEW r \in Live PROVE Entries(r)'
  <2>1. r \in Proc /\ r # p /\ Entries(r)
    BY <1>1, <1>2 DEF Connections, Live
  <2>2. /\ pc'[r] = pc[r] /\ request'[r] = request[r] /\ heard'[r] = heard[r]
        /\ tcpClientMap'[r] = tcpClientMap[r] /\ leaderPeerId'[r] = leaderPeerId[r]
    BY <2>1 DEF Start, Restart, Goto, state, Inv, Types, PeerTypes
  <2> QED BY <1>1, <2>1, <2>2, EntriesKept
<1>3. pc'[p]["main"] = "findLeader" /\ tcpClientMap'[p] = {}
  BY DEF Start, Restart, Goto, state, Inv, Types, PeerTypes, History, Unused, Thread
<1>4. Entries(p)'
  BY <1>3 DEF Entries, Ops
<1> QED BY <1>1, <1>2, <1>4 DEF Connections

\* Every step keeps the entries in order.
LEMMA ConnectionsNext ==
    ASSUME Inv, Inv', Connections, [Next]_vars
    PROVE  Connections'
<1>1. CASE UNCHANGED vars
  <2>1. Live' = Live /\ \A r \in Live : r \in Proc
    BY <1>1 DEF vars, world, Live
  <2>2. ASSUME NEW r \in Live PROVE Entries(r)'
    BY <1>1, <2>1, <2>2, EntriesKept DEF Connections, vars, world, state, local
  <2> QED BY <2>1, <2>2 DEF Connections
<1>2. ASSUME NEW p \in Proc, MainThread(p) PROVE Connections'
  BY <1>2, ModifyConnections, MainConnections DEF Thread
<1>3. ASSUME NEW p \in Proc, DetectorThread(p) PROVE Connections'
  <2>1. "detector" \in Thread
    BY DEF Thread
  <2> QED BY <1>3, <2>1, ModifyConnections, FailureConnections DEF DetectorThread
<1>4. ASSUME NEW p \in Proc, Crash(p) PROVE Connections'
  BY <1>4, GoneConnections DEF Crash, Live
<1>5. ASSUME NEW p \in Proc, NEW q \in Proc \ {p}, HeartBeat(p, q) PROVE Connections'
  <2>1. /\ UNCHANGED <<status, pc, request, tcpClientMap, leaderPeerId>>
        /\ \A r \in Proc : heard[r] \subseteq heard'[r]
    BY <1>5 DEF HeartBeat, local, state, Inv, PeerTypes
  <2>2. Live' = Live /\ \A r \in Live : r \in Proc
    BY <2>1 DEF Live
  <2>3. ASSUME NEW r \in Live PROVE Entries(r)'
    BY <2>1, <2>2, <2>3, EntriesKept DEF Connections
  <2> QED BY <2>2, <2>3 DEF Connections
<1> QED BY <1>1, <1>2, <1>3, <1>4, <1>5, StartConnections DEF Next

\* So it is an invariant.
THEOREM ConnectionsAlways ==
    ASSUME "ADD" \notin LeaderMayCrash
    PROVE  Spec => []Connections
<1>1. Init => Connections
  BY DEF Init, Connections, Live
<1>2. Inv /\ Inv' /\ Connections /\ [Next]_vars => Connections'
  BY ConnectionsNext
<1> QED BY <1>1, <1>2, InvAlways, PTL DEF Spec

----------------------------------------------------------------------------
(* What follows from it *)

\* Every variable keeps its type, and nobody becomes its own peer: of
\* alivePeers, tcpClientMap and the detector's map no process is a member itself.
THEOREM TypeCorrect ==
    ASSUME "ADD" \notin LeaderMayCrash
    PROVE  Spec => []TypeOK
<1>1. Inv => TypeOK
  <2> SUFFICES ASSUME Inv PROVE TypeOK
    OBVIOUS
  <2>1. \A p \in Proc : /\ alivePeers[p] \subseteq Proc \ {p}
                        /\ tcpClientMap[p] \subseteq Proc \ {p}
                        /\ heard[p] \subseteq Proc \ {p}
    BY DEF Inv, PeerTypes
  <2> QED BY <2>1 DEF Inv, Types, TypeOK
<1> QED BY <1>1, InvAlways, PTL

\* No process ends by an uncaught exception, a failed CHECK or a LOG(FATAL):
\* whatever crashes, every answer is the expected one and arrives alone.
THEOREM NeverAborts ==
    ASSUME "ADD" \notin LeaderMayCrash
    PROVE  Spec => []NoAbort
<1>1. Inv => NoAbort
  BY DEF Inv, Types, NoAbort
<1> QED BY <1>1, InvAlways, PTL

\* At most one process leads the group or is taking it over.
THEOREM SingleLeader ==
    ASSUME "ADD" \notin LeaderMayCrash
    PROVE  Spec => []OneLeader
<1>1. Inv => OneLeader
  <2> SUFFICES ASSUME Inv, NEW p \in Proc, NEW q \in Proc, Leads(p), Leads(q) PROVE p = q
    BY DEF OneLeader
  <2>1. p \in Live /\ q \in Live
    BY DEF Leads, Live
  <2>2. ~ Empty
    BY <2>1 DEF Empty
  <2>3. CASE \E r \in Proc : First(r)
    BY <2>1, <2>3 DEF First
  <2>4. ASSUME NEW c \in Proc, Led(c), NEW r \in Live, Leads(r) PROVE r = c
    <3> SUFFICES ASSUME r # c PROVE FALSE
      OBVIOUS
    <3>1. r \in Peers(c) /\ ~ Following(r, c)
      BY <2>4 DEF Peers, Following, Leads
    <3>2. PICK j \in Proc : Joining(c, j)
      BY <2>4, <3>1 DEF Led, Idle, Losing, Working
    <3>3. j # r
      BY <2>4, <3>1, <3>2 DEF Joining, Leads
    <3> QED BY <3>1, <3>2, <3>3 DEF Joining
  <2>5. ASSUME NEW l \in Proc, NEW m \in Proc, Election(l, m), NEW r \in Live, Leads(r)
        PROVE  r = m
    <3> SUFFICES ASSUME r # m PROVE FALSE
      OBVIOUS
    <3>1. l # r
      BY <2>5 DEF Election, Dead
    <3>2. ~ Leaderless(r, l) /\ ~ Waiting(r, l) /\ ~ Called(r, l, m) /\ ~ Following(r, m)
      BY <2>5, <3>1 DEF Leaderless, Waiting, Called, Following, Leads
    <3> QED BY <2>5, <3>2, Place
  <2> QED BY <2>1, <2>2, <2>3, <2>4, <2>5 DEF Inv, Phase
<1> QED BY <1>1, InvAlways, PTL

\* Once an event is dealt with, all live processes have the same leader, the
\* same view id, exactly the live processes as members, and no entry of
\* tcpClientMap for a process that is gone.
THEOREM SettledAgree ==
    ASSUME "ADD" \notin LeaderMayCrash
    PROVE  Spec => []AgreementWhenSettled
<1>1. Inv /\ Connections => AgreementWhenSettled
  <2> SUFFICES ASSUME Inv, Connections, Settled, NEW p \in Live, NEW q \in Live
               PROVE  /\ getGroupMembers(p) = Live
                      /\ viewId[p] = viewId[q] /\ leaderPeerId[p] = leaderPeerId[q]
                      /\ tcpClientMap[p] \subseteq Live
    BY DEF AgreementWhenSettled
  <2>1. PICK c \in Proc : Led(c) /\ Idle(c)
    BY Rest DEF Empty
  <2>2. ASSUME NEW r \in Live
        PROVE  getGroupMembers(r) = Live /\ viewId[r] = viewId[c] /\ leaderPeerId[r] = c
    <3>1. CASE r = c
      BY <2>1, <3>1, RestState DEF Resting
    <3>2. CASE r # c
      <4>1. r \in Peers(c)
        BY <3>2 DEF Peers
      <4>2. Following(r, c) /\ UpToDate(r, c) /\ getGroupMembers(c) = Live
        BY <2>1, <4>1, RestState
      <4> QED BY <4>2 DEF Following, UpToDate
    <3> QED BY <3>1, <3>2
  <2>3. tcpClientMap[p] \subseteq Live
    <3>1. Entries(p) /\ p \in Proc /\ tcpClientMap[p] \subseteq Proc
      BY DEF Connections, Inv, PeerTypes, Live
    <3>2. /\ pc[p]["main"] \in {"accept", "follow"} /\ pc[p]["detector"] = "watch"
          /\ leaderPeerId[p] \in Live /\ heard[p] = Live \ {p}
      BY DEF Settled
    <3>3. ASSUME NEW x, Removes(p, x) PROVE x \in Live
      BY <3>2, <3>3 DEF Removes, Thread
    <3> QED BY <3>1, <3>2, <3>3 DEF Entries, Dead
  <2> QED BY <2>2, <2>3
<1> QED BY <1>1, InvAlways, ConnectionsAlways, PTL

\* The new views on their way between live processes.
LEMMA InFlight ==
    ASSUME Inv, NEW a \in Live, NEW b \in Live, NEW i \in 1..Len(chan[a][b]),
           chan[a][b][i].type = "NEW_VIEW"
    PROVE  \E c \in Proc : /\ Led(c) /\ a = c /\ b \in Peers(c) /\ ViewOnWay(b, c)
                           /\ i = 1 /\ getGroupMembers(c) = Live
                           /\ \A q \in Peers(c) : Agree(q, c)
<1>1. chan[a][b] # <<>> /\ a \in Proc /\ b \in Proc
  <2>1. Len(<<>>) = 0
    OBVIOUS
  <2> QED BY <2>1 DEF Live
<1>2. \A msg : chan[a][b] = <<msg>> => i = 1 /\ msg.type = "NEW_VIEW"
  <2>1. TAKE msg
  <2>2. HAVE chan[a][b] = <<msg>>
  <2>3. i = 1
    BY <2>2, OneMessage
  <2> QED BY <2>2, <2>3
<1>3. ~ Empty /\ ~ \E p \in Proc : First(p)
  BY <1>1 DEF Empty, First
<1>4. ASSUME NEW l \in Proc, NEW m \in Proc, Election(l, m) PROVE FALSE
  <2>1. l \notin Live /\ m \in Live /\ PrivateTo(l, m)
    BY <1>4 DEF Election, Dead
  <2>2. a # b /\ (a = m \/ b = m)
    BY <1>1, <2>1 DEF PrivateTo
  <2>3. PICK q \in Peers(m) : (a = m /\ b = q) \/ (a = q /\ b = m)
    BY <2>2 DEF Peers
  <2>4. Called(q, l, m)
    BY <1>1, <1>4, <2>3 DEF Election, Vacant, Taking, Calling, Collecting, Quiet
  <2>5. /\ NewLeaderMsg.type # "NEW_VIEW"
        /\ pendingRequest[q].type = "REQUEST"
    BY DEF NewLeaderMsg, Inv, Types, Request, Peers, Live
  <2> QED BY <1>1, <1>2, <2>3, <2>4, <2>5 DEF Called
<1>5. PICK c \in Proc : Led(c)
  BY <1>3, <1>4 DEF Inv, Phase
<1>6. a # b /\ (a = c \/ b = c)
  BY <1>1, <1>5 DEF Led, Private
<1>7. PICK q \in Peers(c) : (a = c /\ b = q) \/ (a = q /\ b = c)
  BY <1>6 DEF Peers
<1>8. ~ Quiet(c, q) /\ ~ UpToDate(q, c)
  BY <1>1, <1>7 DEF Quiet, UpToDate
<1>9. \A t \in Thread : ~ Asked(q, c, t)
  <2> SUFFICES ASSUME NEW t \in Thread, Asked(q, c, t) PROVE FALSE
    OBVIOUS
  <2>1. request[c][t].type = "REQUEST" /\ OkMsg(request[c][t].id).type = "OK"
    BY DEF Inv, Types, Request, OkMsg
  <2> QED BY <1>1, <1>2, <1>7, <2>1 DEF Asked
<1>10. (\A j \in Proc : ~ Joining(c, j)) /\ (\A x \in Proc : ~ Losing(c, x))
  BY <1>8 DEF Joining, Losing
<1>11. /\ ViewOnWay(q, c) => a = c /\ b = q /\ i = 1
  BY <1>1, <1>2, <1>7 DEF ViewOnWay
<1>12. CASE Idle(c)
  <2>1. ViewOnWay(q, c) /\ getGroupMembers(c) = Live
    BY <1>8, <1>12 DEF Idle
  <2>2. \A r \in Peers(c) : Agree(r, c)
    BY <1>12 DEF Idle, UpToDate, Agree
  <2> QED BY <1>5, <1>11, <2>1, <2>2
<1>13. ASSUME NEW t \in Thread, Working(c, t)
       PROVE  ViewOnWay(q, c) /\ getGroupMembers(c) = Live /\ \A r \in Peers(c) : Agree(r, c)
  <2>1. Exchanged(c, t, q) /\ pc[c][t] \in Ops /\ GroupAt(c, t)
        /\ (pc[c][t] \notin Before => \A r \in Peers(c) : Agree(r, c))
    BY <1>13 DEF Working, Role
  <2>2. pc[c][t] = "view" /\ ViewOnWay(q, c)
    BY <1>8, <1>9, <2>1 DEF Exchanged, Ops
  <2> QED BY <2>1, <2>2 DEF GroupAt, Before
<1> QED BY <1>5, <1>10, <1>11, <1>12, <1>13 DEF Led

\* A view id stands for one group: what the followers have installed under one
\* id, and what is on its way to them, agrees, up to processes that are gone.
THEOREM OneGroupPerView ==
    ASSUME "ADD" \notin LeaderMayCrash
    PROVE  Spec => []ViewsAgree
<1>1. Inv => ViewsAgree
  <2> SUFFICES ASSUME Inv, NEW v \in Views, NEW w \in Views, v[1] = w[1]
               PROVE  v[2] \ MayDiffer = w[2] \ MayDiffer
    BY DEF ViewsAgree
  <2>1. ASSUME NEW u \in Views
        PROVE  \/ \E q \in Live : /\ alivePeers[q] # {} /\ ~ Leads(q)
                                  /\ u[1] = viewId[q] /\ u[2] = getGroupMembers(q)
               \/ \E c \in Proc : /\ Led(c) /\ u[1] = viewId[c] /\ u[2] = Live
                                  /\ alivePeers[c] # {} /\ getGroupMembers(c) = Live
                                  /\ \A q \in Peers(c) : Agree(q, c)
    <3>1. CASE u \in {<<viewId[p], getGroupMembers(p)>> :
                          p \in {q \in Live : alivePeers[q] # {} /\ ~ Leads(q)}}
      BY <3>1
    <3>2. ASSUME NEW a \in Live, NEW b \in Live, NEW i \in 1..Len(chan[a][b]),
                 chan[a][b][i].type = "NEW_VIEW",
                 u = <<chan[a][b][i].id, chan[a][b][i].members>>
          PROVE  \E c \in Proc : /\ Led(c) /\ u[1] = viewId[c] /\ u[2] = Live
                                 /\ alivePeers[c] # {} /\ getGroupMembers(c) = Live
                                 /\ \A q \in Peers(c) : Agree(q, c)
      <4>1. PICK c \in Proc : /\ Led(c) /\ a = c /\ b \in Peers(c) /\ ViewOnWay(b, c)
                              /\ i = 1 /\ getGroupMembers(c) = Live
                              /\ \A q \in Peers(c) : Agree(q, c)
        BY <3>2, InFlight
      <4>2. chan[a][b][i] = NewViewMsg(viewId[c], getGroupMembers(c))
        BY <4>1 DEF ViewOnWay
      <4>3. u[1] = viewId[c] /\ u[2] = Live
        BY <3>2, <4>1, <4>2 DEF NewViewMsg
      <4>4. alivePeers[c] # {}
        BY <4>1 DEF getGroupMembers, Peers
      <4> QED BY <4>1, <4>3, <4>4
    <3>3. CASE u \in UNION {{<<chan[p][q][i].id, chan[p][q][i].members>> :
                                i \in {j \in 1..Len(chan[p][q]) : chan[p][q][j].type = "NEW_VIEW"}} :
                            p \in Live, q \in Live}
      <4>1. PICK a \in Live, b \in Live :
                u \in {<<chan[a][b][i].id, chan[a][b][i].members>> :
                           i \in {j \in 1..Len(chan[a][b]) : chan[a][b][j].type = "NEW_VIEW"}}
        BY <3>3
      <4>2. PICK i \in 1..Len(chan[a][b]) :
                /\ chan[a][b][i].type = "NEW_VIEW"
                /\ u = <<chan[a][b][i].id, chan[a][b][i].members>>
        BY <4>1
      <4> QED BY <3>2, <4>2
    <3> QED BY <3>1, <3>3 DEF Views
  <2>2. ASSUME NEW c \in Proc, Led(c) PROVE v[2] \ MayDiffer = w[2] \ MayDiffer
    <3>1. ASSUME NEW d \in Proc, Led(d) PROVE d = c
      <4> SUFFICES ASSUME d # c PROVE FALSE
        OBVIOUS
      <4>1. d \in Peers(c) /\ c \in Peers(d) /\ ~ Following(d, c)
        <5>1. Following(d, c) => ~ Resting(d) /\ \A t \in Thread : ~ Working(d, t)
          BY DEF Following, Resting, Working, Role, Thread, Ops
        <5> QED BY <2>2, <3>1, <5>1 DEF Led, Peers, Idle, Joining, Losing
      <4>2. PICK j \in Proc : Joining(c, j)
        BY <2>2, <4>1 DEF Led, Idle, Losing, Working
      <4>3. j = d /\ pc[d]["main"] = "findLeader"
        BY <4>1, <4>2 DEF Joining
      <4>4. ~ Resting(d) /\ \A t \in Thread : ~ Working(d, t)
        BY <4>3 DEF Resting, Working, Role, Thread, Ops
      <4> QED BY <3>1, <4>4 DEF Led, Idle, Joining, Losing
    <3>2. Leads(c)
      BY <2>2 DEF Led, Idle, Joining, Losing, Working, Role, Resting, Leads, Live, Thread, Ops
    <3>3. ASSUME NEW u \in Views
          PROVE  \/ \E q \in Peers(c) : /\ alivePeers[q] # {}
                                        /\ u[1] = viewId[q] /\ u[2] = getGroupMembers(q)
                 \/ /\ u[1] = viewId[c] /\ u[2] = Live
                    /\ alivePeers[c] # {} /\ getGroupMembers(c) = Live
                    /\ \A q \in Peers(c) : Agree(q, c)
      BY <2>1, <3>1, <3>2 DEF Peers
    <3>4. \A q, r \in Peers(c) : Agree(q, r)
      BY <2>2 DEF Led
    <3>5. CASE /\ v[1] = viewId[c] /\ v[2] = Live
               /\ alivePeers[c] # {} /\ getGroupMembers(c) = Live
               /\ \A q \in Peers(c) : Agree(q, c)
      BY <3>3, <3>5 DEF Agree
    <3>6. CASE \E q \in Peers(c) : /\ alivePeers[q] # {}
                                   /\ v[1] = viewId[q] /\ v[2] = getGroupMembers(q)
      BY <3>3, <3>4, <3>6 DEF Agree
    <3> QED BY <3>3, <3>5, <3>6
  <2>3. ASSUME NEW l \in Proc, NEW m \in Proc, Election(l, m),
               NEW u \in Views, ~ \E c \in Proc : Led(c)
        PROVE  u[2] \ MayDiffer = Live
    <3>1. MayDiffer = Proc \ Live
      BY <2>3 DEF Election, Dead, MayDiffer
    <3>2. PICK q \in Live : u[2] = getGroupMembers(q)
      BY <2>1, <2>3
    <3>3. Live \subseteq getGroupMembers(q) /\ getGroupMembers(q) \subseteq Proc
      BY <2>3 DEF Election, Elector, getGroupMembers, Inv, PeerTypes, Live
    <3> QED BY <3>1, <3>2, <3>3 DEF Live
  <2>4. ASSUME ~ \E c \in Proc : Led(c) PROVE ~ Empty /\ ~ \E p \in Proc : First(p)
    <3>1. \E q \in Live : alivePeers[q] # {}
      BY <2>1, <2>4
    <3> QED BY <3>1 DEF Empty, First
  <2> QED BY <2>2, <2>3, <2>4 DEF Inv, Phase
<1> QED BY <1>1, InvAlways, PTL

\* A process never goes back to an older view id while it lives, also when the
\* leader crashed after it sent the new view to some only: the next leader is
\* the first one the view was sent to.
THEOREM ViewIdsGrow ==
    ASSUME "ADD" \notin LeaderMayCrash
    PROVE  Spec => ViewIdMonotone
<1> DEFINE Grow == \A p \in Live : viewId'[p] >= viewId[p]
<1>1. ASSUME Inv, [Next]_vars PROVE Grow
  <2>1. viewId \in [Proc -> Nat \ {0}] /\ \A p \in Live : p \in Proc
    BY <1>1 DEF Inv, Types, Live
  <2>2. UNCHANGED viewId => Grow
    BY <2>1
  <2>3. ASSUME NEW p \in Proc, NEW t \in Thread, ModifyGroup(p, t) PROVE Grow
    <3>1. CASE InstallView(p, t)
      <4>1. viewId' = [viewId EXCEPT ![p] = @ + 1]
        BY <3>1 DEF InstallView
      <4> QED BY <2>1, <4>1
    <3>2. CASE LockGroup(p, t) \/ ReadViewId(p, t) \/ LockView(p, t) \/ EndView(p, t)
      BY <2>2, <3>2 DEF LockGroup, ReadViewId, LockView, EndView, state
    <3>3. CASE sendRequestMsg(p, t) \/ RequestsSent(p, t) \/ waitForOkMsg(p, t) \/ sendNewViewMsg(p, t)
      BY <2>2, <3>3 DEF sendRequestMsg, RequestsSent, waitForOkMsg, sendNewViewMsg, Abort, state
    <3> QED BY <2>3, <3>1, <3>2, <3>3 DEF ModifyGroup
  <2>4. ASSUME NEW p \in Proc, startAsFollower(p) PROVE Grow
    <3>1. p \in Live /\ pc[p]["main"] = "follow" /\ chan[leaderPeerId[p]][p] # <<>>
      BY <2>4 DEF startAsFollower, At, Live, Recv
    <3>2. ~ Empty /\ ~ \E q \in Proc : First(q)
      BY <3>1 DEF Empty, First
    <3>3. ASSUME NEW l, leaderPeerId[p] = l, NEW msg, chan[l][p] = <<msg>>,
                 \/ msg.type = "REQUEST"
                 \/ msg.type = "NEW_VIEW" /\ msg.id \in Nat /\ msg.id >= viewId[p]
          PROVE  Grow
      <4>1. CASE msg.type = "REQUEST"
        <5>1. processRequestMsg(p, l, msg)
          BY <2>4, <3>3, <4>1, RequestTaken
        <5> QED BY <2>2, <5>1 DEF processRequestMsg
      <4>2. CASE msg.type = "NEW_VIEW" /\ msg.id \in Nat /\ msg.id >= viewId[p]
        <5>1. processNewViewMsg(p, l, msg)
          BY <2>4, <3>3, <4>2, ViewTaken
        <5>2. viewId' = [viewId EXCEPT ![p] = msg.id]
          BY <5>1 DEF processNewViewMsg
        <5> QED BY <2>1, <4>2, <5>2
      <4> QED BY <3>3, <4>1, <4>2
    <3>4. ASSUME NEW c \in Proc, Led(c) PROVE Grow
      <4>1. /\ p \in Peers(c) /\ leaderPeerId[p] = c
            /\ \/ \E t \in Thread : chan[c][p] = <<request[c][t]>>
               \/ ViewOnWay(p, c)
        BY <1>1, <2>4, <3>4, FollowState DEF Following
      <4>2. viewId[c] \in Nat /\ viewId[c] >= viewId[p]
        BY <2>1, <3>1, <3>4, <4>1 DEF Led
      <4>3. CASE \E t \in Thread : chan[c][p] = <<request[c][t]>>
        <5>1. PICK t \in Thread : chan[c][p] = <<request[c][t]>>
          BY <4>3
        <5>2. PICK msg : msg = request[c][t]
          OBVIOUS
        <5>3. msg.type = "REQUEST"
          BY <1>1, <5>2 DEF Inv, Types, Request
        <5> QED BY <3>3, <4>1, <5>1, <5>2, <5>3
      <4>4. CASE ViewOnWay(p, c)
        <5>1. PICK msg : msg = NewViewMsg(viewId[c], getGroupMembers(c))
          OBVIOUS
        <5>2. msg.type = "NEW_VIEW" /\ msg.id = viewId[c] /\ chan[c][p] = <<msg>>
          BY <4>4, <5>1 DEF NewViewMsg, ViewOnWay
        <5> QED BY <3>3, <4>1, <4>2, <5>2
      <4> QED BY <4>1, <4>3, <4>4
    <3>5. ASSUME NEW l \in Proc, NEW m \in Proc, Election(l, m) PROVE Grow
      <4>1. ~ Waiting(p, l) /\ ~ Called(p, l, m) /\ ~ (Following(p, m) /\ chan[m][p] = <<>>)
        BY <3>1 DEF Waiting, Called, Following
      <4>2. leaderPeerId[p] = l /\ chan[l][p] # <<>>
        BY <3>1, <3>5, <4>1, Place DEF Leaderless
      <4>3. Left(p, l)
        BY <3>1, <3>5 DEF Election, Elector
      <4>4. PICK msg : msg = Head(chan[l][p])
        OBVIOUS
      <4>5. /\ chan[l][p] = <<msg>>
            /\ \/ msg.type = "REQUEST"
               \/ msg.type = "NEW_VIEW" /\ msg.id \in Nat /\ msg.id >= viewId[p]
        BY <4>2, <4>3, <4>4 DEF Left, Request, NewViewMsg
      <4> QED BY <3>3, <4>2, <4>5
    <3> QED BY <1>1, <3>2, <3>4, <3>5 DEF Inv, Phase
  <2>5. ASSUME NEW p \in Proc, MainThread(p) PROVE Grow
    <3>1. CASE TryHost(p) \/ NoLeaderFound(p) \/ startAsLeader(p) \/ LoseLeader(p) \/ AwaitCrash(p)
      BY <2>2, <3>1 DEF TryHost, NoLeaderFound, startAsLeader, LoseLeader, AwaitCrash, state
    <3>2. CASE BecomeLeader(p) \/ sendNewLeaderMsg(p) \/ NewLeaderSent(p) \/ CompletePending(p)
      BY <2>2, <3>2 DEF BecomeLeader, sendNewLeaderMsg, NewLeaderSent, CompletePending, state
    <3>3. CASE waitForPendingRequestMsg(p) \/ AwaitLeader(p) \/ AcceptLeader(p) \/ AnswerLeader(p)
      BY <2>2, <3>3 DEF waitForPendingRequestMsg, AwaitLeader, AcceptLeader, AnswerLeader, Abort, state
    <3>4. "main" \in Thread
      BY DEF Thread
    <3> QED BY <2>3, <2>4, <2>5, <3>1, <3>2, <3>3, <3>4 DEF MainThread
  <2>6. ASSUME NEW p \in Proc, DetectorThread(p) PROVE Grow
    <3>1. "detector" \in Thread
      BY DEF Thread
    <3>2. ASSUME NEW q \in Proc \ {p}, handlePeerFailure(p, q) PROVE Grow
      BY <2>2, <3>2 DEF handlePeerFailure
    <3> QED BY <2>3, <2>6, <3>1, <3>2 DEF DetectorThread
  <2>7. ASSUME NEW p \in Proc, Restart(p) PROVE Grow
    <3>1. viewId' = [viewId EXCEPT ![p] = 1] /\ p \notin Live
      BY <2>7 DEF Restart, Live
    <3> QED BY <2>1, <3>1
  <2>8. ASSUME NEW p \in Proc, Start(p) \/ Crash(p) PROVE Grow
    BY <2>2, <2>8 DEF Start, Crash, state
  <2>9. ASSUME NEW p \in Proc, NEW q \in Proc \ {p}, HeartBeat(p, q) PROVE Grow
    BY <2>2, <2>9 DEF HeartBeat, state
  <2>10. CASE UNCHANGED vars
    BY <2>2, <2>10 DEF vars, state
  <2> QED BY <1>1, <2>5, <2>6, <2>7, <2>8, <2>9, <2>10 DEF Next
<1>2. Inv /\ [Next]_vars => [Grow]_vars
  BY <1>1
<1> QED BY <1>2, InvAlways, PTL DEF Spec, ViewIdMonotone
=============================================================================
