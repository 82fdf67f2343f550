------------------------ MODULE MembershipElection ------------------------
(***************************************************************************)
(* Lemmas about Membership: a leader goes, and the next one is elected.    *)
(***************************************************************************)
EXTENDS MembershipSteps

\* A process goes: what holds in every phase stays true.
LEMMA GoneKeeps ==
    ASSUME Inv, NEW c \in Live, Gone(c, "crashed"), UNCHANGED <<pc, local, state, net>>
    PROVE  /\ Types' /\ PeerTypes' /\ History'
           /\ Live' = Live \ {c} /\ Dead' = Dead \cup {c}
           /\ goneAt'[c] = crashes'
           /\ heard'[c] = {} /\ \A q \in Proc \ {c} : heard'[q] = heard[q]
           /\ UNCHANGED <<pc, request, todo, newViewId, leaderPeerId, requestCounter, viewId,
                          alivePeers, tcpClientMap, pendingRequest, leaderCrashed, listening,
                          backlog, chan>>
<1>1. /\ status' = [status EXCEPT ![c] = "crashed"]
      /\ crashes' = crashes + 1
      /\ goneAt' = [goneAt EXCEPT ![c] = crashes + 1]
      /\ heard' = [heard EXCEPT ![c] = {}]
  BY DEF Gone
<1>2. /\ status \in [Proc -> {"down", "up", "crashed"}] /\ goneAt \in [Proc -> Nat]
      /\ crashes \in Nat /\ heard \in [Proc -> SUBSET Proc] /\ c \in Proc /\ status[c] = "up"
  BY DEF Inv, Types, PeerTypes, Live
<1>3. UNCHANGED <<pc, request, todo, newViewId, leaderPeerId, requestCounter, viewId,
                  alivePeers, tcpClientMap, pendingRequest, leaderCrashed, listening,
                  backlog, chan>>
  BY DEF local, state, net
<1>4. /\ status'[c] = "crashed" /\ goneAt'[c] = crashes + 1 /\ heard'[c] = {}
      /\ \A q \in Proc \ {c} : /\ status'[q] = status[q] /\ goneAt'[q] = goneAt[q]
                               /\ heard'[q] = heard[q]
  BY <1>1, <1>2
<1>5. Live' = Live \ {c} /\ Dead' = Dead \cup {c}
  BY <1>2, <1>4 DEF Live, Dead
<1>6. Types'
  <2>1. /\ status' \in [Proc -> {"down", "up", "crashed"}] /\ crashes' \in Nat
        /\ goneAt' \in [Proc -> Nat]
    BY <1>1, <1>2
  <2> QED BY <1>3, <2>1 DEF Inv, Types
<1>7. PeerTypes'
  <2>1. heard' \in [Proc -> SUBSET Proc] /\ \A q \in Proc : q \notin heard'[q]
    BY <1>1, <1>2, <1>4 DEF Inv, PeerTypes
  <2> QED BY <1>3, <2>1 DEF Inv, PeerTypes
<1>8. History'
  <2>1. \A r \in Proc : status'[r] = "down" => status[r] = "down"
    BY <1>2, <1>4
  <2>2. \A r \in Proc : Unused(r)' = Unused(r)
    BY <1>3 DEF Unused
  <2>3. \A r \in Proc : status'[r] # "up" => heard'[r] = {}
    BY <1>4 DEF Inv, History
  <2>4. \A r \in Proc : \A q \in heard'[r] : status'[q] # "down"
    BY <1>2, <1>4 DEF Inv, History
  <2>5. \A r \in Proc : (goneAt'[r] > 0 <=> status'[r] = "crashed") /\ goneAt'[r] <= crashes'
    BY <1>1, <1>2, <1>4 DEF Inv, History
  <2>6. \A q, r \in Proc : goneAt'[q] > 0 /\ goneAt'[q] = goneAt'[r] => q = r
    <3>1. \A q \in Proc \ {c} : goneAt'[q] < goneAt'[c]
      BY <1>2, <1>4 DEF Inv, History
    <3>2. \A q, r \in Proc \ {c} : goneAt'[q] > 0 /\ goneAt'[q] = goneAt'[r] => q = r
      BY <1>4 DEF Inv, History
    <3>3. \A q \in Proc : goneAt'[q] \in Nat
      BY <1>2, <1>4
    <3> QED BY <3>1, <3>2, <3>3
  <2> QED BY <2>1, <2>2, <2>3, <2>4, <2>5, <2>6 DEF Inv, History
<1> QED BY <1>1, <1>3, <1>4, <1>5, <1>6, <1>7, <1>8

\* The leader goes while its followers could go on without it.
LEMMA LeaderGone ==
    ASSUME Inv, NEW c \in Live, Led(c), HeardAll, Descending(Peers(c), c),
           \E d \in Dead \cup {c} : listening[d],
           Live \subseteq getGroupMembers(c),
           \A q \in Peers(c) :
               /\ Following(q, c)
               /\ Live \subseteq getGroupMembers(q) /\ Harmless(pendingRequest[q])
               /\ \/ chan[c][q] = <<>>
                  \/ ViewOnWay(q, c)
                  \/ \E r \in Request : Harmless(r) /\ chan[c][q] = <<r>>,
           Gone(c, "crashed"), UNCHANGED <<pc, local, state, net>>
    PROVE  Inv'
<1>1. /\ Types' /\ PeerTypes' /\ History'
      /\ Live' = Live \ {c} /\ Dead' = Dead \cup {c}
      /\ goneAt'[c] = crashes'
      /\ heard'[c] = {} /\ \A q \in Proc \ {c} : heard'[q] = heard[q]
      /\ UNCHANGED <<pc, request, todo, newViewId, leaderPeerId, requestCounter, viewId,
                     alivePeers, tcpClientMap, pendingRequest, leaderCrashed, listening,
                     backlog, chan>>
  BY GoneKeeps
<1>2. Live \subseteq Proc /\ Peers(c) = Live'
  BY <1>1 DEF Live, Peers
<1>3. CASE Live' = {}
  BY <1>1, <1>3 DEF Inv, Phase, Empty
<1>4. CASE Live' # {}
  <2>1. PICK m \in Live' : \A q \in Live' : m <= q
    BY <1>1, <1>2, <1>4, MinLowest
  <2>2. \A q : getGroupMembers(q)' = getGroupMembers(q)
    BY <1>1 DEF getGroupMembers
  <2>3. \A q \in Live' : Following(q, c)
    BY <1>2
  <2>4. HeardAll'
    BY <1>1, <1>2 DEF HeardAll
  <2>5. Descending(Live, c)'
    <3>1. \A q : Eff(q, c)' = Eff(q, c)
      BY <1>1 DEF Eff
    <3> QED BY <1>2, <3>1 DEF Descending
  <2>6. ASSUME NEW q \in Live'
        PROVE  Live' \subseteq getGroupMembers(q)' /\ Harmless(pendingRequest[q])'
    <3>1. Live \subseteq getGroupMembers(q) /\ Harmless(pendingRequest[q])
      BY <1>2
    <3> QED BY <1>1, <2>2, <3>1 DEF Harmless
  <2>7. ASSUME NEW q \in Live'
        PROVE  Left(q, c)'
    <3> DEFINE msg == Head(chan[c][q])
    <3>1. CASE chan[c][q] = <<>>
      BY <1>1, <3>1 DEF Left
    <3>2. CASE ViewOnWay(q, c)
      <4>1. /\ chan[c][q] = <<NewViewMsg(viewId[c], getGroupMembers(c))>>
            /\ msg = NewViewMsg(viewId[c], getGroupMembers(c))
        BY <3>2, OneMessage DEF ViewOnWay
      <4>2. /\ msg.id = viewId[c] /\ msg.members = getGroupMembers(c)
        BY <4>1 DEF NewViewMsg
      <4>3. viewId[c] \in Nat /\ viewId[c] >= viewId[q] /\ viewId[q] \in Nat
        <5>1. q \in Peers(c) /\ q \in Proc /\ c \in Proc
          BY <1>1, <1>2
        <5>2. viewId[q] \in Nat /\ viewId[c] \in Nat
          BY <5>1 DEF Inv, Types
        <5> QED BY <5>1, <5>2 DEF Led
      <4>4. getGroupMembers(c) \in SUBSET Proc
        BY <1>2 DEF getGroupMembers, Inv, PeerTypes
      <4>5. /\ chan[c][q] = <<msg>> /\ msg = NewViewMsg(msg.id, msg.members)
            /\ msg.id \in Nat /\ msg.members \in SUBSET Proc
            /\ msg.id >= viewId[q] /\ Live' \subseteq msg.members
        BY <1>1, <4>1, <4>2, <4>3, <4>4
      <4>6. chan' = chan /\ viewId' = viewId
        BY <1>1
      <4> QED BY <4>5, <4>6 DEF Left
    <3>3. CASE \E r \in Request : Harmless(r) /\ chan[c][q] = <<r>>
      <4>1. PICK r \in Request : Harmless(r) /\ chan[c][q] = <<r>>
        BY <3>3
      <4>2. msg = r
        BY <4>1, OneMessage
      <4>3. Harmless(r)'
        BY <1>1, <4>1 DEF Harmless
      <4> QED BY <1>1, <4>1, <4>2, <4>3 DEF Left, Harmless
    <3> QED BY <1>2, <3>1, <3>2, <3>3
  <2>8. Leaderless(m, c)' /\ \A q \in Live' : Leaderless(q, c)'
    BY <1>1, <2>1, <2>3 DEF Leaderless, Following
  <2>9. \A q \in Live' : /\ pc'[q]["detector"] = "watch" /\ pc'[q]["main"] = "follow"
                         /\ leaderPeerId'[q] = c /\ ~ leaderCrashed'[q]
    BY <1>1, <2>3 DEF Following
  <2>10. \A a \in Proc, b \in Live' : chan'[a][b] # <<>> => a # b /\ a = c
    BY <1>1 DEF Led, Private
  <2>11. \A q \in Peers(m)' : Quiet(m, q)'
    BY <1>1, <1>2, <2>1, <2>10 DEF Quiet, Peers
  <2>12. Vacant(c, m)'
    BY <1>1, <2>8, <2>11 DEF Vacant, Peers
  <2>13. c \in Dead' /\ m \in Proc /\ \E d \in Dead' : listening'[d]
    BY <1>1, <1>2, <2>1
  <2>14. \A q \in Live' : Elector(q, c)'
    BY <1>1, <2>6, <2>7, <2>9 DEF Elector
  <2>15. PrivateTo(c, m)'
    BY <2>10 DEF PrivateTo
  <2>16. Election(c, m)'
    BY <1>1, <2>1, <2>4, <2>5, <2>12, <2>13, <2>14, <2>15 DEF Election
  <2>17. c \in Proc
    BY <1>2
  <2> QED BY <1>1, <2>13, <2>16, <2>17 DEF Inv, Phase
<1> QED BY <1>3, <1>4

\* The leader goes in the middle of a DEL.
LEMMA WorkerGone ==
    ASSUME Inv, NEW c \in Live, NEW t \in Thread, pc[c][t] \in Ops,
           request[c][t].op = "DEL",
           Gone(c, "crashed"), UNCHANGED <<pc, local, state, net>>
    PROVE  Inv'
<1>1. Led(c) /\ Working(c, t) /\ c \in Proc
  BY Worker DEF Live
<1>2. /\ Role(c, t) /\ GroupAt(c, t) /\ Replaceable(c)
      /\ \A q \in Peers(c) : Following(q, c) /\ Exchanged(c, t, q)
  BY <1>1 DEF Working
<1>3. (\E d \in Dead \cup {c} : listening[d]) /\ request[c][t].peer \in Dead
  BY <1>2 DEF Role, Dead
<1>4. Live \subseteq getGroupMembers(c)
  BY <1>2 DEF GroupAt
<1>5. request[c][t] \in Request /\ Harmless(request[c][t])
  BY <1>1, <1>3 DEF Inv, Types, Harmless
<1>6. ASSUME NEW q \in Peers(c)
      PROVE  \/ chan[c][q] = <<>>
             \/ ViewOnWay(q, c)
             \/ \E r \in Request : Harmless(r) /\ chan[c][q] = <<r>>
  <2>1. Quiet(c, q) \/ Asked(q, c, t) \/ ViewOnWay(q, c) \/ UpToDate(q, c)
    BY <1>2 DEF Exchanged, Ops
  <2> QED BY <1>5, <2>1 DEF Quiet, Asked, UpToDate
<1> QED BY <1>1, <1>2, <1>3, <1>4, <1>6, LeaderGone DEF Replaceable

\* Who looks for the next leader, or takes over, does so in an election.
LEMMA InElection ==
    ASSUME Inv, NEW p \in Live,
           pc[p]["main"] \in {"awaitCrash", "elect", "newLeader", "pending", "awaitLeader", "newLeaderMsg"}
    PROVE  \E l, m \in Proc : Election(l, m)
<1>1. ~ Empty
  BY DEF Empty
<1>2. ~ \E q \in Proc : First(q)
  BY DEF First
<1>3. ASSUME NEW c \in Proc, Led(c) PROVE FALSE
  <2>1. CASE p = c
    <3>1. ~ Resting(c)
      BY <2>1 DEF Resting
    <3>2. \A t \in Thread : ~ Working(c, t)
      BY <2>1 DEF Working, Role, Thread, Ops
    <3> QED BY <1>3, <3>1, <3>2 DEF Led, Idle, Joining, Losing
  <2>2. CASE p # c
    <3>1. ~ Following(p, c) /\ pc[p]["main"] # "findLeader"
      BY DEF Following
    <3>2. p \in Peers(c)
      BY <2>2 DEF Peers
    <3> QED BY <1>3, <3>1, <3>2 DEF Led, Idle, Joining, Losing, Working
  <2> QED BY <2>1, <2>2
<1> QED BY <1>1, <1>2, <1>3 DEF Inv, Phase

\* What an election is made of.
LEMMA ElectionState ==
    ASSUME Inv, NEW l \in Proc, NEW m \in Proc, Election(l, m)
    PROVE  /\ l # m /\ l \in Dead /\ m \in Live /\ l \notin Live
           /\ status[l] = "crashed" /\ goneAt[l] = crashes
           /\ \A q \in Live : q \in Proc /\ m <= q
           /\ \A q \in Peers(m) : q \in Proc /\ q # m /\ q # l /\ q \in Live
<1>1. l \in Dead /\ m \in Live /\ goneAt[l] = crashes
  BY DEF Election
<1>2. PICK d \in Dead : listening[d]
  BY DEF Election
<1>3. d \in Proc /\ status[d] \in {"down", "crashed"}
  BY <1>2 DEF Dead, Live, Inv, Types
<1>4. status[d] = "crashed"
  BY <1>2, <1>3 DEF Inv, History, Unused
<1>5. goneAt[d] > 0 /\ goneAt[d] <= crashes /\ goneAt[d] \in Nat /\ crashes \in Nat
  BY <1>3, <1>4 DEF Inv, History, Types
<1>6. status[l] = "crashed"
  BY <1>1, <1>5 DEF Inv, History
<1> QED BY <1>1, <1>6 DEF Election, Dead, Live, Peers

\* In a step that leaves the variables of r and its streams with l and m alone,
\* r keeps its place in the election.
LEMMA SameElector ==
    ASSUME NEW l, NEW m, NEW r, UNCHANGED status,
           pc'[r] = pc[r], leaderPeerId'[r] = leaderPeerId[r], listening'[r] = listening[r],
           backlog'[r] = backlog[r], leaderCrashed'[r] = leaderCrashed[r],
           pendingRequest'[r] = pendingRequest[r], alivePeers'[r] = alivePeers[r],
           viewId'[r] = viewId[r], heard'[r] = heard[r],
           chan'[l][r] = chan[l][r], chan'[m][r] = chan[m][r], chan'[r][m] = chan[r][m]
    PROVE  /\ Elector(r, l)' = Elector(r, l) /\ Leaderless(r, l)' = Leaderless(r, l)
           /\ Waiting(r, l)' = Waiting(r, l) /\ Called(r, l, m)' = Called(r, l, m)
           /\ Following(r, m)' = Following(r, m) /\ Quiet(m, r)' = Quiet(m, r)
           /\ Eff(r, l)' = Eff(r, l)
<1>1. Live' = Live /\ Dead' = Dead
  BY DEF Live, Dead
<1>2. Left(r, l)' = Left(r, l)
  BY <1>1 DEF Left, Harmless
<1>3. Elector(r, l)' = Elector(r, l)
  BY <1>1, <1>2 DEF Elector, getGroupMembers, Harmless
<1>4. Leaderless(r, l)' = Leaderless(r, l) /\ Waiting(r, l)' = Waiting(r, l)
  BY <1>1 DEF Leaderless, Waiting
<1>5. Following(r, m)' = Following(r, m) /\ Quiet(m, r)' = Quiet(m, r) /\ Eff(r, l)' = Eff(r, l)
  BY DEF Following, Quiet, Eff
<1>6. Called(r, l, m)' = Called(r, l, m)
  BY <1>5 DEF Called
<1> QED BY <1>3, <1>4, <1>5, <1>6

\* In an election, a step of p in which it changes its own variables, or takes
\* a message of l, keeps Inv, if p stays in its place.
LEMMA ElectionStep ==
    ASSUME Inv, NEW l \in Proc, NEW m \in Proc, Election(l, m), NEW p \in Live,
           Types', PeerTypes',
           UNCHANGED <<status, crashes, goneAt, request, todo>>,
           \A r \in Proc \ {p} :
               /\ pc'[r] = pc[r] /\ leaderPeerId'[r] = leaderPeerId[r]
               /\ listening'[r] = listening[r] /\ backlog'[r] = backlog[r]
               /\ leaderCrashed'[r] = leaderCrashed[r] /\ pendingRequest'[r] = pendingRequest[r]
               /\ alivePeers'[r] = alivePeers[r] /\ tcpClientMap'[r] = tcpClientMap[r]
               /\ viewId'[r] = viewId[r] /\ heard'[r] = heard[r],
           \A a, b \in Proc : chan'[a][b] # chan[a][b] => (a = l /\ b = p) \/ (a = p /\ b = l),
           \A q \in heard'[p] : q \in heard[p] \/ q \in Live,
           Live \ {p} \subseteq heard'[p],
           Elector(p, l)', Eff(p, l)' = Eff(p, l),
           Leaderless(p, l) \/ Waiting(p, l) => (Leaderless(p, l) \/ Waiting(p, l))',
           Called(p, l, m) => Called(p, l, m)',
           Following(p, m) => Following(p, m)',
           p = m => \/ Vacant(l, m) /\ Leaderless(m, l)'
                    \/ /\ Taking(l, m)
                       /\ pc'[m] = pc[m] /\ leaderPeerId'[m] = leaderPeerId[m]
                       /\ listening'[m] = listening[m] /\ backlog'[m] = backlog[m]
                       /\ leaderCrashed'[m] = leaderCrashed[m]
                       /\ alivePeers'[m] = alivePeers[m] /\ tcpClientMap'[m] = tcpClientMap[m]
    PROVE  Inv'
<1>1. /\ l # m /\ l \in Dead /\ m \in Live /\ l \notin Live /\ p # l /\ p \in Proc
      /\ status[l] = "crashed" /\ goneAt[l] = crashes
      /\ \A q \in Live : q \in Proc /\ m <= q
      /\ \A q \in Peers(m) : q \in Proc /\ q # m /\ q # l /\ q \in Live
  BY ElectionState
<1>2. Live' = Live /\ Dead' = Dead /\ Peers(m)' = Peers(m)
  BY DEF Live, Dead, Peers
<1>3. History'
  <2>1. status[p] = "up"
    BY DEF Live
  <2>2. \A a, b \in Proc : status[a] = "down" \/ status[b] = "down" => chan'[a][b] = chan[a][b]
    BY <1>1, <2>1
  <2> QED BY <1>1, <2>2, SameHistory
<1>4. \A r \in Live \ {p} :
          /\ Elector(r, l)' = Elector(r, l) /\ Leaderless(r, l)' = Leaderless(r, l)
          /\ Waiting(r, l)' = Waiting(r, l) /\ Called(r, l, m)' = Called(r, l, m)
          /\ Following(r, m)' = Following(r, m) /\ Eff(r, l)' = Eff(r, l)
  <2>1. TAKE r \in Live \ {p}
  <2>2. r \in Proc \ {p} /\ r # l
    BY <1>1
  <2>3. chan'[l][r] = chan[l][r] /\ chan'[m][r] = chan[m][r] /\ chan'[r][m] = chan[r][m]
    BY <1>1, <2>2
  <2> QED BY <2>2, <2>3, SameElector
<1>5. \A r \in Peers(m) : Quiet(m, r)' = Quiet(m, r)
  BY <1>1 DEF Quiet
<1>6. HeardAll'
  BY <1>1, <1>2 DEF Election, HeardAll
<1>7. Descending(Live, l)'
  <2>1. \A r \in Live : Eff(r, l)' = Eff(r, l)
    BY <1>4
  <2> QED BY <1>2, <2>1 DEF Election, Descending
<1>8. \A q \in Live : Elector(q, l)'
  BY <1>4 DEF Election
<1>9. PrivateTo(l, m)'
  BY <1>1, <1>2 DEF Election, PrivateTo
<1>10. \E d \in Dead : listening'[d]
  BY <1>1 DEF Election, Dead
<1>11. \A q \in Peers(m) : /\ Leaderless(q, l) \/ Waiting(q, l) => (Leaderless(q, l) \/ Waiting(q, l))'
                           /\ Called(q, l, m) => Called(q, l, m)'
                           /\ Following(q, m) => Following(q, m)'
  BY <1>1, <1>4
<1>12. CASE Vacant(l, m)
  <2>1. Leaderless(m, l)'
    <3>1. CASE p = m
      <4>1. ~ Taking(l, m)
        BY <1>12 DEF Vacant, Taking, Calling, Collecting, Leaderless
      <4> QED BY <3>1, <4>1
    <3>2. CASE p # m
      BY <1>1, <1>4, <1>12, <3>2 DEF Vacant
    <3> QED BY <3>1, <3>2
  <2>2. Vacant(l, m)'
    BY <1>2, <1>5, <1>11, <1>12, <2>1 DEF Vacant
  <2> QED BY <1>1, <1>2, <1>3, <1>6, <1>7, <1>8, <1>9, <1>10, <2>2 DEF Election, Inv, Phase
<1>13. CASE Taking(l, m)
  <2>1. /\ pc'[m] = pc[m] /\ leaderPeerId'[m] = leaderPeerId[m]
        /\ listening'[m] = listening[m] /\ backlog'[m] = backlog[m]
        /\ leaderCrashed'[m] = leaderCrashed[m]
        /\ alivePeers'[m] = alivePeers[m] /\ tcpClientMap'[m] = tcpClientMap[m]
    <3>1. CASE p = m
      <4>1. ~ Vacant(l, m)
        BY <1>13 DEF Vacant, Taking, Calling, Collecting, Leaderless
      <4> QED BY <3>1, <4>1
    <3>2. CASE p # m
      BY <1>1, <3>2
    <3> QED BY <3>1, <3>2
  <2>2. getGroupMembers(m)' = getGroupMembers(m) /\ todo'[m] = todo[m] /\ request'[m] = request[m]
    BY <2>1 DEF getGroupMembers
  <2>3. ASSUME Calling(l, m) PROVE Taking(l, m)'
    <3>1. Calling(l, m)'
      BY <1>2, <1>5, <1>11, <2>1, <2>2, <2>3 DEF Calling
    <3> QED BY <1>13, <2>1, <3>1 DEF Taking
  <2>4. ASSUME Collecting(l, m) PROVE Taking(l, m)'
    <3>1. Connected(m, Live)' /\ Harmless(request[m]["main"])'
      BY <1>2, <2>1, <2>2, <2>4 DEF Collecting, Connected, Harmless
    <3>2. Collecting(l, m)'
      BY <1>2, <1>5, <1>11, <2>1, <2>2, <2>4, <3>1 DEF Collecting
    <3> QED BY <1>13, <2>1, <3>2 DEF Taking
  <2>5. Taking(l, m)'
    BY <1>13, <2>3, <2>4 DEF Taking
  <2> QED BY <1>1, <1>2, <1>3, <1>6, <1>7, <1>8, <1>9, <1>10, <2>5 DEF Election, Inv, Phase
<1> QED BY <1>12, <1>13 DEF Election

\* The main thread of p goes on to another step.
LEMMA MainGoes ==
    ASSUME Inv, NEW p \in Proc, NEW label \in Label, Goto(p, "main", label)
    PROVE  /\ pc' \in [Proc -> [Thread -> Label]]
           /\ pc'[p]["main"] = label /\ pc'[p]["detector"] = pc[p]["detector"]
           /\ \A r \in Proc \ {p} : pc'[r] = pc[r]
<1>1. pc' = [pc EXCEPT ![p]["main"] = label]
  BY DEF Goto
<1>2. pc \in [Proc -> [Thread -> Label]] /\ "main" \in Thread /\ "detector" \in Thread
  BY DEF Inv, Types, Thread
<1> QED BY <1>1, <1>2

\* The places in an election.
LEMMA Place ==
    ASSUME NEW l \in Proc, NEW m \in Proc, Election(l, m), NEW p \in Live
    PROVE  \/ p = m /\ Vacant(l, m) /\ Leaderless(m, l)
           \/ p = m /\ Taking(l, m) /\ pc[m]["main"] \in {"newLeader", "pending"}
           \/ /\ p \in Peers(m)
              /\ \/ Leaderless(p, l) \/ Waiting(p, l) \/ Called(p, l, m)
                 \/ Following(p, m) /\ chan[m][p] = <<>>
BY DEF Election, Vacant, Taking, Calling, Collecting, Peers, Quiet

\* The stream of the leader has ended.
LEMMA LoseLeaderStep ==
    ASSUME Inv, NEW p \in Proc, LoseLeader(p)
    PROVE  Inv'
<1>1. p \in Live /\ pc[p]["main"] = "follow" /\ "main" \in Thread
  BY DEF LoseLeader, At, Live, Thread
<1>2. status[leaderPeerId[p]] # "up"
  BY DEF LoseLeader, Recv
<1>3. /\ pc' = [pc EXCEPT ![p]["main"] = "awaitCrash"]
      /\ UNCHANGED <<request, todo, newViewId, leaderPeerId, requestCounter, viewId, alivePeers,
                     tcpClientMap, pendingRequest, leaderCrashed, listening,
                     backlog, chan, status, heard, crashes, goneAt>>
  BY DEF LoseLeader, Goto, local, state, net, world
<1>4. chan[leaderPeerId[p]][p] = <<>>
  BY DEF LoseLeader, Recv
<1>5. ASSUME NEW c \in Proc, Led(c) PROVE FALSE
  <2>1. p # c
    BY <1>1, <1>5 DEF Led, Idle, Joining, Losing, Working, Role, Resting, Ops, Thread
  <2>2. Following(p, c)
    BY <1>1, <1>5, <2>1 DEF Led, Idle, Joining, Losing, Working, Peers
  <2> QED BY <1>2, <1>5, <2>2 DEF Following, Led, Live
<1>6. ~ Empty /\ ~ \E q \in Proc : First(q)
  BY <1>1 DEF Empty, First
<1>7. PICK l, m \in Proc : Election(l, m)
  BY <1>5, <1>6 DEF Inv, Phase
<1>8. ~ Waiting(p, l)
  BY <1>1 DEF Waiting
<1>9. ~ Following(p, m) /\ ~ Called(p, l, m)
  BY <1>1, <1>2, <1>7 DEF Following, Called, Election, Live
<1>10. /\ Leaderless(p, l)
       /\ p = m => Vacant(l, m)
  BY <1>1, <1>7, <1>8, <1>9, Place DEF Peers
<1>11. /\ pc'[p]["main"] = "awaitCrash" /\ pc'[p]["detector"] = pc[p]["detector"]
       /\ \A r \in Proc \ {p} : pc'[r] = pc[r]
       /\ pc' \in [Proc -> [Thread -> Label]]
  <2>1. Goto(p, "main", "awaitCrash") /\ "awaitCrash" \in Label
    BY DEF LoseLeader, Label
  <2> QED BY <2>1, MainGoes
<1>12. Types' /\ PeerTypes'
  <2>1. UNCHANGED <<request, todo, newViewId, leaderPeerId, requestCounter, viewId, alivePeers,
                    tcpClientMap, pendingRequest, leaderCrashed, listening,
                    backlog, chan, status, heard, crashes, goneAt>>
    BY <1>3
  <2> QED BY <1>11, <2>1 DEF Inv, Types, PeerTypes
<1>13. Elector(p, l)'
  <2>1. Elector(p, l)
    BY <1>1, <1>7 DEF Election
  <2>2. chan[l][p] = <<>>
    BY <1>4, <1>10 DEF Leaderless
  <2>3. Live' = Live /\ Dead' = Dead /\ getGroupMembers(p)' = getGroupMembers(p)
    BY <1>3 DEF Live, Dead, getGroupMembers
  <2> QED BY <1>3, <1>11, <2>1, <2>2, <2>3 DEF Elector, Left, Harmless
<1>14. Leaderless(p, l)'
  BY <1>3, <1>10, <1>11 DEF Leaderless
<1>15. Eff(p, l)' = Eff(p, l)
  BY <1>3 DEF Eff
<1>16. Live \ {p} \subseteq heard'[p]
  BY <1>1, <1>3, <1>7 DEF Election, HeardAll
<1> QED
  BY <1>1, <1>3, <1>7, <1>8, <1>9, <1>10, <1>11, <1>12, <1>13, <1>14, <1>15, <1>16, ElectionStep

\* The failure detector agrees.
LEMMA AwaitCrashStep ==
    ASSUME Inv, NEW p \in Proc, AwaitCrash(p)
    PROVE  Inv'
<1>1. p \in Live /\ pc[p]["main"] = "awaitCrash" /\ leaderCrashed[p] /\ "main" \in Thread
  BY DEF AwaitCrash, At, Live, Thread
<1>2. /\ pc' = [pc EXCEPT ![p]["main"] = "elect"]
      /\ leaderCrashed' = [leaderCrashed EXCEPT ![p] = FALSE]
      /\ UNCHANGED <<request, todo, newViewId, leaderPeerId, requestCounter, viewId, alivePeers,
                     tcpClientMap, pendingRequest, listening,
                     backlog, chan, status, heard, crashes, goneAt>>
  BY DEF AwaitCrash, Goto, local, net, world
<1>3. PICK l, m \in Proc : Election(l, m)
  BY <1>1, InElection
<1>4. ~ Waiting(p, l) /\ ~ Following(p, m) /\ ~ Called(p, l, m)
  BY <1>1 DEF Waiting, Following, Called
<1>5. /\ Leaderless(p, l)
      /\ p = m => Vacant(l, m)
  BY <1>1, <1>3, <1>4, Place DEF Peers
<1>6. /\ pc'[p]["main"] = "elect" /\ pc'[p]["detector"] = pc[p]["detector"]
      /\ ~ leaderCrashed'[p]
      /\ \A r \in Proc \ {p} : pc'[r] = pc[r] /\ leaderCrashed'[r] = leaderCrashed[r]
      /\ pc' \in [Proc -> [Thread -> Label]] /\ leaderCrashed' \in [Proc -> BOOLEAN]
  <2>1. Goto(p, "main", "elect") /\ "elect" \in Label
    BY DEF AwaitCrash, Label
  <2>2. leaderCrashed \in [Proc -> BOOLEAN]
    BY DEF Inv, Types
  <2> QED BY <1>2, <2>1, <2>2, MainGoes
<1>7. Types' /\ PeerTypes'
  <2>1. UNCHANGED <<request, todo, newViewId, leaderPeerId, requestCounter, viewId, alivePeers,
                    tcpClientMap, pendingRequest, listening,
                    backlog, chan, status, heard, crashes, goneAt>>
    BY <1>2
  <2>2. pc' \in [Proc -> [Thread -> Label]] /\ leaderCrashed' \in [Proc -> BOOLEAN]
    BY <1>6
  <2> QED BY <2>1, <2>2 DEF Inv, Types, PeerTypes
<1>8. Elector(p, l) /\ heard[p] \subseteq Live
  BY <1>1, <1>3 DEF Election, Elector
<1>9. Live' = Live /\ Dead' = Dead /\ getGroupMembers(p)' = getGroupMembers(p)
  BY <1>2 DEF Live, Dead, getGroupMembers
<1>10. Elector(p, l)'
  BY <1>1, <1>2, <1>6, <1>8, <1>9 DEF Elector, Left, Harmless
<1>11. Live \ {p} \subseteq heard[p]
  BY <1>1, <1>3 DEF Election, HeardAll
<1>12. Leaderless(p, l)'
  <2>1. Live \cup {p} = heard[p] \cup {p}
    BY <1>1, <1>8, <1>11
  <2> QED BY <1>2, <1>5, <1>6, <1>9, <2>1 DEF Leaderless
<1>13. Eff(p, l)' = Eff(p, l)
  BY <1>2 DEF Eff
<1> QED
  BY <1>1, <1>2, <1>3, <1>4, <1>5, <1>6, <1>7, <1>10, <1>11, <1>12, <1>13, ElectionStep

\* Who is to become the leader: the lowest live process.
LEMMA NextLeader ==
    ASSUME Inv, NEW l \in Proc, NEW m \in Proc, Election(l, m), NEW p \in Live,
           pc[p]["main"] = "elect"
    PROVE  Leaderless(p, l) /\ nextLeader(p) = m /\ ~ leaderCrashed[p]
           /\ (p = m => Vacant(l, m)) /\ ~ Waiting(p, l) /\ ~ Following(p, m) /\ ~ Called(p, l, m)
<1>1. ~ Waiting(p, l) /\ ~ Following(p, m) /\ ~ Called(p, l, m)
  BY DEF Waiting, Following, Called
<1>2. Leaderless(p, l) /\ (p = m => Vacant(l, m))
  BY <1>1, Place DEF Peers
<1>3. Live = heard[p] \cup {p} /\ ~ leaderCrashed[p]
  BY <1>2 DEF Leaderless
<1>4. Live \in SUBSET Proc /\ Live # {}
  BY DEF Live
<1>5. Min(Live) \in Live /\ \A q \in Live : Min(Live) <= q
  BY <1>4, MinLowest
<1>6. m \in Live /\ \A q \in Live : m <= q
  BY DEF Election
<1>7. Live \subseteq Nat
  BY <1>4, NAssumption DEF Proc
<1>8. Min(Live) = m
  <2>1. Min(Live) <= m /\ m <= Min(Live) /\ m \in Nat /\ Min(Live) \in Nat
    BY <1>5, <1>6, <1>7
  <2> QED BY <2>1
<1> QED BY <1>1, <1>2, <1>3, <1>8 DEF nextLeader

\* A process that is not the lowest opens its server.
LEMMA AwaitLeaderStep ==
    ASSUME Inv, NEW p \in Proc, AwaitLeader(p)
    PROVE  Inv'
<1>1. p \in Live /\ pc[p]["main"] = "elect" /\ nextLeader(p) # p /\ "main" \in Thread
  BY DEF AwaitLeader, At, Live, Thread
<1>2. /\ pc' = [pc EXCEPT ![p]["main"] = "awaitLeader"]
      /\ tcpClientMap' = [tcpClientMap EXCEPT ![p] = {}]
      /\ listening' = [listening EXCEPT ![p] = TRUE]
      /\ UNCHANGED <<request, todo, newViewId, leaderPeerId, requestCounter, viewId, alivePeers,
                     pendingRequest, leaderCrashed,
                     backlog, chan, status, heard, crashes, goneAt>>
  BY DEF AwaitLeader, Goto, local, net, world
<1>3. PICK l, m \in Proc : Election(l, m)
  BY <1>1, InElection
<1>4. /\ Leaderless(p, l) /\ ~ leaderCrashed[p] /\ p # m
      /\ ~ Waiting(p, l) /\ ~ Following(p, m) /\ ~ Called(p, l, m)
  BY <1>1, <1>3, NextLeader
<1>5. /\ pc'[p]["main"] = "awaitLeader" /\ pc'[p]["detector"] = pc[p]["detector"]
      /\ listening'[p] /\ tcpClientMap'[p] = {}
      /\ \A r \in Proc \ {p} : /\ pc'[r] = pc[r] /\ listening'[r] = listening[r]
                               /\ tcpClientMap'[r] = tcpClientMap[r]
      /\ pc' \in [Proc -> [Thread -> Label]] /\ listening' \in [Proc -> BOOLEAN]
      /\ tcpClientMap' \in [Proc -> SUBSET Proc]
  <2>1. Goto(p, "main", "awaitLeader") /\ "awaitLeader" \in Label
    BY DEF AwaitLeader, Label
  <2>2. listening \in [Proc -> BOOLEAN] /\ tcpClientMap \in [Proc -> SUBSET Proc]
    BY DEF Inv, Types, PeerTypes
  <2> QED BY <1>2, <2>1, <2>2, MainGoes
<1>6. Types' /\ PeerTypes'
  <2>1. \A r \in Proc : r \notin tcpClientMap'[r]
    BY <1>5 DEF Inv, PeerTypes
  <2>2. UNCHANGED <<request, todo, newViewId, leaderPeerId, requestCounter, viewId, alivePeers,
                    pendingRequest, leaderCrashed,
                    backlog, chan, status, heard, crashes, goneAt>>
    BY <1>2
  <2>3. /\ pc' \in [Proc -> [Thread -> Label]] /\ listening' \in [Proc -> BOOLEAN]
        /\ tcpClientMap' \in [Proc -> SUBSET Proc]
    BY <1>5
  <2> QED BY <2>1, <2>2, <2>3 DEF Inv, Types, PeerTypes
<1>7. Elector(p, l)
  BY <1>1, <1>3 DEF Election
<1>8. Live' = Live /\ Dead' = Dead /\ getGroupMembers(p)' = getGroupMembers(p)
  BY <1>2 DEF Live, Dead, getGroupMembers
<1>9. Elector(p, l)'
  BY <1>1, <1>2, <1>5, <1>7, <1>8 DEF Elector, Left, Harmless
<1>10. Live \ {p} \subseteq heard[p]
  BY <1>1, <1>3 DEF Election, HeardAll
<1>11. Waiting(p, l)'
  BY <1>2, <1>4, <1>5 DEF Leaderless, Waiting
<1>12. Eff(p, l)' = Eff(p, l)
  BY <1>2 DEF Eff
<1> QED
  BY <1>1, <1>2, <1>3, <1>4, <1>5, <1>6, <1>9, <1>10, <1>11, <1>12, ElectionStep

\* A follower accepts the connection of the next leader.
LEMMA AcceptLeaderStep ==
    ASSUME Inv, NEW p \in Proc, AcceptLeader(p)
    PROVE  Inv'
<1>1. p \in Live /\ pc[p]["main"] = "awaitLeader" /\ backlog[p] # <<>>
  BY DEF AcceptLeader, At, Live
<1>2. PICK l, m \in Proc : Election(l, m)
  BY <1>1, InElection
<1>3. ~ Waiting(p, l) /\ ~ Following(p, m) /\ ~ Leaderless(p, l)
  BY <1>1 DEF Waiting, Following, Leaderless
<1>4. p \in Peers(m) /\ Called(p, l, m) /\ p # m
  <2>1. ~ Leaderless(m, l) \/ p # m
    BY <1>3
  <2> QED BY <1>1, <1>2, <1>3, <2>1, Place DEF Peers
<1>5. /\ leaderPeerId[p] = l /\ listening[p] /\ backlog[p] = <<m>> /\ ~ leaderCrashed[p]
      /\ chan[m][p] = <<NewLeaderMsg>> /\ chan[p][m] = <<>>
  BY <1>1, <1>4 DEF Called, Following
<1>6. /\ pc' = [pc EXCEPT ![p]["main"] = "newLeaderMsg"]
      /\ leaderPeerId' = [leaderPeerId EXCEPT ![p] = m]
      /\ tcpClientMap' = [tcpClientMap EXCEPT ![p] = @ \cup {m}]
      /\ backlog' = [backlog EXCEPT ![p] = <<>>]
      /\ listening' = [listening EXCEPT ![p] = FALSE]
      /\ UNCHANGED <<request, todo, newViewId, requestCounter, viewId, alivePeers,
                     pendingRequest, leaderCrashed, chan, status, heard, crashes, goneAt>>
  <2>1. Head(backlog[p]) = m
    BY <1>5, OneMessage
  <2> QED BY <2>1 DEF AcceptLeader, Goto, local, world
<1>7. /\ pc'[p]["main"] = "newLeaderMsg" /\ pc'[p]["detector"] = pc[p]["detector"]
      /\ \A r \in Proc \ {p} : pc'[r] = pc[r]
      /\ pc' \in [Proc -> [Thread -> Label]]
  <2>1. Goto(p, "main", "newLeaderMsg") /\ "newLeaderMsg" \in Label
    BY DEF AcceptLeader, Label
  <2> QED BY <2>1, MainGoes
<1>8. /\ leaderPeerId' \in [Proc -> Proc] /\ tcpClientMap' \in [Proc -> SUBSET Proc]
      /\ backlog' \in [Proc -> Seq(Proc)] /\ listening' \in [Proc -> BOOLEAN]
      /\ leaderPeerId'[p] = m /\ tcpClientMap'[p] = tcpClientMap[p] \cup {m}
      /\ backlog'[p] = <<>> /\ ~ listening'[p]
      /\ \A r \in Proc \ {p} : /\ leaderPeerId'[r] = leaderPeerId[r] /\ tcpClientMap'[r] = tcpClientMap[r]
                               /\ backlog'[r] = backlog[r] /\ listening'[r] = listening[r]
  <2>1. /\ leaderPeerId \in [Proc -> Proc] /\ tcpClientMap \in [Proc -> SUBSET Proc]
        /\ backlog \in [Proc -> Seq(Proc)] /\ listening \in [Proc -> BOOLEAN]
    BY DEF Inv, Types, PeerTypes
  <2> QED BY <1>6, <2>1
<1>9. Types' /\ PeerTypes'
  <2>1. \A r \in Proc : r \notin tcpClientMap'[r]
    BY <1>4, <1>8 DEF Inv, PeerTypes
  <2>2. UNCHANGED <<request, todo, newViewId, requestCounter, viewId, alivePeers,
                    pendingRequest, leaderCrashed, chan, status, heard, crashes, goneAt>>
    BY <1>6
  <2>3. /\ leaderPeerId' \in [Proc -> Proc] /\ tcpClientMap' \in [Proc -> SUBSET Proc]
        /\ backlog' \in [Proc -> Seq(Proc)] /\ listening' \in [Proc -> BOOLEAN]
        /\ pc' \in [Proc -> [Thread -> Label]]
    BY <1>7, <1>8
  <2> QED BY <2>1, <2>2, <2>3 DEF Inv, Types, PeerTypes
<1>10. Elector(p, l) /\ chan[l][p] = <<>>
  BY <1>1, <1>2 DEF Election, Elector
<1>11. Live' = Live /\ Dead' = Dead /\ getGroupMembers(p)' = getGroupMembers(p)
  BY <1>6 DEF Live, Dead, getGroupMembers
<1>12. Elector(p, l)'
  BY <1>1, <1>6, <1>7, <1>10, <1>11 DEF Elector, Left, Harmless
<1>13. Called(p, l, m)'
  BY <1>5, <1>6, <1>7, <1>8 DEF Called
<1>14. Live \ {p} \subseteq heard'[p]
  BY <1>1, <1>2, <1>6 DEF Election, HeardAll
<1>15. Eff(p, l)' = Eff(p, l)
  BY <1>6 DEF Eff
<1>16. UNCHANGED <<request, todo, viewId, alivePeers,
                   pendingRequest, leaderCrashed, chan, status, heard, crashes, goneAt>>
  BY <1>6
<1> QED
  BY <1>1, <1>2, <1>3, <1>4, <1>7, <1>8, <1>9, <1>12, <1>13, <1>14, <1>15, <1>16, ElectionStep

\* The next leader takes over.
LEMMA BecomeLeaderStep ==
    ASSUME Inv, NEW p \in Proc, BecomeLeader(p)
    PROVE  Inv'
<1>1. p \in Live /\ pc[p]["main"] = "elect" /\ nextLeader(p) = p
  BY DEF BecomeLeader, At, Live
<1>2. PICK l \in Proc : Election(l, p)
  BY <1>1, InElection, NextLeader
<1>3. Vacant(l, p) /\ Leaderless(p, l) /\ ~ leaderCrashed[p]
  BY <1>1, <1>2, NextLeader
<1>4. /\ l # p /\ l \in Dead /\ l \notin Live /\ \A q \in Peers(p) : q \in Proc /\ q # p /\ q # l /\ q \in Live
  BY <1>2, ElectionState
<1>5. /\ pc' = [pc EXCEPT ![p]["main"] = "newLeader"]
      /\ tcpClientMap' = [tcpClientMap EXCEPT ![p] = {}]
      /\ alivePeers' = [alivePeers EXCEPT ![p] = @ \ {l}]
      /\ requestCounter' = [requestCounter EXCEPT ![p] = @ + 1]
      /\ todo' = [todo EXCEPT ![p]["main"] = alivePeers[p] \ {l}]
      /\ UNCHANGED <<request, newViewId, leaderPeerId, viewId, pendingRequest,
                     leaderCrashed, listening, backlog, chan, status, heard, crashes, goneAt>>
  <2>1. leaderPeerId[p] = l
    BY <1>3 DEF Leaderless
  <2> QED BY <2>1 DEF BecomeLeader, Goto, Visit, net, world
<1>6. /\ pc'[p]["main"] = "newLeader" /\ pc'[p]["detector"] = pc[p]["detector"]
      /\ \A r \in Proc \ {p} : pc'[r] = pc[r]
      /\ pc' \in [Proc -> [Thread -> Label]]
  <2>1. Goto(p, "main", "newLeader") /\ "newLeader" \in Label
    BY DEF BecomeLeader, Label
  <2> QED BY <2>1, MainGoes
<1>7. /\ tcpClientMap \in [Proc -> SUBSET Proc] /\ alivePeers \in [Proc -> SUBSET Proc]
      /\ requestCounter \in [Proc -> Nat] /\ todo \in [Proc -> [Thread -> SUBSET Proc]]
      /\ "main" \in Thread
  BY DEF Inv, Types, PeerTypes, Thread
<1>8. /\ tcpClientMap' \in [Proc -> SUBSET Proc] /\ alivePeers' \in [Proc -> SUBSET Proc]
      /\ requestCounter' \in [Proc -> Nat] /\ todo' \in [Proc -> [Thread -> SUBSET Proc]]
  BY <1>5, <1>7
<1>9. /\ tcpClientMap'[p] = {} /\ alivePeers'[p] = alivePeers[p] \ {l} /\ todo'[p]["main"] = alivePeers'[p]
      /\ \A r \in Proc \ {p} : alivePeers'[r] = alivePeers[r] /\ tcpClientMap'[r] = tcpClientMap[r]
  BY <1>5, <1>7
<1>10. UNCHANGED <<request, newViewId, leaderPeerId, viewId, pendingRequest,
                   leaderCrashed, listening, backlog, chan, status, heard, crashes, goneAt>>
  BY <1>5
<1>11. Types' /\ PeerTypes'
  <2>1. \A r \in Proc : r \notin tcpClientMap'[r] /\ r \notin alivePeers'[r]
    BY <1>9 DEF Inv, PeerTypes
  <2>2. pc' \in [Proc -> [Thread -> Label]]
    BY <1>6
  <2> QED BY <1>8, <1>10, <2>1, <2>2 DEF Inv, Types, PeerTypes
<1>12. History'
  BY <1>1, <1>6, <1>9, <1>10, SameHistory
<1>13. Live' = Live /\ Dead' = Dead /\ Peers(p)' = Peers(p)
  BY <1>10 DEF Live, Dead, Peers
<1>14. \A r \in Peers(p) :
          /\ Elector(r, l)' = Elector(r, l) /\ Leaderless(r, l)' = Leaderless(r, l)
          /\ Waiting(r, l)' = Waiting(r, l) /\ Quiet(p, r)' = Quiet(p, r)
  BY <1>4, <1>6, <1>9, <1>10, SameElector
<1>15. Elector(p, l)'
  <2>1. Elector(p, l) /\ chan[l][p] = <<>> /\ heard[p] \subseteq Live
    BY <1>1, <1>2 DEF Election, Elector
  <2>2. Live \subseteq getGroupMembers(p)'
    BY <1>4, <1>9, <2>1 DEF Elector, getGroupMembers
  <2> QED BY <1>6, <1>10, <1>13, <2>1, <2>2 DEF Elector, Left, Harmless
<1>16. HeardAll' /\ Descending(Live, l)' /\ PrivateTo(l, p)'
  <2>1. \A r : Eff(r, l)' = Eff(r, l)
    BY <1>10 DEF Eff
  <2> QED BY <1>2, <1>10, <1>13, <2>1 DEF Election, HeardAll, Descending, PrivateTo
<1>17. \A q \in Live : Elector(q, l)'
  BY <1>2, <1>14, <1>15 DEF Election, Peers
<1>18. Calling(l, p)'
  <2>1. Peers(p) \subseteq todo'[p]["main"]
    BY <1>4, <1>9, <1>13, <1>15 DEF Elector, getGroupMembers, Peers
  <2>2. \A q \in Peers(p) : Quiet(p, q)' /\ (Leaderless(q, l)' \/ Waiting(q, l)')
    BY <1>3, <1>14 DEF Vacant
  <2> QED BY <1>6, <1>9, <1>13, <2>1, <2>2 DEF Calling
<1>19. Taking(l, p)'
  BY <1>3, <1>10, <1>18 DEF Taking, Leaderless
<1>20. Election(l, p)'
  BY <1>2, <1>10, <1>13, <1>16, <1>17, <1>19 DEF Election
<1> QED BY <1>11, <1>12, <1>20 DEF Inv, Phase

\* The process that takes over is the next leader of the election.
LEMMA Taker ==
    ASSUME Inv, NEW p \in Live, pc[p]["main"] \in {"newLeader", "pending"}
    PROVE  \E l \in Proc : Election(l, p) /\ Taking(l, p)
<1>1. PICK l, m \in Proc : Election(l, m)
  BY InElection
<1>2. ~ Leaderless(p, l) /\ ~ Waiting(p, l) /\ ~ Called(p, l, m) /\ ~ Following(p, m)
  BY DEF Leaderless, Waiting, Called, Following
<1>3. p = m /\ Taking(l, m)
  BY <1>1, <1>2, Place
<1> QED BY <1>1, <1>3

\* The next leader calls a peer, or drops one that is gone.
LEMMA SendNewLeaderStep ==
    ASSUME Inv, NEW p \in Proc, sendNewLeaderMsg(p)
    PROVE  Inv'
<1>1. p \in Live /\ pc[p]["main"] = "newLeader" /\ todo[p]["main"] # {} /\ "main" \in Thread
  BY DEF sendNewLeaderMsg, At, Live, Thread
<1>2. PICK l \in Proc : Election(l, p) /\ Taking(l, p)
  BY <1>1, Taker
<1>3. Calling(l, p)
  BY <1>1, <1>2 DEF Taking, Collecting
<1>4. /\ l # p /\ l \in Dead /\ l \notin Live
      /\ \A q \in Peers(p) : q \in Proc /\ q # p /\ q # l /\ q \in Live
  BY <1>2, ElectionState
<1>5. /\ alivePeers \in [Proc -> SUBSET Proc] /\ tcpClientMap \in [Proc -> SUBSET Proc]
      /\ todo \in [Proc -> [Thread -> SUBSET Proc]] /\ backlog \in [Proc -> Seq(Proc)]
      /\ p \notin alivePeers[p]
      /\ chan = [a \in Proc |-> [b \in Proc |-> chan[a][b]]]
  BY DEF Inv, Types, PeerTypes
<1>6. PICK q \in Proc : q = Next1(p, "main") /\ q \in todo[p]["main"] /\ q \in alivePeers[p] /\ q # p
  <2>1. todo[p]["main"] \in SUBSET Proc
    BY <1>1, <1>5
  <2>2. Next1(p, "main") \in todo[p]["main"]
    BY <1>1, <2>1, MinLowest DEF Next1
  <2>3. todo[p]["main"] \subseteq alivePeers[p] /\ p \notin alivePeers[p]
    BY <1>3, <1>5 DEF Calling
  <2> QED BY <2>1, <2>2, <2>3
<1>7. /\ todo' = [todo EXCEPT ![p]["main"] = todo[p]["main"] \ {q}]
      /\ UNCHANGED <<pc, request, newViewId, leaderPeerId, requestCounter, viewId,
                     pendingRequest, leaderCrashed, listening, status, heard, crashes, goneAt>>
  BY <1>6 DEF sendNewLeaderMsg, Visited, Visit, world
<1>8. todo'[p]["main"] = todo[p]["main"] \ {q} /\ todo' \in [Proc -> [Thread -> SUBSET Proc]]
  BY <1>1, <1>5, <1>7
<1>9. Live' = Live /\ Dead' = Dead /\ Peers(p)' = Peers(p)
  BY <1>7 DEF Live, Dead, Peers
<1>10. /\ Elector(p, l) /\ HeardAll /\ Descending(Live, l) /\ PrivateTo(l, p)
       /\ \A r \in Live : Elector(r, l)
  BY <1>1, <1>2 DEF Election
<1>11. HeardAll'
  BY <1>7, <1>9, <1>10 DEF HeardAll
<1>12. CASE /\ status[q] = "up" /\ listening[q]
            /\ backlog' = [backlog EXCEPT ![q] = Append(@, p)]
            /\ chan' = [chan EXCEPT ![p][q] = Append(@, NewLeaderMsg)]
            /\ tcpClientMap' = [tcpClientMap EXCEPT ![p] = @ \cup {q}]
            /\ UNCHANGED alivePeers
  <2>1. q \in Peers(p)
    BY <1>6, <1>12 DEF Peers, Live
  <2>2. Waiting(q, l) /\ Quiet(p, q)
    BY <1>3, <1>6, <1>12, <2>1 DEF Calling, Leaderless
  <2>3. backlog[q] = <<>> /\ chan[p][q] = <<>> /\ chan[q][p] = <<>>
    BY <2>2 DEF Waiting, Quiet
  <2>4. /\ backlog' \in [Proc -> Seq(Proc)] /\ backlog'[q] = <<p>>
        /\ \A r \in Proc \ {q} : backlog'[r] = backlog[r]
        /\ tcpClientMap' \in [Proc -> SUBSET Proc] /\ tcpClientMap'[p] = tcpClientMap[p] \cup {q}
        /\ \A r \in Proc \ {p} : tcpClientMap'[r] = tcpClientMap[r]
    <3>1. Append(backlog[q], p) = <<p>> /\ <<p>> \in Seq(Proc)
      BY <2>3, OneMessage
    <3> QED BY <1>5, <1>12, <3>1
  <2>5. /\ chan'[p][q] = <<NewLeaderMsg>>
        /\ \A a, b \in Proc : a # p \/ b # q => chan'[a][b] = chan[a][b]
        /\ chan' = [a \in Proc |-> [b \in Proc |-> chan'[a][b]]]
    BY <1>5, <1>12, <2>3, OneMessage
  <2>6. Types' /\ PeerTypes'
    <3>1. \A r \in Proc : r \notin tcpClientMap'[r]
      BY <1>6, <2>4 DEF Inv, PeerTypes
    <3>2. chan' = [a \in Proc |-> [b \in Proc |-> chan'[a][b]]] /\ backlog' \in [Proc -> Seq(Proc)]
          /\ tcpClientMap' \in [Proc -> SUBSET Proc] /\ alivePeers' = alivePeers
      BY <1>12, <2>4, <2>5
    <3>3. todo' \in [Proc -> [Thread -> SUBSET Proc]]
      BY <1>8
    <3>4. UNCHANGED <<pc, request, newViewId, leaderPeerId, requestCounter, viewId,
                      pendingRequest, leaderCrashed, listening, status, heard, crashes, goneAt>>
      BY <1>7
    <3> QED BY <3>1, <3>2, <3>3, <3>4 DEF Inv, Types, PeerTypes
  <2>7. History'
    <3>1. status[p] = "up" /\ q \in Live
      BY <1>1, <1>12 DEF Live
    <3> QED BY <1>1, <1>7, <1>12, <2>4, <2>5, <3>1, SameHistory
  <2>8. \A r \in Live \ {p, q} :
           /\ Elector(r, l)' = Elector(r, l) /\ Leaderless(r, l)' = Leaderless(r, l)
           /\ Waiting(r, l)' = Waiting(r, l) /\ Called(r, l, p)' = Called(r, l, p)
           /\ Quiet(p, r)' = Quiet(p, r)
    <3>1. TAKE r \in Live \ {p, q}
    <3>2. r \in Proc /\ r # p /\ r # q
      BY DEF Live
    <3>3. chan'[l][r] = chan[l][r] /\ chan'[p][r] = chan[p][r] /\ chan'[r][p] = chan[r][p]
      BY <2>5, <3>2
    <3> QED BY <1>7, <1>12, <2>4, <3>2, <3>3, SameElector
  <2>9. \A r \in Live : chan'[l][r] = chan[l][r] /\ r \in Proc
    BY <1>4, <2>5 DEF Live
  <2>10. \A r \in {p, q} : Elector(r, l)'
    <3>1. TAKE r \in {p, q}
    <3>2. Elector(r, l) /\ r \in Live
      BY <1>1, <1>10, <1>12, <2>1, <1>4
    <3>3. getGroupMembers(r)' = getGroupMembers(r)
      BY <1>12 DEF getGroupMembers
    <3> QED BY <1>7, <1>9, <2>9, <3>2, <3>3 DEF Elector, Left, Harmless
  <2>11. \A r \in Live : Elector(r, l)'
    BY <1>10, <2>8, <2>10
  <2>12. Descending(Live, l)'
    <3>1. \A r \in Live : Eff(r, l)' = Eff(r, l)
      BY <1>7, <2>9 DEF Eff
    <3> QED BY <1>9, <1>10, <3>1 DEF Descending
  <2>13. PrivateTo(l, p)'
    <3>1. ASSUME NEW a \in Proc, NEW b \in Live, chan'[a][b] # <<>>
          PROVE  a # b /\ (a = l \/ a = p \/ (b = p /\ a \in Live))
      <4>1. CASE a = p /\ b = q
        BY <1>6, <4>1
      <4>2. CASE a # p \/ b # q
        BY <1>10, <2>5, <2>9, <3>1, <4>2 DEF PrivateTo
      <4> QED BY <4>1, <4>2
    <3> QED BY <1>9, <3>1 DEF PrivateTo
  <2>14. Called(q, l, p)'
    <3>1. chan'[q][p] = <<>>
      BY <1>6, <2>3, <2>5
    <3> QED BY <1>7, <1>12, <2>2, <2>4, <2>5, <3>1 DEF Called, Waiting
  <2>15. Calling(l, p)'
    <3>1. ASSUME NEW r \in Peers(p)
          PROVE  IF r \in todo'[p]["main"]
                 THEN Quiet(p, r)' /\ (Leaderless(r, l)' \/ Waiting(r, l)')
                 ELSE Called(r, l, p)'
      <4>1. CASE r = q
        BY <1>8, <2>14, <4>1
      <4>2. CASE r # q
        BY <1>3, <1>4, <1>8, <2>8, <4>2 DEF Calling
      <4> QED BY <4>1, <4>2
    <3>2. /\ todo'[p]["main"] \subseteq alivePeers'[p]
          /\ alivePeers'[p] \ todo'[p]["main"] \subseteq tcpClientMap'[p] \cap Live
      BY <1>3, <1>4, <1>8, <1>12, <2>1, <2>4 DEF Calling
    <3> QED BY <1>1, <1>7, <1>9, <3>1, <3>2 DEF Calling
  <2>16. Taking(l, p)'
    <3>1. backlog'[p] = backlog[p]
      BY <1>6, <2>4
    <3> QED BY <1>2, <1>7, <2>15, <3>1 DEF Taking
  <2>17. Election(l, p)'
    BY <1>2, <1>7, <1>9, <1>11, <2>11, <2>12, <2>13, <2>16 DEF Election
  <2> QED BY <2>6, <2>7, <2>17 DEF Inv, Phase
<1>13. CASE /\ status[q] # "up"
            /\ alivePeers' = [alivePeers EXCEPT ![p] = @ \ {q}]
            /\ UNCHANGED <<backlog, chan, tcpClientMap>>
  <2>1. q \notin Live
    BY <1>13 DEF Live
  <2>2. /\ alivePeers' \in [Proc -> SUBSET Proc] /\ alivePeers'[p] = alivePeers[p] \ {q}
        /\ \A r \in Proc \ {p} : alivePeers'[r] = alivePeers[r]
    BY <1>5, <1>13
  <2>3. Types' /\ PeerTypes'
    <3>1. \A r \in Proc : r \notin alivePeers'[r]
      BY <2>2 DEF Inv, PeerTypes
    <3>2. alivePeers' \in [Proc -> SUBSET Proc] /\ todo' \in [Proc -> [Thread -> SUBSET Proc]]
      BY <1>8, <2>2
    <3>3. UNCHANGED <<pc, request, newViewId, leaderPeerId, requestCounter, viewId, tcpClientMap,
                      pendingRequest, leaderCrashed, listening, backlog, chan, status, heard,
                      crashes, goneAt>>
      BY <1>7, <1>13
    <3> QED BY <3>1, <3>2, <3>3 DEF Inv, Types, PeerTypes
  <2>4. History'
    BY <1>1, <1>7, <1>13, <2>2, SameHistory
  <2>5. \A r \in Live \ {p} :
           /\ Elector(r, l)' = Elector(r, l) /\ Leaderless(r, l)' = Leaderless(r, l)
           /\ Waiting(r, l)' = Waiting(r, l) /\ Called(r, l, p)' = Called(r, l, p)
           /\ Quiet(p, r)' = Quiet(p, r)
    <3>1. TAKE r \in Live \ {p}
    <3>2. r \in Proc \ {p}
      BY DEF Live
    <3> QED BY <1>7, <1>13, <2>2, <3>2, SameElector
  <2>6. Elector(p, l)'
    <3>1. Live \subseteq getGroupMembers(p)'
      BY <1>10, <2>1, <2>2 DEF Elector, getGroupMembers
    <3> QED BY <1>7, <1>9, <1>10, <1>13, <3>1 DEF Elector, Left, Harmless
  <2>7. Descending(Live, l)' /\ PrivateTo(l, p)'
    <3>1. \A r : Eff(r, l)' = Eff(r, l)
      BY <1>7, <1>13 DEF Eff
    <3> QED BY <1>9, <1>10, <1>13, <3>1 DEF Descending, PrivateTo
  <2>8. Calling(l, p)'
    <3>1. \A r \in Peers(p) : r # q
      BY <1>4, <2>1
    <3>2. \A r \in Peers(p) :
              IF r \in todo'[p]["main"]
              THEN Quiet(p, r)' /\ (Leaderless(r, l)' \/ Waiting(r, l)')
              ELSE Called(r, l, p)'
      BY <1>3, <1>4, <1>8, <2>5, <3>1 DEF Calling
    <3>3. /\ todo'[p]["main"] \subseteq alivePeers'[p]
          /\ alivePeers'[p] \ todo'[p]["main"] \subseteq tcpClientMap'[p] \cap Live
      BY <1>3, <1>8, <1>13, <2>2 DEF Calling
    <3> QED BY <1>1, <1>7, <1>9, <3>2, <3>3 DEF Calling
  <2>9. Taking(l, p)'
    BY <1>2, <1>7, <1>13, <2>8 DEF Taking
  <2>10. \A r \in Live : Elector(r, l)'
    BY <1>10, <2>5, <2>6
  <2>11. Election(l, p)'
    BY <1>2, <1>7, <1>9, <1>11, <2>7, <2>9, <2>10 DEF Election
  <2> QED BY <2>3, <2>4, <2>11 DEF Inv, Phase
<1> QED BY <1>6, <1>12, <1>13 DEF sendNewLeaderMsg, Send

\* Every member is called or dropped.
LEMMA NewLeaderSentStep ==
    ASSUME Inv, NEW p \in Proc, NewLeaderSent(p)
    PROVE  Inv'
<1>1. p \in Live /\ pc[p]["main"] = "newLeader" /\ todo[p]["main"] = {} /\ "main" \in Thread
  BY DEF NewLeaderSent, At, Live, Thread
<1>2. PICK l \in Proc : Election(l, p) /\ Taking(l, p)
  BY <1>1, Taker
<1>3. Calling(l, p)
  BY <1>1, <1>2 DEF Taking, Collecting
<1>4. /\ l # p /\ l \in Dead /\ l \notin Live
      /\ \A q \in Peers(p) : q \in Proc /\ q # p /\ q # l /\ q \in Live
  BY <1>2, ElectionState
<1>5. alivePeers[p] \subseteq tcpClientMap[p] \cap Live /\ p \notin alivePeers[p]
  BY <1>1, <1>3 DEF Calling, Inv, PeerTypes
<1>6. Elector(p, l)
  BY <1>1, <1>2 DEF Election
<1>7. getGroupMembers(p) = Live /\ Connected(p, Live) /\ alivePeers[p] = Peers(p)
  BY <1>1, <1>5, <1>6 DEF Elector, getGroupMembers, Connected, Peers
<1>8. /\ request' = [request EXCEPT ![p]["main"] = Dummy]
      /\ todo' = [todo EXCEPT ![p]["main"] = alivePeers[p]]
      /\ UNCHANGED <<newViewId, leaderPeerId, requestCounter, viewId, alivePeers, tcpClientMap,
                     pendingRequest, leaderCrashed, listening, backlog, chan,
                     status, heard, crashes, goneAt>>
  <2>1. alivePeers[p] \cap tcpClientMap[p] = alivePeers[p]
    BY <1>5
  <2> QED BY <2>1 DEF NewLeaderSent, Visit, state, net, world
<1>9. /\ pc'[p]["main"] = "pending" /\ pc'[p]["detector"] = pc[p]["detector"]
      /\ \A r \in Proc \ {p} : pc'[r] = pc[r]
      /\ pc' \in [Proc -> [Thread -> Label]]
  <2>1. Goto(p, "main", "pending") /\ "pending" \in Label
    BY DEF NewLeaderSent, Label
  <2> QED BY <2>1, MainGoes
<1>10. /\ todo' \in [Proc -> [Thread -> SUBSET Proc]] /\ todo'[p]["main"] = alivePeers[p]
       /\ request' \in [Proc -> [Thread -> Request]] /\ request'[p]["main"] = Dummy
  <2>1. todo \in [Proc -> [Thread -> SUBSET Proc]] /\ request \in [Proc -> [Thread -> Request]]
    BY DEF Inv, Types
  <2>2. Dummy \in Request
    BY NAssumption DEF Dummy, Request
  <2>3. alivePeers[p] \in SUBSET Proc
    BY DEF Inv, PeerTypes
  <2> QED BY <1>1, <1>8, <2>1, <2>2, <2>3
<1>11. UNCHANGED <<newViewId, leaderPeerId, requestCounter, viewId, alivePeers, tcpClientMap,
                   pendingRequest, leaderCrashed, listening, backlog, chan,
                   status, heard, crashes, goneAt>>
  BY <1>8
<1>12. Types' /\ PeerTypes'
  <2>1. pc' \in [Proc -> [Thread -> Label]]
    BY <1>9
  <2> QED BY <1>10, <1>11, <2>1 DEF Inv, Types, PeerTypes
<1>13. History'
  BY <1>1, <1>9, <1>11, SameHistory
<1>14. Live' = Live /\ Dead' = Dead /\ Peers(p)' = Peers(p) /\ getGroupMembers(p)' = getGroupMembers(p)
  BY <1>11 DEF Live, Dead, Peers, getGroupMembers
<1>15. \A r \in Peers(p) :
          Elector(r, l)' = Elector(r, l) /\ Called(r, l, p)' = Called(r, l, p)
  BY <1>4, <1>9, <1>11, SameElector
<1>16. Elector(p, l)'
  BY <1>1, <1>6, <1>9, <1>11, <1>14 DEF Elector, Left, Harmless
<1>17. HeardAll' /\ Descending(Live, l)' /\ PrivateTo(l, p)'
  <2>1. \A r : Eff(r, l)' = Eff(r, l)
    BY <1>11 DEF Eff
  <2> QED BY <1>2, <1>11, <1>14, <2>1 DEF Election, HeardAll, Descending, PrivateTo
<1>18. \A q \in Live : Elector(q, l)'
  BY <1>2, <1>15, <1>16 DEF Election, Peers
<1>19. Collecting(l, p)'
  <2>1. \A q \in Peers(p) : Called(q, l, p)'
    BY <1>1, <1>3, <1>15 DEF Calling
  <2>2. Connected(p, Live)'
    BY <1>7, <1>11, <1>14 DEF Connected
  <2>3. Harmless(request[p]["main"])'
    BY <1>10 DEF Harmless, Dummy
  <2> QED BY <1>7, <1>9, <1>10, <1>11, <1>14, <2>1, <2>2, <2>3 DEF Collecting
<1>20. Taking(l, p)'
  BY <1>2, <1>11, <1>19 DEF Taking
<1>21. Election(l, p)'
  BY <1>2, <1>11, <1>14, <1>17, <1>18, <1>20 DEF Election
<1> QED BY <1>12, <1>13, <1>21 DEF Inv, Phase

\* A follower answers with its pending request.
LEMMA AnswerLeaderStep ==
    ASSUME Inv, NEW p \in Proc, AnswerLeader(p)
    PROVE  Inv'
<1>1. p \in Live /\ pc[p]["main"] = "newLeaderMsg"
  BY DEF AnswerLeader, At, Live
<1>2. PICK l, m \in Proc : Election(l, m)
  BY <1>1, InElection
<1>3. ~ Waiting(p, l) /\ ~ Following(p, m) /\ ~ Leaderless(p, l)
  BY <1>1 DEF Waiting, Following, Leaderless
<1>4. p \in Peers(m) /\ Called(p, l, m) /\ p # m /\ m \in Live
  <2>1. ~ Leaderless(m, l) \/ p # m
    BY <1>3
  <2> QED BY <1>1, <1>2, <1>3, <2>1, Place DEF Peers, Election
<1>5. /\ leaderPeerId[p] = m /\ ~ listening[p] /\ backlog[p] = <<>> /\ ~ leaderCrashed[p]
      /\ chan[m][p] = <<NewLeaderMsg>> /\ chan[p][m] = <<>>
  BY <1>1, <1>4 DEF Called, Following
<1>6. /\ l # m /\ l \in Dead /\ l \notin Live /\ p # l
      /\ \A q \in Peers(m) : q \in Proc /\ q # m /\ q # l /\ q \in Live
      /\ \A q \in Live : q \in Proc
  BY <1>1, <1>2, ElectionState
<1>7. /\ chan' = [chan EXCEPT ![m][p] = Tail(@), ![p][m] = Append(@, pendingRequest[p])]
      /\ pc' = [pc EXCEPT ![p]["main"] = "follow"]
      /\ UNCHANGED <<request, todo, newViewId, leaderPeerId, requestCounter, viewId, alivePeers,
                     tcpClientMap, pendingRequest, leaderCrashed, listening, backlog,
                     status, heard, crashes, goneAt>>
  <2>1. PICK n \in Recv(p, m) :
          IF Deserialized(p, m, n, "NEW_LEADER")
          THEN /\ chan' = [chan EXCEPT ![m][p] = Tail(@), ![p][m] = Append(@, pendingRequest[p])]
               /\ Goto(p, "main", "follow")
               /\ UNCHANGED <<local, state, backlog, world>>
          ELSE Abort(p)
    BY <1>5 DEF AnswerLeader
  <2>2. n = 1
    BY <1>5, <2>1, OneMessage DEF Recv
  <2>3. Deserialized(p, m, n, "NEW_LEADER")
    BY <1>5, <2>2, OneMessage DEF Deserialized, NewLeaderMsg
  <2> QED BY <2>1, <2>3 DEF Goto, local, state, world
<1>8. /\ pc'[p]["main"] = "follow" /\ pc'[p]["detector"] = pc[p]["detector"]
      /\ \A r \in Proc \ {p} : pc'[r] = pc[r]
      /\ pc' \in [Proc -> [Thread -> Label]]
  <2>1. Goto(p, "main", "follow") /\ "follow" \in Label
    BY <1>7 DEF Goto, Label
  <2> QED BY <2>1, MainGoes
<1>9. /\ chan'[m][p] = <<>> /\ chan'[p][m] = <<pendingRequest[p]>>
      /\ \A a, b \in Proc : ~ (a = m /\ b = p) /\ ~ (a = p /\ b = m) => chan'[a][b] = chan[a][b]
      /\ chan' = [a \in Proc |-> [b \in Proc |-> chan'[a][b]]]
  BY <1>4, <1>5, <1>7, OneMessage DEF Inv, Types
<1>10. UNCHANGED <<request, todo, newViewId, leaderPeerId, requestCounter, viewId, alivePeers,
                   tcpClientMap, pendingRequest, leaderCrashed, listening, backlog,
                   status, heard, crashes, goneAt>>
  BY <1>7
<1>11. Types' /\ PeerTypes'
  <2>1. pc' \in [Proc -> [Thread -> Label]] /\ chan' = [a \in Proc |-> [b \in Proc |-> chan'[a][b]]]
    BY <1>8, <1>9
  <2> QED BY <1>10, <2>1 DEF Inv, Types, PeerTypes
<1>12. History'
  <2>1. status[p] = "up" /\ status[m] = "up"
    BY <1>1, <1>4 DEF Live
  <2> QED BY <1>1, <1>8, <1>9, <1>10, <2>1, SameHistory
<1>13. Live' = Live /\ Dead' = Dead /\ Peers(m)' = Peers(m) /\ \A r : getGroupMembers(r)' = getGroupMembers(r)
  BY <1>10 DEF Live, Dead, Peers, getGroupMembers
<1>14. \A r \in Live \ {p, m} :
           /\ Elector(r, l)' = Elector(r, l) /\ Leaderless(r, l)' = Leaderless(r, l)
           /\ Waiting(r, l)' = Waiting(r, l) /\ Called(r, l, m)' = Called(r, l, m)
           /\ Following(r, m)' = Following(r, m) /\ Quiet(m, r)' = Quiet(m, r)
  <2>1. TAKE r \in Live \ {p, m}
  <2>2. r \in Proc /\ r # p /\ r # m
    BY <1>6
  <2>3. chan'[l][r] = chan[l][r] /\ chan'[m][r] = chan[m][r] /\ chan'[r][m] = chan[r][m]
    BY <1>6, <1>9, <2>2
  <2> QED BY <1>8, <1>10, <2>2, <2>3, SameElector
<1>15. \A r \in Live : chan'[l][r] = chan[l][r]
  BY <1>6, <1>9
<1>16. \A r \in {p, m} : Elector(r, l)'
  <2>1. TAKE r \in {p, m}
  <2>2. Elector(r, l) /\ r \in Live /\ r \in Proc
    BY <1>1, <1>2, <1>4, <1>6 DEF Election
  <2>3. Left(r, l)'
    BY <1>10, <1>13, <1>15, <2>2 DEF Elector, Left, Harmless
  <2>4. CASE r = p
    BY <1>1, <1>8, <1>10, <1>13, <1>15, <2>2, <2>3, <2>4 DEF Elector, Harmless
  <2>5. CASE r = m
    BY <1>4, <1>8, <1>10, <1>13, <1>15, <2>2, <2>3, <2>5 DEF Elector, Harmless
  <2> QED BY <2>4, <2>5
<1>17. HeardAll' /\ Descending(Live, l)'
  <2>1. \A r \in Live : Eff(r, l)' = Eff(r, l)
    BY <1>10, <1>15 DEF Eff
  <2> QED BY <1>2, <1>10, <1>13, <2>1 DEF Election, HeardAll, Descending
<1>18. PrivateTo(l, m)'
  <2>1. ASSUME NEW a \in Proc, NEW b \in Live, chan'[a][b] # <<>>
        PROVE  a # b /\ (a = l \/ a = m \/ (b = m /\ a \in Live))
    <3>1. CASE (a = m /\ b = p) \/ (a = p /\ b = m)
      BY <1>1, <1>4, <3>1
    <3>2. CASE ~ (a = m /\ b = p) /\ ~ (a = p /\ b = m)
      BY <1>2, <1>6, <1>9, <2>1, <3>2 DEF Election, PrivateTo
    <3> QED BY <3>1, <3>2
  <2> QED BY <1>13, <2>1 DEF PrivateTo
<1>19. \A q \in Live : Elector(q, l)'
  BY <1>2, <1>14, <1>16 DEF Election
<1>20. Called(p, l, m)'
  BY <1>1, <1>2, <1>5, <1>8, <1>9, <1>10, <1>19 DEF Called, Following, Elector
<1>21. Taking(l, m)
  BY <1>1, <1>2, <1>3, <1>4 DEF Election, Vacant
<1>22. CASE Calling(l, m)
  <2>1. ASSUME NEW r \in Peers(m)
        PROVE  IF r \in todo[m]["main"]
               THEN Quiet(m, r)' /\ (Leaderless(r, l)' \/ Waiting(r, l)')
               ELSE Called(r, l, m)'
    <3>1. IF r \in todo[m]["main"] THEN Quiet(m, r) /\ (Leaderless(r, l) \/ Waiting(r, l))
          ELSE Called(r, l, m)
      BY <1>22 DEF Calling
    <3>2. CASE r = p
      BY <1>3, <1>20, <3>1, <3>2
    <3>3. CASE r # p
      BY <1>6, <1>14, <3>1, <3>3
    <3> QED BY <3>2, <3>3
  <2>2. Calling(l, m)'
    BY <1>4, <1>8, <1>10, <1>13, <1>22, <2>1 DEF Calling
  <2>3. Taking(l, m)'
    BY <1>10, <1>21, <2>2 DEF Taking
  <2>4. Election(l, m)'
    BY <1>2, <1>10, <1>13, <1>17, <1>18, <1>19, <2>3 DEF Election
  <2> QED BY <1>11, <1>12, <2>4 DEF Inv, Phase
<1>23. CASE Collecting(l, m)
  <2>1. ASSUME NEW r \in Peers(m)
        PROVE  IF r \in todo[m]["main"] THEN Called(r, l, m)'
               ELSE Quiet(m, r)' /\ Following(r, m)'
    <3>1. IF r \in todo[m]["main"] THEN Called(r, l, m) ELSE Quiet(m, r) /\ Following(r, m)
      BY <1>23 DEF Collecting
    <3>2. CASE r = p
      BY <1>3, <1>20, <3>1, <3>2
    <3>3. CASE r # p
      BY <1>6, <1>14, <3>1, <3>3
    <3> QED BY <3>2, <3>3
  <2>2. Connected(m, Live)' /\ Harmless(request[m]["main"])'
    BY <1>10, <1>13, <1>23 DEF Collecting, Connected, Harmless
  <2>3. Collecting(l, m)'
    BY <1>4, <1>8, <1>10, <1>13, <1>23, <2>1, <2>2 DEF Collecting
  <2>4. Taking(l, m)'
    BY <1>10, <1>21, <2>3 DEF Taking
  <2>5. Election(l, m)'
    BY <1>2, <1>10, <1>13, <1>17, <1>18, <1>19, <2>4 DEF Election
  <2> QED BY <1>11, <1>12, <2>5 DEF Inv, Phase
<1> QED BY <1>21, <1>22, <1>23 DEF Taking

\* A pending request is collected: the stream holds it and nothing else.
LEMMA WaitForPendingStep ==
    ASSUME Inv, NEW p \in Proc, waitForPendingRequestMsg(p)
    PROVE  Inv'
<1>1. p \in Live /\ pc[p]["main"] = "pending" /\ todo[p]["main"] # {} /\ "main" \in Thread
  BY DEF waitForPendingRequestMsg, At, Live, Thread
<1>2. PICK l \in Proc : Election(l, p) /\ Taking(l, p)
  BY <1>1, Taker
<1>3. Collecting(l, p)
  BY <1>1, <1>2 DEF Taking, Calling
<1>4. /\ l # p /\ l \in Dead /\ l \notin Live
      /\ \A q \in Peers(p) : q \in Proc /\ q # p /\ q # l /\ q \in Live
      /\ \A q \in Live : q \in Proc
  BY <1>2, ElectionState
<1>5. PICK q \in Peers(p) : q = Next1(p, "main") /\ q \in todo[p]["main"]
  <2>1. todo[p]["main"] \in SUBSET Proc /\ alivePeers[p] \subseteq Proc /\ p \notin alivePeers[p]
    BY <1>1 DEF Inv, Types, PeerTypes
  <2>2. Next1(p, "main") \in todo[p]["main"]
    BY <1>1, <2>1, MinLowest DEF Next1
  <2>3. todo[p]["main"] \subseteq Peers(p)
    BY <1>3, <2>1 DEF Collecting, Peers, getGroupMembers
  <2> QED BY <2>2, <2>3
<1>6. Called(q, l, p) /\ status[q] = "up" /\ q \in Proc /\ q # p /\ q # l
  BY <1>3, <1>4, <1>5 DEF Collecting, Live
<1>7. Following(q, p) /\ chan[p][q] = <<>> /\ chan[q][p] = <<pendingRequest[q]>>
  BY <1>5, <1>6 DEF waitForPendingRequestMsg, Called, Recv
<1> DEFINE found == IF pendingRequest[q].op # "NOTHING" THEN pendingRequest[q] ELSE request[p]["main"]
<1>8. /\ request' = [request EXCEPT ![p]["main"] = found]
      /\ chan' = [chan EXCEPT ![q][p] = Tail(@)]
      /\ todo' = [todo EXCEPT ![p]["main"] = todo[p]["main"] \ {q}]
      /\ UNCHANGED <<pc, newViewId, leaderPeerId, requestCounter, viewId, alivePeers,
                     tcpClientMap, pendingRequest, leaderCrashed, listening, backlog,
                     status, heard, crashes, goneAt>>
  <2>1. PICK n \in Recv(p, q) :
           IF Deserialized(p, q, n, "REQUEST")
           THEN /\ request' = [request EXCEPT ![p]["main"] =
                         IF Head(chan[q][p]).op # "NOTHING" THEN Head(chan[q][p]) ELSE @]
                /\ Consume(p, q)
                /\ Visited(p, "main")
                /\ UNCHANGED <<pc, newViewId, state, backlog, world>>
           ELSE Abort(p)
    BY <1>5 DEF waitForPendingRequestMsg
  <2>2. n = 1
    BY <1>7, <2>1, OneMessage DEF Recv
  <2>3. Head(chan[q][p]) = pendingRequest[q] /\ pendingRequest[q].type = "REQUEST"
    BY <1>6, <1>7, OneMessage DEF Inv, Types, Request
  <2>4. Deserialized(p, q, n, "REQUEST")
    BY <2>2, <2>3 DEF Deserialized
  <2>5. request' = [request EXCEPT ![p]["main"] = found]
    BY <2>1, <2>3, <2>4
  <2> QED BY <1>5, <2>1, <2>4, <2>5 DEF Consume, Visited, Visit, state, world
<1>9. /\ chan'[q][p] = <<>>
      /\ \A a, b \in Proc : ~ (a = q /\ b = p) => chan'[a][b] = chan[a][b]
      /\ chan' = [a \in Proc |-> [b \in Proc |-> chan'[a][b]]]
  <2>1. chan = [a \in Proc |-> [b \in Proc |-> chan[a][b]]]
    BY DEF Inv, Types
  <2>2. chan' = [chan EXCEPT ![q][p] = <<>>]
    BY <1>7, <1>8, OneMessage
  <2> QED BY <1>6, <2>1, <2>2
<1>10. found \in Request /\ Harmless(found)
  <2>1. pendingRequest[q] \in Request /\ request[p]["main"] \in Request
    BY <1>1, <1>6 DEF Inv, Types
  <2>2. Harmless(request[p]["main"]) /\ Harmless(pendingRequest[q])
    BY <1>2, <1>3, <1>4, <1>5 DEF Collecting, Election, Elector
  <2> QED BY <2>1, <2>2
<1>11. /\ todo' \in [Proc -> [Thread -> SUBSET Proc]] /\ todo'[p]["main"] = todo[p]["main"] \ {q}
       /\ request' \in [Proc -> [Thread -> Request]] /\ request'[p]["main"] = found
  <2>1. todo \in [Proc -> [Thread -> SUBSET Proc]] /\ request \in [Proc -> [Thread -> Request]]
    BY DEF Inv, Types
  <2> HIDE DEF found
  <2> QED BY <1>1, <1>8, <1>10, <2>1
<1>12. UNCHANGED <<pc, newViewId, leaderPeerId, requestCounter, viewId, alivePeers,
                   tcpClientMap, pendingRequest, leaderCrashed, listening, backlog,
                   status, heard, crashes, goneAt>>
  BY <1>8
<1>13. Types' /\ PeerTypes'
  <2>1. /\ todo' \in [Proc -> [Thread -> SUBSET Proc]] /\ request' \in [Proc -> [Thread -> Request]]
        /\ chan' = [a \in Proc |-> [b \in Proc |-> chan'[a][b]]]
    BY <1>9, <1>11
  <2> QED BY <1>12, <2>1 DEF Inv, Types, PeerTypes
<1>14. History'
  <2>1. status[p] = "up" /\ status[q] = "up"
    BY <1>1, <1>6 DEF Live
  <2> QED BY <1>9, <1>12, <2>1, SameHistory
<1>15. Live' = Live /\ Dead' = Dead /\ Peers(p)' = Peers(p) /\ \A r : getGroupMembers(r)' = getGroupMembers(r)
  BY <1>12 DEF Live, Dead, Peers, getGroupMembers
<1>16. \A r \in Live \ {p, q} :
           /\ Elector(r, l)' = Elector(r, l) /\ Called(r, l, p)' = Called(r, l, p)
           /\ Following(r, p)' = Following(r, p) /\ Quiet(p, r)' = Quiet(p, r)
  <2>1. TAKE r \in Live \ {p, q}
  <2>2. r \in Proc /\ r # p /\ r # q
    BY <1>4
  <2>3. chan'[l][r] = chan[l][r] /\ chan'[p][r] = chan[p][r] /\ chan'[r][p] = chan[r][p]
    BY <1>6, <1>9, <2>2
  <2> QED BY <1>12, <2>2, <2>3, SameElector
<1>17. \A r \in Live : chan'[l][r] = chan[l][r]
  BY <1>4, <1>6, <1>9
<1>18. \A r \in Live : Elector(r, l)'
  <2>1. TAKE r \in Live
  <2>2. Elector(r, l)
    BY <1>2 DEF Election
  <2>3. Left(r, l)'
    BY <1>12, <1>15, <1>17, <2>2 DEF Elector, Left, Harmless
  <2> QED BY <1>12, <1>15, <1>17, <2>2, <2>3 DEF Elector, Harmless
<1>19. HeardAll' /\ Descending(Live, l)'
  <2>1. \A r \in Live : Eff(r, l)' = Eff(r, l)
    BY <1>12, <1>17 DEF Eff
  <2> QED BY <1>2, <1>12, <1>15, <2>1 DEF Election, HeardAll, Descending
<1>20. PrivateTo(l, p)'
  <2>1. \A a \in Proc, b \in Live : chan'[a][b] # <<>> => chan[a][b] # <<>>
    BY <1>4, <1>9
  <2> QED BY <1>2, <1>15, <2>1 DEF Election, PrivateTo
<1>21. Collecting(l, p)'
  <2>1. ASSUME NEW r \in Peers(p)
        PROVE  IF r \in todo'[p]["main"] THEN Called(r, l, p)'
               ELSE Quiet(p, r)' /\ Following(r, p)'
    <3>1. IF r \in todo[p]["main"] THEN Called(r, l, p) ELSE Quiet(p, r) /\ Following(r, p)
      BY <1>3 DEF Collecting
    <3>2. CASE r = q
      <4>1. Quiet(p, q)'
        BY <1>6, <1>7, <1>9 DEF Quiet
      <4>2. Following(q, p)'
        BY <1>7, <1>12 DEF Following
      <4> QED BY <1>11, <3>2, <4>1, <4>2
    <3>3. CASE r # q
      BY <1>4, <1>11, <1>16, <3>1, <3>3
    <3> QED BY <3>2, <3>3
  <2>2. Connected(p, Live)' /\ Harmless(request[p]["main"])'
    BY <1>3, <1>10, <1>11, <1>12, <1>15 DEF Collecting, Connected, Harmless
  <2>3. todo'[p]["main"] \subseteq alivePeers'[p]
    BY <1>3, <1>11, <1>12 DEF Collecting
  <2> QED BY <1>1, <1>3, <1>12, <1>15, <2>1, <2>2, <2>3 DEF Collecting
<1>22. Taking(l, p)'
  BY <1>2, <1>12, <1>21 DEF Taking
<1>23. Election(l, p)'
  BY <1>2, <1>12, <1>15, <1>18, <1>19, <1>20, <1>22 DEF Election
<1> QED BY <1>13, <1>14, <1>23 DEF Inv, Phase

\* The next leader leads: it completes the pending request, or sends its view.
LEMMA CompletePendingStep ==
    ASSUME Inv, NEW p \in Proc, CompletePending(p)
    PROVE  Inv'
<1>1. p \in Live /\ pc[p]["main"] = "pending" /\ todo[p]["main"] = {} /\ "main" \in Thread
  BY DEF CompletePending, At, Live, Thread
<1>2. PICK l \in Proc : Election(l, p) /\ Taking(l, p)
  BY <1>1, Taker
<1>3. Collecting(l, p)
  BY <1>1, <1>2 DEF Taking, Calling
<1>4. /\ l # p /\ l \in Dead /\ l \notin Live
      /\ \A q \in Peers(p) : q \in Proc /\ q # p /\ q # l /\ q \in Live
      /\ \A q \in Live : q \in Proc /\ p <= q
  BY <1>2, ElectionState
<1> DEFINE old == request[p]["main"]
           next == IF old.op # "NOTHING"
                   THEN [type |-> "REQUEST", op |-> old.op, peer |-> old.peer, id |-> requestCounter[p] + 1]
                   ELSE old
           label == IF old.op # "NOTHING" THEN "modify" ELSE "newView"
<1>5. old \in Request /\ Harmless(old) /\ requestCounter[p] \in Nat
  BY <1>1, <1>3 DEF Collecting, Inv, Types
<1>6. next \in Request /\ next.op = old.op /\ next.peer = old.peer /\ label \in Label
  BY <1>5 DEF Request, Label, Ops
<1>7. Goto(p, "main", label)
  BY DEF CompletePending
<1>8. /\ pc'[p]["main"] = label /\ pc'[p]["detector"] = pc[p]["detector"]
      /\ \A r \in Proc \ {p} : pc'[r] = pc[r]
      /\ pc' \in [Proc -> [Thread -> Label]]
  BY <1>6, <1>7, MainGoes
<1>9. /\ request \in [Proc -> [Thread -> Request]] /\ requestCounter \in [Proc -> Nat]
  BY DEF Inv, Types
<1>10. /\ request' \in [Proc -> [Thread -> Request]] /\ request'[p]["main"] = next
       /\ requestCounter' \in [Proc -> Nat]
  <2>1. CASE old.op # "NOTHING"
    <3>1. /\ requestCounter' = [requestCounter EXCEPT ![p] = @ + 1]
          /\ request' = [request EXCEPT ![p]["main"] = next]
      BY <2>1 DEF CompletePending, createRequestMsg
    <3> HIDE DEF next
    <3> QED BY <1>1, <1>6, <1>9, <3>1
  <2>2. CASE old.op = "NOTHING"
    <3>1. UNCHANGED <<request, requestCounter>>
      BY <2>2 DEF CompletePending
    <3> QED BY <1>9, <2>2, <3>1
  <2> QED BY <2>1, <2>2
<1>11. UNCHANGED <<todo, newViewId, leaderPeerId, viewId, alivePeers, tcpClientMap,
                   pendingRequest, leaderCrashed, listening, backlog, chan,
                   status, heard, crashes, goneAt>>
  BY DEF CompletePending, net, world
<1>12. Types' /\ PeerTypes'
  <2>1. /\ request' \in [Proc -> [Thread -> Request]] /\ requestCounter' \in [Proc -> Nat]
        /\ pc' \in [Proc -> [Thread -> Label]]
    BY <1>8, <1>10
  <2> QED BY <1>11, <2>1 DEF Inv, Types, PeerTypes
<1>13. History'
  BY <1>1, <1>8, <1>11, SameHistory
<1>14. Live' = Live /\ Dead' = Dead /\ Peers(p)' = Peers(p) /\ \A r : getGroupMembers(r)' = getGroupMembers(r)
  BY <1>11 DEF Live, Dead, Peers, getGroupMembers
<1>15. \A q \in Peers(p) : Quiet(p, q) /\ Following(q, p)
  BY <1>1, <1>3 DEF Collecting
<1>16. \A q \in Live : Elector(q, l)
  BY <1>2 DEF Election
<1>17. \A q \in Peers(p) : leaderPeerId[q] # l
  BY <1>4, <1>15 DEF Following
<1>18. \A q \in Live : chan[l][q] = <<>>
  BY <1>1, <1>16, <1>17 DEF Elector, Peers
<1>19. \A q \in Live : Eff(q, l) = viewId[q]
  BY <1>18 DEF Eff
<1>20. \A q \in Live : viewId[q] \in Nat /\ q \in Nat
  BY <1>4, NAssumption DEF Inv, Types, Proc
<1>21. \A q, r \in Live : q < r => viewId[q] >= viewId[r]
  BY <1>2, <1>19 DEF Election, Descending
<1>22. \A q \in Peers(p) : viewId'[q] <= viewId'[p]
  <2>1. TAKE q \in Peers(p)
  <2>2. p < q
    BY <1>1, <1>4, <1>20
  <2> QED BY <1>1, <1>4, <1>11, <1>20, <1>21, <2>2
<1>23. \A q, r \in Live : Agree(q, r)'
  <2>1. \E d \in Proc \ Live : listening'[d]
    BY <1>2, <1>11 DEF Election, Dead
  <2>2. MayDiffer' = Proc \ Live
    BY <1>14, <2>1 DEF MayDiffer
  <2>3. \A q \in Live : Live \subseteq getGroupMembers(q) /\ getGroupMembers(q) \subseteq Proc
    BY <1>4, <1>16 DEF Elector, getGroupMembers, Inv, PeerTypes
  <2>4. \A q \in Live : getGroupMembers(q)' \ MayDiffer' = Live
    BY <1>4, <1>14, <2>2, <2>3
  <2> QED BY <2>4 DEF Agree
<1>24. Private(p)'
  <2>1. ASSUME NEW a \in Proc, NEW b \in Live, chan[a][b] # <<>>
        PROVE  a # b /\ (a = p \/ (b = p /\ a \in Live))
    BY <1>2, <1>18, <2>1 DEF Election, PrivateTo
  <2> QED BY <1>11, <1>14, <2>1 DEF Private
<1>25. label \in Ops /\ (old.op = "NOTHING" => label \notin Before) /\ old.op \in {"NOTHING", "DEL"}
  BY <1>5 DEF Ops, Before, Harmless, Request
<1>26. heard[p] \subseteq Live /\ pc[p]["detector"] = "watch"
  BY <1>1, <1>16 DEF Elector
<1>27. Role(p, "main")'
  <2>1. leaderPeerId[p] = l /\ ~ listening[p] /\ backlog[p] = <<>>
    BY <1>2 DEF Taking
  <2>2. \E d \in Dead : listening[d]
    BY <1>2 DEF Election
  <2>3. Connected(p, Live)'
    BY <1>3, <1>11, <1>14 DEF Collecting, Connected
  <2>4. old.op = "DEL" => old.peer \in Dead
    BY <1>5 DEF Harmless
  <2> HIDE DEF next, label, old
  <2> QED BY <1>4, <1>6, <1>8, <1>10, <1>11, <1>14, <1>25, <1>26, <2>1, <2>2, <2>3, <2>4 DEF Role
<1>28. GroupAt(p, "main")'
  <2>1. getGroupMembers(p)' = Live
    BY <1>3, <1>14 DEF Collecting
  <2>2. request'[p]["main"].op # "ADD"
    BY <1>6, <1>10, <1>25
  <2> QED BY <1>14, <2>1, <2>2 DEF GroupAt
<1>29. Loop(p, "main")'
  BY <1>8 DEF Loop
<1>30. Replaceable(p)'
  <2>1. \A q \in Peers(p) : Eff(q, p)' = viewId[q]
    BY <1>11, <1>15 DEF Eff, Quiet
  <2>2. Descending(Peers(p), p)'
    BY <1>4, <1>14, <1>21, <2>1 DEF Descending
  <2>3. HeardAll'
    BY <1>2, <1>11, <1>14 DEF Election, HeardAll
  <2>4. \A q \in Peers(p) : Live \subseteq getGroupMembers(q)' /\ Harmless(pendingRequest[q])'
    BY <1>4, <1>11, <1>14, <1>16 DEF Elector, Harmless
  <2> QED BY <1>14, <2>2, <2>3, <2>4 DEF Replaceable
<1>31. \A q \in Peers(p) : Following(q, p)'
  BY <1>4, <1>8, <1>11, <1>15 DEF Following
<1>32. \A q \in Peers(p) : Exchanged(p, "main", q)'
  <2>1. TAKE q \in Peers(p)
  <2>2. Quiet(p, q)'
    BY <1>11, <1>15 DEF Quiet
  <2> QED BY <1>8, <2>2 DEF Exchanged
<1>33. Working(p, "main")'
  <2>1. \A q \in Peers(p) : Agree(q, p)'
    BY <1>1, <1>4, <1>23
  <2> QED BY <1>14, <1>27, <1>28, <1>29, <1>30, <1>31, <1>32, <2>1 DEF Working
<1>34. Led(p)'
  BY <1>1, <1>4, <1>14, <1>22, <1>23, <1>24, <1>33 DEF Led
<1> QED BY <1>12, <1>13, <1>34 DEF Inv, Phase

\* A process takes what the leader that is gone sent last.
LEMMA FollowOn ==
    ASSUME Inv, NEW p \in Proc, startAsFollower(p), NEW l \in Proc, NEW m \in Proc, Election(l, m)
    PROVE  Inv'
<1>1. p \in Live /\ pc[p]["main"] = "follow"
  BY DEF startAsFollower, At, Live
<1>2. /\ l # m /\ l \in Dead /\ m \in Live /\ l \notin Live /\ p # l
      /\ \A q \in Live : q \in Proc
  BY <1>1, ElectionState
<1>3. chan[leaderPeerId[p]][p] # <<>>
  BY DEF startAsFollower, Recv
<1>4. ~ Waiting(p, l) /\ ~ Called(p, l, m) /\ ~ (Following(p, m) /\ chan[m][p] = <<>>)
  BY <1>1, <1>3 DEF Waiting, Called, Following
<1>5. Leaderless(p, l) /\ (p = m => Vacant(l, m))
  BY <1>1, <1>4, Place DEF Peers
<1>6. Elector(p, l) /\ leaderPeerId[p] = l
  BY <1>1, <1>5 DEF Election, Leaderless
<1> DEFINE msg == Head(chan[l][p])
<1>7. /\ chan[l][p] = <<msg>>
      /\ \/ msg \in Request /\ Harmless(msg)
         \/ /\ msg = NewViewMsg(msg.id, msg.members)
            /\ msg.id \in Nat /\ msg.members \in SUBSET Proc
            /\ msg.id >= viewId[p] /\ Live \subseteq msg.members
  BY <1>3, <1>6 DEF Elector, Left
<1>8. /\ viewId \in [Proc -> Nat \ {0}] /\ alivePeers \in [Proc -> SUBSET Proc]
      /\ pendingRequest \in [Proc -> Request]
      /\ chan = [a \in Proc |-> [b \in Proc |-> chan[a][b]]]
      /\ viewId[p] \in Nat \ {0}
  BY DEF Inv, Types, PeerTypes
<1>9. PICK n \in Recv(p, l) \ {0} :
           CASE Deserialized(p, l, n, "REQUEST") -> processRequestMsg(p, l, msg)
             [] Deserialized(p, l, n, "NEW_VIEW") -> processNewViewMsg(p, l, msg)
             [] OTHER -> /\ Gone(p, "aborted")
                         /\ UNCHANGED <<viewId, alivePeers, pendingRequest, chan>>
  BY <1>6 DEF startAsFollower
<1>10. n = 1
  BY <1>7, <1>9, OneMessage DEF Recv
<1>11. UNCHANGED <<pc, request, todo, newViewId, leaderPeerId, requestCounter, tcpClientMap,
                   leaderCrashed, listening, backlog>>
  BY DEF startAsFollower, local
<1>12. /\ UNCHANGED <<status, heard, crashes, goneAt>>
       /\ viewId' \in [Proc -> Nat \ {0}] /\ alivePeers' \in [Proc -> SUBSET Proc]
       /\ pendingRequest' \in [Proc -> Request] /\ Harmless(pendingRequest'[p])
       /\ p \notin alivePeers'[p] /\ Live \subseteq alivePeers'[p] \cup {p}
       /\ \A r \in Proc \ {p} : /\ viewId'[r] = viewId[r] /\ alivePeers'[r] = alivePeers[r]
                                /\ pendingRequest'[r] = pendingRequest[r]
       /\ chan'[l][p] = <<>>
       /\ \A a, b \in Proc : chan'[a][b] # chan[a][b] => (a = l /\ b = p) \/ (a = p /\ b = l)
       /\ chan' = [a \in Proc |-> [b \in Proc |-> chan'[a][b]]]
       /\ viewId'[p] = Eff(p, l)
  <2>1. CASE msg \in Request /\ Harmless(msg)
    <3>1. /\ Deserialized(p, l, n, "REQUEST") /\ msg.type = "REQUEST"
          /\ ~ Deserialized(p, l, n, "NEW_VIEW")
      BY <1>10, <2>1 DEF Deserialized, Request
    <3>2. processRequestMsg(p, l, msg)
      BY <1>9, <3>1
    <3>3. /\ pendingRequest' = [pendingRequest EXCEPT ![p] = msg]
          /\ chan' = [chan EXCEPT ![l][p] = Tail(@), ![p][l] = Append(@, OkMsg(msg.id))]
          /\ UNCHANGED <<viewId, alivePeers, status, heard, crashes, goneAt>>
      BY <3>2 DEF processRequestMsg, world
    <3>4. /\ pendingRequest' \in [Proc -> Request] /\ Harmless(pendingRequest'[p])
          /\ \A r \in Proc \ {p} : pendingRequest'[r] = pendingRequest[r]
      BY <1>8, <2>1, <3>3
    <3>5. Tail(chan[l][p]) = <<>>
      BY <1>7, OneMessage
    <3>6. chan' = [chan EXCEPT ![l][p] = <<>>, ![p][l] = Append(@, OkMsg(msg.id))]
      BY <3>3, <3>5
    <3>7. /\ chan'[l][p] = <<>>
          /\ \A a, b \in Proc : chan'[a][b] # chan[a][b] => (a = l /\ b = p) \/ (a = p /\ b = l)
          /\ chan' = [a \in Proc |-> [b \in Proc |-> chan'[a][b]]]
      BY <1>2, <1>8, <3>6
    <3>8. Eff(p, l) = viewId[p]
      BY <3>1 DEF Eff
    <3>9. p \notin alivePeers[p] /\ Live \subseteq alivePeers[p] \cup {p}
      BY <1>6 DEF Elector, getGroupMembers, Inv, PeerTypes
    <3> QED BY <1>8, <3>3, <3>4, <3>7, <3>8, <3>9
  <2>2. CASE /\ msg = NewViewMsg(msg.id, msg.members)
             /\ msg.id \in Nat /\ msg.members \in SUBSET Proc
             /\ msg.id >= viewId[p] /\ Live \subseteq msg.members
    <3>1. msg.type = "NEW_VIEW"
      BY <2>2 DEF NewViewMsg
    <3>2. Deserialized(p, l, n, "NEW_VIEW") /\ ~ Deserialized(p, l, n, "REQUEST")
      BY <1>10, <3>1 DEF Deserialized
    <3>3. processNewViewMsg(p, l, msg)
      BY <1>9, <3>2
    <3>4. /\ viewId' = [viewId EXCEPT ![p] = msg.id]
          /\ alivePeers' = [alivePeers EXCEPT ![p] = msg.members \ {p}]
          /\ pendingRequest' = [pendingRequest EXCEPT ![p] = Dummy]
          /\ chan' = [chan EXCEPT ![l][p] = Tail(@)]
          /\ UNCHANGED <<status, heard, crashes, goneAt>>
      BY <3>3 DEF processNewViewMsg, Consume, world
    <3>5. Dummy \in Request /\ Harmless(Dummy)
      BY NAssumption DEF Dummy, Request, Harmless
    <3>6. msg.id \in Nat \ {0}
      BY <1>8, <2>2
    <3>7. /\ pendingRequest' \in [Proc -> Request] /\ Harmless(pendingRequest'[p])
          /\ viewId' \in [Proc -> Nat \ {0}] /\ alivePeers' \in [Proc -> SUBSET Proc]
          /\ viewId'[p] = msg.id /\ alivePeers'[p] = msg.members \ {p}
          /\ \A r \in Proc \ {p} : /\ viewId'[r] = viewId[r] /\ alivePeers'[r] = alivePeers[r]
                                   /\ pendingRequest'[r] = pendingRequest[r]
      BY <1>8, <2>2, <3>4, <3>5, <3>6
    <3>8. chan' = [chan EXCEPT ![l][p] = <<>>]
      BY <1>7, <3>4, OneMessage
    <3>9. /\ chan'[l][p] = <<>>
          /\ \A a, b \in Proc : chan'[a][b] # chan[a][b] => a = l /\ b = p
          /\ chan' = [a \in Proc |-> [b \in Proc |-> chan'[a][b]]]
      BY <1>8, <3>8
    <3>10. Eff(p, l) = msg.id
      BY <1>3, <1>6, <3>1 DEF Eff
    <3> QED BY <2>2, <3>4, <3>7, <3>9, <3>10
  <2> QED BY <1>7, <2>1, <2>2
<1>13. Types' /\ PeerTypes'
  <2>1. \A r \in Proc : r \notin alivePeers'[r]
    BY <1>12 DEF Inv, PeerTypes
  <2>2. /\ UNCHANGED <<status, heard, crashes, goneAt>>
        /\ viewId' \in [Proc -> Nat \ {0}] /\ alivePeers' \in [Proc -> SUBSET Proc]
        /\ pendingRequest' \in [Proc -> Request]
        /\ chan' = [a \in Proc |-> [b \in Proc |-> chan'[a][b]]]
    BY <1>12
  <2> QED BY <1>11, <2>1, <2>2 DEF Inv, Types, PeerTypes
<1>14. Live' = Live /\ Dead' = Dead
  BY <1>12 DEF Live, Dead
<1>15. Elector(p, l)'
  <2>1. Live \subseteq getGroupMembers(p)'
    BY <1>12 DEF getGroupMembers
  <2>2. Harmless(pendingRequest[p])'
    BY <1>12, <1>14 DEF Harmless
  <2>3. Left(p, l)'
    BY <1>12 DEF Left
  <2> QED BY <1>6, <1>11, <1>12, <1>14, <2>1, <2>2, <2>3 DEF Elector
<1>16. Eff(p, l)' = Eff(p, l)
  BY <1>12 DEF Eff
<1>17. Leaderless(p, l)'
  BY <1>5, <1>11, <1>12, <1>14 DEF Leaderless
<1>18. /\ Called(p, l, m) => Called(p, l, m)'
       /\ Following(p, m) => Following(p, m)'
  BY <1>4, <1>11 DEF Following
<1>19. Live \ {p} \subseteq heard'[p]
  BY <1>1, <1>12 DEF Election, HeardAll
<1>20. /\ UNCHANGED <<status, crashes, goneAt, request, todo>>
       /\ \A r \in Proc \ {p} :
               /\ pc'[r] = pc[r] /\ leaderPeerId'[r] = leaderPeerId[r]
               /\ listening'[r] = listening[r] /\ backlog'[r] = backlog[r]
               /\ leaderCrashed'[r] = leaderCrashed[r] /\ pendingRequest'[r] = pendingRequest[r]
               /\ alivePeers'[r] = alivePeers[r] /\ tcpClientMap'[r] = tcpClientMap[r]
               /\ viewId'[r] = viewId[r] /\ heard'[r] = heard[r]
       /\ \A q \in heard'[p] : q \in heard[p] \/ q \in Live
       /\ \A a, b \in Proc : chan'[a][b] # chan[a][b] => (a = l /\ b = p) \/ (a = p /\ b = l)
  BY <1>11, <1>12
<1> QED
  BY <1>1, <1>5, <1>13, <1>15, <1>16, <1>17, <1>18, <1>19, <1>20, ElectionStep

\* A heartbeat in an election.
LEMMA HeartBeatElection ==
    ASSUME Inv, NEW p \in Proc, NEW q \in Proc \ {p}, HeartBeat(p, q),
           NEW l \in Proc, NEW m \in Proc, Election(l, m)
    PROVE  Inv'
<1>1. p \in Live /\ q \in Live
  BY DEF HeartBeat, At, Live
<1>2. /\ heard' = [heard EXCEPT ![p] = @ \cup {q}]
      /\ UNCHANGED <<pc, request, todo, newViewId, leaderPeerId, requestCounter, viewId, alivePeers,
                     tcpClientMap, pendingRequest, leaderCrashed, listening, backlog, chan,
                     status, crashes, goneAt>>
  BY DEF HeartBeat, local, state, net
<1>3. /\ heard' \in [Proc -> SUBSET Proc] /\ heard'[p] = heard[p] \cup {q}
      /\ \A r \in Proc \ {p} : heard'[r] = heard[r]
  BY <1>2 DEF Inv, PeerTypes
<1>4. Types' /\ PeerTypes'
  <2>1. \A r \in Proc : r \notin heard'[r]
    BY <1>3 DEF Inv, PeerTypes
  <2>2. heard' \in [Proc -> SUBSET Proc]
    BY <1>3
  <2>3. UNCHANGED <<pc, request, todo, newViewId, leaderPeerId, requestCounter, viewId, alivePeers,
                    tcpClientMap, pendingRequest, leaderCrashed, listening, backlog, chan,
                    status, crashes, goneAt>>
    BY <1>2
  <2> QED BY <2>1, <2>2, <2>3 DEF Inv, Types, PeerTypes
<1>5. Live' = Live /\ Dead' = Dead /\ getGroupMembers(p)' = getGroupMembers(p)
  BY <1>2 DEF Live, Dead, getGroupMembers
<1>6. Elector(p, l)'
  <2>1. Elector(p, l)
    BY <1>1 DEF Election
  <2> QED BY <1>1, <1>2, <1>3, <1>5, <2>1 DEF Elector, Left, Harmless
<1>7. /\ Leaderless(p, l) => Leaderless(p, l)'
      /\ Waiting(p, l) => Waiting(p, l)'
      /\ Following(p, m) => Following(p, m)'
  BY <1>1, <1>2, <1>3, <1>5 DEF Leaderless, Waiting, Following
<1>8. Called(p, l, m) => Called(p, l, m)'
  BY <1>2, <1>7 DEF Called
<1>9. Eff(p, l)' = Eff(p, l)
  BY <1>2 DEF Eff
<1>10. p = m => (Vacant(l, m) /\ Leaderless(m, l)') \/ Taking(l, m)
  BY <1>7 DEF Election, Vacant
<1>11. Live \ {p} \subseteq heard'[p] /\ \A r \in heard'[p] : r \in heard[p] \/ r \in Live
  BY <1>1, <1>3 DEF Election, HeardAll
<1> QED BY <1>1, <1>2, <1>3, <1>4, <1>6, <1>7, <1>8, <1>9, <1>10, <1>11, ElectionStep

\* A crash is reported in an election: to those that have not begun to look
\* for the next leader, and the last one reported is that of the leader.
LEMMA FailureElection ==
    ASSUME Inv, NEW p \in Proc, NEW q \in Proc \ {p}, handlePeerFailure(p, q),
           NEW l \in Proc, NEW m \in Proc, Election(l, m)
    PROVE  Inv'
<1>1. p \in Live /\ FirstUnreported(p, q) /\ q \in heard[p] /\ goneAt[q] > 0
  BY DEF handlePeerFailure, At, Live, FirstUnreported, Unreported
<1>2. /\ l # m /\ l \in Dead /\ m \in Live /\ l \notin Live /\ status[l] = "crashed" /\ goneAt[l] = crashes
      /\ \A r \in Peers(m) : r \in Proc /\ r # m
  BY ElectionState
<1>3. q \in Dead /\ q \notin Live
  BY <1>1 DEF Inv, History, Dead, Live
<1>4. Elector(p, l)
  BY <1>1 DEF Election
<1>5. pc[p]["main"] \in {"follow", "awaitCrash"} /\ ~ leaderCrashed[p]
  BY <1>1, <1>3, <1>4 DEF Elector
<1>6. leaderPeerId[p] \in {l, m} /\ leaderPeerId[p] # p
  <2>1. Leaderless(p, l) \/ (p # m /\ Following(p, m))
    BY <1>1, <1>2, <1>5, Place DEF Waiting, Called
  <2> QED BY <1>1, <1>2, <2>1 DEF Leaderless, Following
<1>7. /\ heard' = [heard EXCEPT ![p] = @ \ {q}]
      /\ leaderCrashed' = [leaderCrashed EXCEPT ![p] = @ \/ q = leaderPeerId[p]]
      /\ UNCHANGED <<pc, request, todo, newViewId, leaderPeerId, requestCounter, viewId, alivePeers,
                     tcpClientMap, pendingRequest, listening, backlog, chan,
                     status, crashes, goneAt>>
  BY <1>6 DEF handlePeerFailure, net
<1>8. /\ heard' \in [Proc -> SUBSET Proc] /\ heard'[p] = heard[p] \ {q}
      /\ \A r \in Proc \ {p} : heard'[r] = heard[r]
  BY <1>7 DEF Inv, PeerTypes
<1>9. /\ leaderCrashed' \in [Proc -> BOOLEAN] /\ (leaderCrashed'[p] <=> q = leaderPeerId[p])
      /\ \A r \in Proc \ {p} : leaderCrashed'[r] = leaderCrashed[r]
  <2>1. leaderCrashed \in [Proc -> BOOLEAN]
    BY DEF Inv, Types
  <2> QED BY <1>5, <1>7, <2>1
<1>10. Types' /\ PeerTypes'
  <2>1. \A r \in Proc : r \notin heard'[r]
    BY <1>8 DEF Inv, PeerTypes
  <2>2. heard' \in [Proc -> SUBSET Proc] /\ leaderCrashed' \in [Proc -> BOOLEAN]
    BY <1>8, <1>9
  <2>3. UNCHANGED <<pc, request, todo, newViewId, leaderPeerId, requestCounter, viewId, alivePeers,
                    tcpClientMap, pendingRequest, listening, backlog, chan,
                    status, crashes, goneAt>>
    BY <1>7
  <2> QED BY <2>1, <2>2, <2>3 DEF Inv, Types, PeerTypes
<1>11. Live' = Live /\ Dead' = Dead /\ getGroupMembers(p)' = getGroupMembers(p)
  BY <1>7 DEF Live, Dead, getGroupMembers
<1>12. leaderCrashed'[p] => heard'[p] \subseteq Live
  <2> SUFFICES ASSUME leaderCrashed'[p], NEW r \in heard'[p] PROVE r \in Live
    OBVIOUS
  <2>1. q = l
    BY <1>2, <1>3, <1>6, <1>9
  <2>2. r \in heard[p] /\ r # q /\ r \in Proc
    BY <1>8
  <2>3. goneAt[r] <= crashes /\ goneAt[r] \in Nat /\ crashes \in Nat /\ status[r] # "down"
    BY <2>2 DEF Inv, History, Types
  <2>4. ~ (goneAt[r] > 0)
    <3>1. goneAt[r] > 0 => r \in Unreported(p)
      BY <2>2 DEF Unreported
    <3>2. goneAt[r] > 0 => goneAt[q] <= goneAt[r]
      BY <1>1, <3>1 DEF FirstUnreported
    <3>3. goneAt[r] > 0 /\ goneAt[r] = goneAt[q] => r = q
      BY <2>2 DEF Inv, History
    <3> QED BY <1>2, <2>1, <2>2, <2>3, <3>2, <3>3
  <2>5. status[r] = "up"
    BY <2>2, <2>3, <2>4 DEF Inv, History, Types
  <2> QED BY <2>2, <2>5 DEF Live
<1>13. Elector(p, l)'
  BY <1>3, <1>4, <1>5, <1>7, <1>8, <1>11, <1>12 DEF Elector, Left, Harmless
<1>14. Leaderless(p, l) \/ Waiting(p, l) => (Leaderless(p, l) \/ Waiting(p, l))'
  BY <1>5, <1>7 DEF Leaderless, Waiting
<1>15. /\ Following(p, m) => Following(p, m)'
       /\ Called(p, l, m) => Called(p, l, m)'
  <2>1. Following(p, m) => Following(p, m)'
    BY <1>2, <1>3, <1>7, <1>9 DEF Following
  <2> QED BY <1>5, <1>7, <2>1 DEF Called
<1>16. Eff(p, l)' = Eff(p, l)
  BY <1>7 DEF Eff
<1>17. p = m => Vacant(l, m) /\ Leaderless(m, l)'
  BY <1>1, <1>5, <1>7, Place DEF Peers, Leaderless
<1>18. Live \ {p} \subseteq heard'[p] /\ \A r \in heard'[p] : r \in heard[p] \/ r \in Live
  BY <1>1, <1>3, <1>8 DEF Election, HeardAll
<1>19. UNCHANGED <<pc, request, todo, newViewId, leaderPeerId, requestCounter, viewId, alivePeers,
                   tcpClientMap, pendingRequest, listening, backlog, chan,
                   status, crashes, goneAt>>
  BY <1>7
<1> QED
  BY <1>1, <1>8, <1>9, <1>10, <1>13, <1>14, <1>15, <1>16, <1>17, <1>18, <1>19, ElectionStep
=============================================================================
