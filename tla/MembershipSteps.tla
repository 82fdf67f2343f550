-------------------------- MODULE MembershipSteps --------------------------
(***************************************************************************)
(* Lemmas about Membership: every step of a leader keeps Inv.              *)
(***************************************************************************)
EXTENDS MembershipInv, TLAPS, WellFoundedInduction

\* The only message of a stream.
LEMMA OneMessage ==
    ASSUME NEW msg
    PROVE  /\ Head(<<msg>>) = msg /\ Tail(<<msg>>) = <<>> /\ Len(<<msg>>) = 1
           /\ <<msg>> # <<>> /\ Append(<<>>, msg) = <<msg>> /\ 1..Len(<<msg>>) = {1}
OBVIOUS

\* Min picks the lowest element.
LEMMA MinLowest ==
    ASSUME NEW S \in SUBSET Proc, S # {}
    PROVE  Min(S) \in S /\ \A x \in S : Min(S) <= x
<1>1. S \subseteq Nat
  BY NAssumption DEF Proc
<1>2. PICK x \in S : \A y \in S : ~ (<<y, x>> \in OpToRel(<, Nat))
  BY <1>1, WFMin, NatLessThanWellFounded, Zenon
<1>3. \A y \in S : ~ (y < x)
  BY <1>1, <1>2, Zenon DEF OpToRel
<1>4. \A y \in S : x <= y
  BY <1>1, <1>3
<1> QED BY <1>4 DEF Min

\* Who is in an operation leads.
LEMMA Worker ==
    ASSUME Inv, NEW p \in Proc, NEW t \in Thread, p \in Live, pc[p][t] \in Ops
    PROVE  Led(p) /\ Working(p, t)
<1>0. \A l : l \in Thread <=> l = "main" \/ l = "detector"
  BY DEF Thread
<1>1. ~ Empty
  BY DEF Empty
<1>2. ~ \E q \in Proc : First(q)
  BY <1>0 DEF First, Ops
<1>3. ~ \E l, m \in Proc : Election(l, m)
  BY <1>0 DEF Election, Vacant, Taking, Elector, Leaderless, Calling, Collecting, Waiting, Called, Following, Ops, Peers
<1>4. PICK c \in Proc : Led(c)
  BY <1>1, <1>2, <1>3 DEF Inv, Phase
<1>5. CASE p # c
  BY <1>0, <1>4, <1>5 DEF Led, Idle, Joining, Losing, Working, Role, Resting, Following, Ops, Peers
<1>6. CASE p = c
  <2>1. ~ Resting(p)
    BY <1>0 DEF Resting, Ops
  <2>2. PICK u \in Thread : Working(p, u)
    BY <1>4, <1>6, <2>1 DEF Led, Idle, Joining, Losing
  <2>3. u = t
    BY <1>0, <2>2 DEF Working, Role, Ops
  <2> QED BY <1>4, <1>6, <2>2, <2>3
<1> QED BY <1>5, <1>6

\* An operation is in its place.
LEMMA WorkerState ==
    ASSUME Inv, NEW p \in Proc, NEW t \in Thread, p \in Live, Working(p, t)
    PROVE  /\ alivePeers[p] \subseteq Proc /\ p \notin alivePeers[p]
           /\ getGroupMembers(p) = alivePeers[p] \cup {p}
           /\ pc[p][t] # "modify" => alivePeers[p] \subseteq Peers(p) /\ alivePeers[p] \subseteq tcpClientMap[p]
BY DEF Inv, PeerTypes, Working, Role, GroupAt, Loop, Connected, getGroupMembers, Peers, Ops, Live

\* In an operation, a step of c that leaves its group as it is and does not
\* install the view keeps Inv, if the loops and the streams stay in order.
LEMMA SameGroup ==
    ASSUME Inv, NEW p \in Proc, NEW t \in Thread, Led(p), Working(p, t),
           NEW label \in Ops \ {"modify"}, pc[p][t] # "modify",
           label \in Before <=> pc[p][t] \in Before,
           pc' = [pc EXCEPT ![p][t] = label], pc' \in [Proc -> [Thread -> Label]],
           todo' \in [Proc -> [Thread -> SUBSET Proc]],
           newViewId' \in [Proc -> [Thread -> Nat]],
           UNCHANGED <<request, leaderPeerId, requestCounter, viewId, alivePeers,
                       tcpClientMap, pendingRequest, leaderCrashed, listening,
                       backlog, status, heard, crashes, goneAt>>,
           chan' = [a \in Proc |-> [b \in Proc |-> chan'[a][b]]],
           \A a, b \in Proc : chan'[a][b] # chan[a][b] =>
                (a = p /\ b \in Peers(p)) \/ (b = p /\ a \in Peers(p)),
           Loop(p, t)',
           \A q \in Peers(p) : Exchanged(p, t, q)',
           request[p][t].op # "ADD" => Descending(Peers(p), p)'
    PROVE  Inv'
<1>1. p \in Live
  BY DEF Led
<1>2. /\ Live' = Live /\ Dead' = Dead /\ Peers(p)' = Peers(p) /\ MayDiffer' = MayDiffer
      /\ \A r : getGroupMembers(r)' = getGroupMembers(r)
      /\ \A r, s : Agree(r, s)' = Agree(r, s)
  BY DEF Live, Dead, Peers, getGroupMembers, MayDiffer, Agree
<1>3. /\ pc' \in [Proc -> [Thread -> Label]] /\ pc'[p][t] = label
      /\ \A r \in Proc, u \in Thread : r # p \/ u # t => pc'[r][u] = pc[r][u]
  <2>1. pc \in [Proc -> [Thread -> Label]]
    BY DEF Inv, Types
  <2> QED BY ONLY <2>1, pc' \in [Proc -> [Thread -> Label]], pc' = [pc EXCEPT ![p][t] = label]
<1>4. \A u : u \in Thread <=> u = "main" \/ u = "detector"
  BY DEF Thread
<1>5. Types' /\ PeerTypes'
  BY <1>3 DEF Inv, Types, PeerTypes
<1>6. History'
  <2>1. \A r \in Proc : status[r] = "down" => Unused(r) /\ r # p /\ r \notin Peers(p)
    BY <1>1 DEF Inv, History, Peers, Live
  <2>2. ASSUME NEW r \in Proc, status[r] = "down" PROVE Unused(r)'
    <3>1. \A q \in Proc : chan'[r][q] = chan[r][q] /\ chan'[q][r] = chan[q][r]
      BY <2>1, <2>2
    <3> QED BY <1>3, <1>4, <2>1, <2>2, <3>1 DEF Unused
  <2> QED BY <2>2 DEF Inv, History
<1>7. Role(p, t)' /\ GroupAt(p, t)'
  BY <1>2, <1>3, <1>4 DEF Working, Role, GroupAt, Connected, Ops
<1>8. \A r \in Peers(p) : Following(r, p)'
  BY <1>3, <1>4 DEF Working, Following, Peers, Live
<1>9. request[p][t].op # "ADD" => Replaceable(p)'
  BY <1>2 DEF Working, Replaceable, HeardAll, Harmless
<1>10. Working(p, t)'
  BY <1>2, <1>3, <1>7, <1>8, <1>9 DEF Working
<1>11. Private(p)'
  <2>1. ASSUME NEW a \in Proc, NEW b \in Live, chan'[a][b] # <<>>
        PROVE  a # b /\ (a = p \/ (b = p /\ a \in Live))
    <3>1. CASE chan'[a][b] = chan[a][b]
      BY <2>1, <3>1 DEF Led, Private
    <3>2. CASE chan'[a][b] # chan[a][b]
      BY <3>2 DEF Peers, Live
    <3> QED BY <3>1, <3>2
  <2> QED BY <1>2, <2>1 DEF Private
<1>12. Led(p)'
  BY <1>2, <1>10, <1>11 DEF Led
<1> QED BY <1>5, <1>6, <1>12 DEF Inv, Phase

\* The request goes to the next peer.
LEMMA SendRequestStep ==
    ASSUME Inv, NEW p \in Proc, NEW t \in Thread, sendRequestMsg(p, t)
    PROVE  Inv'
<1>1. p \in Live /\ pc[p][t] = "request"
  BY DEF sendRequestMsg, At, Live
<1>2. Led(p) /\ Working(p, t)
  BY <1>1, Worker DEF Ops
<1>3. PICK q \in Proc :
          /\ q = Next1(p, t) /\ q \in todo[p][t]
          /\ q \in alivePeers[p] /\ q \in Peers(p) /\ q \in tcpClientMap[p]
  BY <1>1, <1>2, WorkerState, MinLowest DEF sendRequestMsg, Next1, Working, Loop, Inv, PeerTypes
<1>4. /\ chan' = [chan EXCEPT ![p][q] = Append(@, request[p][t])]
      /\ todo' = [todo EXCEPT ![p][t] = todo[p][t] \ {q}]
      /\ UNCHANGED <<pc, request, newViewId, leaderPeerId, requestCounter, viewId,
                     alivePeers, tcpClientMap, pendingRequest, leaderCrashed, listening,
                     backlog, status, heard, crashes, goneAt, restarts, inOrder>>
  <2>1. Sends(p, Next1(p, t)) = {TRUE}
    BY <1>3 DEF Sends, Peers, Live
  <2> QED BY <1>3, <2>1 DEF sendRequestMsg, Send, Visited, Visit, state, world
<1>5. chan[p][q] = <<>> /\ chan[q][p] = <<>>
  BY <1>1, <1>2, <1>3 DEF Working, Exchanged, Quiet
<1>6. /\ chan'[p][q] = <<request[p][t]>>
      /\ \A a, b \in Proc : a # p \/ b # q => chan'[a][b] = chan[a][b]
      /\ chan' = [a \in Proc |-> [b \in Proc |-> chan'[a][b]]]
  BY <1>3, <1>4, <1>5, OneMessage DEF Inv, Types, Peers, Live
<1>7. todo'[p][t] = todo[p][t] \ {q} /\ todo' \in [Proc -> [Thread -> SUBSET Proc]]
  BY <1>4 DEF Inv, Types
<1>8. Loop(p, t)'
  BY <1>1, <1>2, <1>4, <1>7 DEF Working, Loop
<1>9. ASSUME NEW r \in Peers(p)
      PROVE  Exchanged(p, t, r)'
  <2>1. CASE r = q
    <3>1. Asked(q, p, t)'
      BY <1>3, <1>4, <1>5, <1>6 DEF Asked, Peers, Live
    <3>2. q \notin todo'[p][t] /\ q \in alivePeers'[p] /\ pc'[p][t] = "request"
      BY <1>1, <1>3, <1>4, <1>7
    <3> QED BY <2>1, <3>1, <3>2 DEF Exchanged
  <2>2. CASE r # q
    <3>1. IF r \in todo[p][t] \/ r \notin alivePeers[p] THEN Quiet(p, r)
          ELSE Asked(r, p, t) \/ (isTestCase4(p, t) /\ r = 2 /\ Quiet(p, r))
      BY <1>1, <1>2 DEF Working, Exchanged
    <3>2. chan'[p][r] = chan[p][r] /\ chan'[r][p] = chan[r][p]
      BY <1>6, <2>2 DEF Peers, Live
    <3>3. /\ Quiet(p, r)' = Quiet(p, r) /\ Asked(r, p, t)' = Asked(r, p, t)
          /\ isTestCase4(p, t)' = isTestCase4(p, t)
      BY <1>4, <3>2 DEF Quiet, Asked, isTestCase4
    <3>4. /\ r \in todo'[p][t] <=> r \in todo[p][t]
          /\ alivePeers' = alivePeers /\ pc' = pc
      BY <1>4, <1>7, <2>2
    <3> QED BY <1>1, <3>1, <3>3, <3>4 DEF Exchanged
  <2> QED BY <2>1, <2>2
<1>10. request[p][t].op # "ADD" => Descending(Peers(p), p)'
  <2>1. request[p][t].type = "REQUEST"
    BY DEF Inv, Types, Request
  <2>2. Eff(q, p)' = Eff(q, p)
    BY <1>4, <1>5, <1>6, <2>1, OneMessage DEF Eff
  <2>3. \A r \in Peers(p) \ {q} : chan'[p][r] = chan[p][r] /\ viewId'[r] = viewId[r]
    BY <1>4, <1>6 DEF Peers, Live
  <2>4. \A r \in Peers(p) \ {q} : Eff(r, p)' = Eff(r, p)
    BY <2>3 DEF Eff
  <2>5. Peers(p)' = Peers(p)
    BY <1>4 DEF Peers, Live
  <2> QED BY <1>2, <2>2, <2>4, <2>5 DEF Working, Replaceable, Descending
<1>11. pc' = [pc EXCEPT ![p][t] = "request"] /\ newViewId' \in [Proc -> [Thread -> Nat]]
  BY <1>1, <1>4 DEF Inv, Types
<1>12. pc' \in [Proc -> [Thread -> Label]] /\ "request" \in Ops \ {"modify"} /\ pc[p][t] # "modify"
  BY <1>1, <1>4 DEF Ops, Inv, Types
<1>13. \A a, b \in Proc : chan'[a][b] # chan[a][b] => a = p /\ b \in Peers(p)
  BY <1>3, <1>6
<1> QED
  BY <1>1, <1>2, <1>4, <1>6, <1>7, <1>8, <1>9, <1>10, <1>11, <1>12, <1>13, SameGroup
\* An answer is taken: it is the expected one, for nobody fails here.
LEMMA WaitForOkStep ==
    ASSUME Inv, NEW p \in Proc, NEW t \in Thread, waitForOkMsg(p, t)
    PROVE  Inv'
<1>1. p \in Live /\ pc[p][t] = "ok"
  BY DEF waitForOkMsg, At, Live
<1>2. Led(p) /\ Working(p, t)
  BY <1>1, Worker DEF Ops
<1>3. PICK q \in Proc :
          /\ q = Next1(p, t) /\ q \in todo[p][t]
          /\ q \in alivePeers[p] /\ q \in Peers(p) /\ q \in tcpClientMap[p]
  BY <1>1, <1>2, WorkerState, MinLowest DEF waitForOkMsg, Next1, Working, Loop, Inv, PeerTypes
<1>4. Asked(q, p, t)
  BY <1>1, <1>2, <1>3 DEF Working, Exchanged
<1>5. status[q] = "up"
  BY <1>3 DEF Peers, Live
<1>6. chan[p][q] = <<>> /\ chan[q][p] = <<OkMsg(request[p][t].id)>>
  BY <1>3, <1>4, <1>5 DEF Asked, waitForOkMsg, Recv
<1>7. /\ chan' = [chan EXCEPT ![q][p] = Tail(@)]
      /\ todo' = [todo EXCEPT ![p][t] = todo[p][t] \ {q}]
      /\ UNCHANGED <<pc, request, newViewId, leaderPeerId, requestCounter, viewId,
                     alivePeers, tcpClientMap, pendingRequest, leaderCrashed, listening,
                     backlog, status, heard, crashes, goneAt, restarts, inOrder>>
  <2>1. PICK n \in Recv(p, q) :
          IF Deserialized(p, q, n, "OK") /\ Head(chan[q][p]).id = request[p][t].id
          THEN /\ Consume(p, q)
               /\ Visited(p, t)
               /\ UNCHANGED <<pc, request, newViewId, state, backlog, world>>
          ELSE Abort(p)
    BY <1>3 DEF waitForOkMsg
  <2>2. n = 1
    BY <1>6, <2>1, OneMessage DEF Recv
  <2>3. Deserialized(p, q, n, "OK") /\ Head(chan[q][p]).id = request[p][t].id
    BY <1>6, <2>2, OneMessage DEF Deserialized, OkMsg
  <2> QED BY <1>3, <2>1, <2>3 DEF Consume, Visited, Visit, state, world
<1>8. /\ chan'[q][p] = <<>>
      /\ \A a, b \in Proc : a # q \/ b # p => chan'[a][b] = chan[a][b]
      /\ chan' = [a \in Proc |-> [b \in Proc |-> chan'[a][b]]]
  BY <1>3, <1>6, <1>7, OneMessage DEF Inv, Types, Peers, Live
<1>9. todo'[p][t] = todo[p][t] \ {q} /\ todo' \in [Proc -> [Thread -> SUBSET Proc]]
  BY <1>7 DEF Inv, Types
<1>10. Loop(p, t)'
  BY <1>1, <1>2, <1>7, <1>9 DEF Working, Loop
<1>11. ASSUME NEW r \in Peers(p)
       PROVE  Exchanged(p, t, r)'
  <2>1. CASE r = q
    <3>1. Quiet(p, q)'
      BY <1>3, <1>6, <1>8 DEF Quiet, Peers, Live
    <3> QED BY <1>1, <1>7, <1>9, <2>1, <3>1 DEF Exchanged
  <2>2. CASE r # q
    <3>1. IF r \in todo[p][t] THEN Asked(r, p, t) ELSE Quiet(p, r)
      BY <1>1, <1>2 DEF Working, Exchanged
    <3>2. chan'[p][r] = chan[p][r] /\ chan'[r][p] = chan[r][p]
      BY <1>3, <1>8, <2>2 DEF Peers, Live
    <3>3. Quiet(p, r)' = Quiet(p, r) /\ Asked(r, p, t)' = Asked(r, p, t)
      BY <1>7, <3>2 DEF Quiet, Asked
    <3>4. /\ r \in todo'[p][t] <=> r \in todo[p][t]
          /\ pc' = pc
      BY <1>7, <1>9, <2>2
    <3> QED BY <1>1, <3>1, <3>3, <3>4 DEF Exchanged
  <2> QED BY <2>1, <2>2
<1>12. request[p][t].op # "ADD" => Descending(Peers(p), p)'
  <2>1. \A r \in Peers(p) : chan'[p][r] = chan[p][r]
    BY <1>3, <1>8 DEF Peers, Live
  <2>2. viewId' = viewId
    BY <1>7
  <2>20. \A r \in Peers(p) : Eff(r, p)' = Eff(r, p)
    BY <2>1, <2>2 DEF Eff
  <2>3. Peers(p)' = Peers(p)
    BY <1>7 DEF Peers, Live
  <2> QED BY <1>2, <2>20, <2>3 DEF Working, Replaceable, Descending
<1>13. pc' = [pc EXCEPT ![p][t] = "ok"] /\ newViewId' \in [Proc -> [Thread -> Nat]]
  BY <1>1, <1>7 DEF Inv, Types
<1>14. pc' \in [Proc -> [Thread -> Label]] /\ "ok" \in Ops \ {"modify"} /\ pc[p][t] # "modify"
  BY <1>1, <1>7 DEF Ops, Inv, Types
<1>15. \A a, b \in Proc : chan'[a][b] # chan[a][b] =>
          (a = p /\ b \in Peers(p)) \/ (b = p /\ a \in Peers(p))
  BY <1>3, <1>8
<1>16. "ok" \in Before <=> pc[p][t] \in Before
  BY <1>1
<1> QED
  BY <1>1, <1>2, <1>7, <1>8, <1>9, <1>10, <1>11, <1>12, <1>13, <1>14, <1>15, <1>16, SameGroup

\* A step of an operation that sends and receives nothing.
LEMMA Silent ==
    ASSUME Inv, NEW p \in Proc, NEW t \in Thread, Led(p), Working(p, t),
           UNCHANGED <<request, viewId, chan, status>>
    PROVE  /\ request[p][t].op # "ADD" => Descending(Peers(p), p)'
           /\ \A q : Quiet(p, q)' = Quiet(p, q)
           /\ \A q : Asked(q, p, t)' = Asked(q, p, t)
           /\ chan' = [a \in Proc |-> [b \in Proc |-> chan'[a][b]]]
<1>1. \A q : Eff(q, p)' = Eff(q, p)
  BY DEF Eff
<1>2. Peers(p)' = Peers(p)
  BY DEF Peers, Live
<1>3. request[p][t].op # "ADD" => Descending(Peers(p), p)'
  BY <1>1, <1>2 DEF Working, Replaceable, Descending
<1>4. \A q : Quiet(p, q)' = Quiet(p, q)
  BY DEF Quiet
<1>5. \A q : Asked(q, p, t)' = Asked(q, p, t)
  BY DEF Asked
<1> QED BY <1>3, <1>4, <1>5 DEF Inv, Types

\* All requests are sent.
LEMMA RequestsSentStep ==
    ASSUME Inv, NEW p \in Proc, NEW t \in Thread, RequestsSent(p, t), ~ isTestCase4(p, t)
    PROVE  Inv'
<1>1. p \in Live /\ pc[p][t] = "request" /\ todo[p][t] = {}
  BY DEF RequestsSent, At, Live
<1>2. Led(p) /\ Working(p, t)
  BY <1>1, Worker DEF Ops
<1>3. /\ pc' = [pc EXCEPT ![p][t] = "ok"]
      /\ todo' = [todo EXCEPT ![p][t] = alivePeers[p]]
      /\ UNCHANGED <<request, newViewId, leaderPeerId, requestCounter, viewId,
                     alivePeers, tcpClientMap, pendingRequest, leaderCrashed, listening,
                     backlog, chan, status, heard, crashes, goneAt, restarts, inOrder>>
  BY DEF RequestsSent, Visit, Goto, state, net, world
<1>4. todo'[p][t] = alivePeers[p] /\ todo' \in [Proc -> [Thread -> SUBSET Proc]]
  BY <1>3 DEF Inv, Types, PeerTypes
<1>5. pc'[p][t] = "ok"
  BY <1>3 DEF Inv, Types
<1>6. Loop(p, t)'
  BY <1>3, <1>4, <1>5 DEF Loop
<1>7. ASSUME NEW r \in Peers(p)
      PROVE  Exchanged(p, t, r)'
  <2>1. IF r \notin alivePeers[p] THEN Quiet(p, r) ELSE Asked(r, p, t)
    BY <1>1, <1>2 DEF Working, Exchanged
  <2> QED BY <1>2, <1>3, <1>4, <1>5, <2>1, Silent DEF Exchanged
<1>8. "ok" \in Ops \ {"modify"} /\ pc[p][t] # "modify" /\ ("ok" \in Before <=> pc[p][t] \in Before)
  BY <1>1 DEF Ops, Before
<1>9. newViewId' \in [Proc -> [Thread -> Nat]] /\ pc' \in [Proc -> [Thread -> Label]]
  BY <1>3 DEF Inv, Types, Label, Ops
<1>10. /\ request[p][t].op # "ADD" => Descending(Peers(p), p)'
       /\ chan' = [a \in Proc |-> [b \in Proc |-> chan'[a][b]]]
       /\ \A a, b \in Proc : chan'[a][b] = chan[a][b]
  BY <1>2, <1>3, Silent
<1> QED BY <1>2, <1>3, <1>4, <1>6, <1>7, <1>8, <1>9, <1>10, SameGroup

\* The view id is read.
LEMMA ReadViewIdStep ==
    ASSUME Inv, NEW p \in Proc, NEW t \in Thread, ReadViewId(p, t)
    PROVE  Inv'
<1>1. p \in Live /\ pc[p][t] = "newView"
  BY DEF ReadViewId, At, Live
<1>2. Led(p) /\ Working(p, t)
  BY <1>1, Worker DEF Ops
<1>3. /\ pc' = [pc EXCEPT ![p][t] = "lockView"]
      /\ newViewId' = [newViewId EXCEPT ![p][t] = viewId[p]]
      /\ UNCHANGED <<request, todo, leaderPeerId, requestCounter, viewId,
                     alivePeers, tcpClientMap, pendingRequest, leaderCrashed, listening,
                     backlog, chan, status, heard, crashes, goneAt, restarts, inOrder>>
  BY DEF ReadViewId, Goto, state, net, world
<1>4. pc'[p][t] = "lockView" /\ newViewId'[p][t] = viewId[p]
  BY <1>3 DEF Inv, Types
<1>5. Loop(p, t)'
  BY <1>3, <1>4 DEF Loop
<1>6. ASSUME NEW r \in Peers(p)
      PROVE  Exchanged(p, t, r)'
  <2>1. Quiet(p, r)
    BY <1>1, <1>2 DEF Working, Exchanged
  <2> QED BY <1>2, <1>3, <1>4, <2>1, Silent DEF Exchanged
<1>7. /\ "lockView" \in Ops \ {"modify"} /\ pc[p][t] # "modify"
      /\ "lockView" \in Before <=> pc[p][t] \in Before
  BY <1>1 DEF Ops, Before
<1>8. /\ newViewId' \in [Proc -> [Thread -> Nat]] /\ todo' \in [Proc -> [Thread -> SUBSET Proc]]
      /\ pc' \in [Proc -> [Thread -> Label]]
  BY <1>3 DEF Inv, Types, Label, Ops
<1>9. /\ request[p][t].op # "ADD" => Descending(Peers(p), p)'
      /\ chan' = [a \in Proc |-> [b \in Proc |-> chan'[a][b]]]
      /\ \A a, b \in Proc : chan'[a][b] = chan[a][b]
  BY <1>2, <1>3, Silent
<1> QED BY <1>2, <1>3, <1>5, <1>6, <1>7, <1>8, <1>9, SameGroup

\* The mutex is taken again, and the group is that of the view id.
LEMMA LockViewStep ==
    ASSUME Inv, NEW p \in Proc, NEW t \in Thread, LockView(p, t)
    PROVE  Inv'
<1>1. p \in Live /\ pc[p][t] = "lockView"
  BY DEF LockView, At, Live
<1>2. Led(p) /\ Working(p, t)
  BY <1>1, Worker DEF Ops
<1>3. /\ pc' = [pc EXCEPT ![p][t] = "view"]
      /\ todo' = [todo EXCEPT ![p][t] = alivePeers[p]]
      /\ UNCHANGED <<request, newViewId, leaderPeerId, requestCounter, viewId,
                     alivePeers, tcpClientMap, pendingRequest, leaderCrashed, listening,
                     backlog, chan, status, heard, crashes, goneAt, restarts, inOrder>>
  BY DEF LockView, Visit, Goto, state, net, world
<1>4. todo'[p][t] = alivePeers[p] /\ todo' \in [Proc -> [Thread -> SUBSET Proc]]
  BY <1>3 DEF Inv, Types, PeerTypes
<1>5. pc'[p][t] = "view"
  BY <1>3 DEF Inv, Types
<1>6. alivePeers[p] = Peers(p)
  BY <1>1, <1>2, WorkerState DEF Working, GroupAt, Before, Peers, getGroupMembers
<1>7. Loop(p, t)'
  <2>1. Peers(p)' = Peers(p)
    BY <1>3 DEF Peers, Live
  <2>2. newViewId[p][t] = viewId[p]
    BY <1>1, <1>2 DEF Working, Loop
  <2> QED BY <1>3, <1>4, <1>5, <1>6, <2>1, <2>2 DEF Loop
<1>8. ASSUME NEW r \in Peers(p)
      PROVE  Exchanged(p, t, r)'
  <2>1. Quiet(p, r)
    BY <1>1, <1>2 DEF Working, Exchanged
  <2> QED BY <1>2, <1>3, <1>4, <1>5, <1>6, <2>1, Silent DEF Exchanged
<1>9. /\ "view" \in Ops \ {"modify"} /\ pc[p][t] # "modify"
      /\ "view" \in Before <=> pc[p][t] \in Before
  BY <1>1 DEF Ops, Before
<1>10. newViewId' \in [Proc -> [Thread -> Nat]] /\ pc' \in [Proc -> [Thread -> Label]]
  BY <1>3 DEF Inv, Types, Label, Ops
<1>11. /\ request[p][t].op # "ADD" => Descending(Peers(p), p)'
       /\ chan' = [a \in Proc |-> [b \in Proc |-> chan'[a][b]]]
       /\ \A a, b \in Proc : chan'[a][b] = chan[a][b]
  BY <1>2, <1>3, Silent
<1> QED BY <1>2, <1>3, <1>4, <1>7, <1>8, <1>9, <1>10, <1>11, SameGroup

\* The new view goes to the next peer.
LEMMA SendNewViewStep ==
    ASSUME Inv, NEW p \in Proc, NEW t \in Thread, sendNewViewMsg(p, t)
    PROVE  Inv'
<1>1. p \in Live /\ pc[p][t] = "view"
  BY DEF sendNewViewMsg, At, Live
<1>2. Led(p) /\ Working(p, t)
  BY <1>1, Worker DEF Ops
<1>3. PICK q \in Proc :
          /\ q = Next1(p, t) /\ q \in todo[p][t]
          /\ q \in alivePeers[p] /\ q \in Peers(p) /\ q \in tcpClientMap[p]
          /\ \A r \in todo[p][t] : q <= r
  BY <1>1, <1>2, WorkerState, MinLowest DEF sendNewViewMsg, Next1, Working, Loop, Inv, PeerTypes
<1>4. newViewId[p][t] = viewId[p]
  BY <1>1, <1>2 DEF Working, Loop
<1>5. /\ chan' = [chan EXCEPT ![p][q] = Append(@, NewViewMsg(viewId[p], getGroupMembers(p)))]
      /\ todo' = [todo EXCEPT ![p][t] = todo[p][t] \ {q}]
      /\ UNCHANGED <<pc, request, newViewId, leaderPeerId, requestCounter, viewId,
                     alivePeers, tcpClientMap, pendingRequest, leaderCrashed, listening,
                     backlog, status, heard, crashes, goneAt, restarts, inOrder>>
  <2>1. Sends(p, Next1(p, t)) = {TRUE}
    BY <1>3 DEF Sends, Peers, Live
  <2> QED BY <1>3, <1>4, <2>1 DEF sendNewViewMsg, Send, Visited, Visit, state, world
<1>6. chan[p][q] = <<>> /\ chan[q][p] = <<>>
  BY <1>1, <1>2, <1>3 DEF Working, Exchanged, Quiet
<1>7. /\ chan'[p][q] = <<NewViewMsg(viewId[p], getGroupMembers(p))>>
      /\ \A a, b \in Proc : a # p \/ b # q => chan'[a][b] = chan[a][b]
      /\ chan' = [a \in Proc |-> [b \in Proc |-> chan'[a][b]]]
  BY <1>3, <1>5, <1>6, OneMessage DEF Inv, Types, Peers, Live
<1>8. todo'[p][t] = todo[p][t] \ {q} /\ todo' \in [Proc -> [Thread -> SUBSET Proc]]
  BY <1>5 DEF Inv, Types
<1>9. Peers(p)' = Peers(p) /\ \A r : getGroupMembers(r)' = getGroupMembers(r)
  BY <1>5 DEF Peers, Live, getGroupMembers
<1>10. \A r \in Peers(p) : chan'[r][p] = chan[r][p] /\ (r # q => chan'[p][r] = chan[p][r])
  BY <1>3, <1>7 DEF Peers, Live
<1>11. Loop(p, t)'
  <2>1. \A r \in todo[p][t] : \A s \in Peers(p) \ todo[p][t] : s < r
    BY <1>1, <1>2 DEF Working, Loop
  <2>2. \A r \in todo'[p][t] : r \in Proc /\ q < r
    BY <1>3, <1>8, NAssumption DEF Inv, Types, Proc
  <2>3. \A r \in todo'[p][t] : \A s \in Peers(p) \ todo'[p][t] : s < r
    BY <1>8, <2>1, <2>2
  <2>4. todo[p][t] \subseteq alivePeers[p]
    BY <1>1, <1>2 DEF Working, Loop
  <2>5. UNCHANGED <<pc, alivePeers, newViewId, viewId>>
    BY <1>5
  <2> QED BY <1>4, <1>8, <1>9, <2>3, <2>4, <2>5 DEF Loop
<1>12. \A r \in Peers(p) \ todo[p][t] : UpToDate(r, p) \/ ViewOnWay(r, p)
  BY <1>1, <1>2 DEF Working, Exchanged
<1>13. \A r \in Peers(p) \cap todo[p][t] : Quiet(p, r)
  BY <1>1, <1>2 DEF Working, Exchanged
<1>14. UNCHANGED <<viewId, pendingRequest, pc>>
  BY <1>5
<1>15. ASSUME NEW r \in Peers(p)
       PROVE  Exchanged(p, t, r)'
  <2>1. CASE r = q
    <3>1. ViewOnWay(q, p)'
      BY <1>3, <1>6, <1>7, <1>9, <1>10, <1>14 DEF ViewOnWay
    <3> QED BY <1>1, <1>8, <1>14, <2>1, <3>1 DEF Exchanged
  <2>2. CASE r \in todo[p][t] \ {q}
    <3>1. Quiet(p, r)'
      BY <1>10, <1>13, <2>2 DEF Quiet
    <3> QED BY <1>1, <1>8, <1>14, <2>2, <3>1 DEF Exchanged
  <2>3. CASE r \notin todo[p][t]
    <3>1. chan'[p][r] = chan[p][r] /\ chan'[r][p] = chan[r][p]
      BY <1>3, <1>10, <2>3
    <3>2. UpToDate(r, p)' = UpToDate(r, p) /\ ViewOnWay(r, p)' = ViewOnWay(r, p)
      BY <1>9, <1>14, <3>1 DEF UpToDate, ViewOnWay, Quiet
    <3> QED BY <1>1, <1>8, <1>12, <1>14, <2>3, <3>2 DEF Exchanged
  <2> QED BY <2>1, <2>2, <2>3
<1>16. request[p][t].op # "ADD" => Descending(Peers(p), p)'
  <2> SUFFICES ASSUME request[p][t].op # "ADD" PROVE Descending(Peers(p), p)'
    OBVIOUS
  <2>0. Descending(Peers(p), p)
    BY <1>2 DEF Working, Replaceable
  <2>1. Eff(q, p)' = viewId[p]
    BY <1>7, OneMessage DEF Eff, NewViewMsg
  <2>2. \A r \in Peers(p) \ todo[p][t] : Eff(r, p) = viewId[p]
    BY <1>12, OneMessage DEF UpToDate, ViewOnWay, NewViewMsg, Eff, Quiet
  <2>3. \A r \in Peers(p) \ {q} : Eff(r, p)' = Eff(r, p)
    BY <1>10, <1>14 DEF Eff
  <2>4. \A r \in Peers(p) \cap todo[p][t] : Eff(r, p) = viewId[r] /\ viewId[r] <= viewId[p]
    BY <1>2, <1>13 DEF Eff, Quiet, Led
  <2>5. \A r \in Peers(p) : viewId[r] \in Nat /\ r \in Nat
    BY NAssumption DEF Inv, Types, Peers, Live, Proc
  <2>6. viewId[p] \in Nat
    BY DEF Inv, Types
  <2>7. \A r, s \in Peers(p) : r < s => Eff(r, p)' >= Eff(s, p)'
    <3>1. TAKE r, s \in Peers(p)
    <3>2. HAVE r < s
    <3>3. CASE r \notin todo[p][t] \/ r = q
      BY <2>1, <2>2, <2>3, <2>4, <2>5, <2>6, <3>3
    <3>4. CASE r \in todo[p][t] \ {q}
      <4>1. q < r
        BY <1>3, <2>5, <3>4
      <4>2. \A u \in Peers(p) \ todo[p][t] : u < q
        BY <1>1, <1>2, <1>3 DEF Working, Loop
      <4>3. s \in todo[p][t] \ {q}
        BY <1>3, <2>5, <3>2, <4>1, <4>2
      <4> QED BY <2>0, <2>3, <3>2, <3>4, <4>3 DEF Descending
    <3> QED BY <3>3, <3>4
  <2> QED BY <1>9, <2>7 DEF Descending
<1>17. /\ "view" \in Ops \ {"modify"} /\ pc[p][t] # "modify"
       /\ "view" \in Before <=> pc[p][t] \in Before
  BY <1>1 DEF Ops, Before
<1>18. /\ pc' = [pc EXCEPT ![p][t] = "view"] /\ newViewId' \in [Proc -> [Thread -> Nat]]
       /\ pc' \in [Proc -> [Thread -> Label]]
  BY <1>1, <1>5 DEF Inv, Types
<1>19. \A a, b \in Proc : chan'[a][b] # chan[a][b] => a = p /\ b \in Peers(p)
  BY <1>3, <1>7
<1> QED
  BY <1>2, <1>5, <1>7, <1>8, <1>11, <1>15, <1>16, <1>17, <1>18, <1>19, SameGroup

\* A step in which nobody starts or goes keeps History, if it leaves those that
\* are not live alone.
LEMMA SameHistory ==
    ASSUME Inv, UNCHANGED <<status, crashes, goneAt>>,
           \A r \in Proc : r \notin Live => heard'[r] = heard[r],
           \A r \in Proc : \A q \in heard'[r] : q \in heard[r] \/ q \in Live,
           \A r \in Proc : r \notin Live =>
                /\ pc'[r] = pc[r] /\ viewId'[r] = viewId[r]
                /\ alivePeers'[r] = alivePeers[r] /\ tcpClientMap'[r] = tcpClientMap[r]
                /\ pendingRequest'[r] = pendingRequest[r]
                /\ leaderCrashed'[r] = leaderCrashed[r]
                /\ listening'[r] = listening[r] /\ backlog'[r] = backlog[r],
           \A a, b \in Proc : status[a] = "down" \/ status[b] = "down" => chan'[a][b] = chan[a][b]
    PROVE  History'
<1>1. ASSUME NEW r \in Proc, status[r] = "down" PROVE Unused(r)'
  <2>1. Unused(r) /\ r \notin Live
    BY <1>1 DEF Inv, History, Live
  <2>2. \A q \in Proc : chan'[r][q] = chan[r][q] /\ chan'[q][r] = chan[q][r]
    BY <1>1
  <2> QED BY <2>1, <2>2 DEF Unused
<1>2. \A r \in Proc : status'[r] # "up" => heard'[r] = {}
  BY DEF Inv, History, Live
<1>3. \A r \in Proc : \A q \in heard'[r] : status'[q] # "down"
  BY DEF Inv, History, Live
<1>4. /\ \A r \in Proc : (goneAt[r] > 0 <=> status[r] = "crashed") /\ goneAt[r] <= crashes
      /\ \A r, q \in Proc : goneAt[r] > 0 /\ goneAt[r] = goneAt[q] => r = q
  BY DEF Inv, History
<1> QED BY <1>1, <1>2, <1>3, <1>4 DEF History

\* The mutex is taken and a crashed peer removed.
LEMMA LockGroupStep ==
    ASSUME Inv, NEW p \in Proc, NEW t \in Thread, LockGroup(p, t)
    PROVE  Inv'
<1>0. \A u : u \in Thread <=> u = "main" \/ u = "detector"
  BY DEF Thread
<1>1. p \in Live /\ pc[p][t] = "modify"
  BY DEF LockGroup, At, Live
<1>2. Led(p) /\ Working(p, t)
  BY <1>1, Worker DEF Ops
<1> DEFINE removed == IF request[p][t].op = "DEL" THEN {request[p][t].peer} ELSE {}
           skipped == IF isTestCase4(p, t) THEN {2} ELSE {}
<1>3. /\ tcpClientMap' = [tcpClientMap EXCEPT ![p] = @ \ removed]
      /\ alivePeers' = [alivePeers EXCEPT ![p] = @ \ removed]
      /\ todo' = [todo EXCEPT ![p][t] = (alivePeers[p] \ removed) \ skipped]
      /\ pc' = [pc EXCEPT ![p][t] = "request"]
      /\ UNCHANGED <<request, newViewId, leaderPeerId, requestCounter, viewId,
                     pendingRequest, leaderCrashed, listening,
                     backlog, chan, status, heard, crashes, goneAt, restarts, inOrder>>
  BY DEF LockGroup, Visit, Goto, net, world
<1>4. /\ alivePeers \in [Proc -> SUBSET Proc] /\ tcpClientMap \in [Proc -> SUBSET Proc]
      /\ todo \in [Proc -> [Thread -> SUBSET Proc]] /\ pc \in [Proc -> [Thread -> Label]]
  BY DEF Inv, Types, PeerTypes
<1>5. /\ alivePeers'[p] = alivePeers[p] \ removed /\ tcpClientMap'[p] = tcpClientMap[p] \ removed
      /\ todo'[p][t] = alivePeers'[p] \ skipped
      /\ pc'[p][t] = "request"
      /\ \A r \in Proc \ {p} : /\ alivePeers'[r] = alivePeers[r] /\ pc'[r] = pc[r]
                               /\ tcpClientMap'[r] = tcpClientMap[r]
      /\ \A u \in Thread \ {t} : pc'[p][u] = pc[p][u]
  BY <1>3, <1>4
<1>6. Types'
  <2>1. pc' \in [Proc -> [Thread -> Label]] /\ todo' \in [Proc -> [Thread -> SUBSET Proc]]
    BY <1>3, <1>4 DEF Label, Ops
  <2> QED BY <1>3, <2>1 DEF Inv, Types
<1>7. PeerTypes'
  <2>1. /\ alivePeers' \in [Proc -> SUBSET Proc] /\ tcpClientMap' \in [Proc -> SUBSET Proc]
    BY <1>3, <1>4
  <2> QED BY <1>3, <1>5, <2>1 DEF Inv, PeerTypes
<1>8. History'
  BY <1>1, <1>3, <1>5, SameHistory
<1>9. Live' = Live /\ Dead' = Dead /\ Peers(p)' = Peers(p) /\ MayDiffer' = MayDiffer
  BY <1>3 DEF Live, Dead, Peers, MayDiffer
<1>10. \A q \in Proc \ {p} : getGroupMembers(q)' = getGroupMembers(q)
  BY <1>5 DEF getGroupMembers
<1>11. \A q, r \in Peers(p) : Agree(q, r)' = Agree(q, r)
  BY <1>3, <1>5, <1>9, <1>10 DEF Agree, Peers, Live
<1>12. /\ Role(p, t) /\ GroupAt(p, t) /\ (request[p][t].op # "ADD" => Replaceable(p))
       /\ \A q \in Peers(p) : Following(q, p)
       /\ \A q \in Peers(p) : Exchanged(p, t, q)
  BY <1>2 DEF Working
<1>13. removed \cap Live = {}
  BY <1>12 DEF Role, Dead
<1>14. request[p][t].op \in {"ADD", "DEL"}
  BY <1>1, <1>12 DEF Role, Before, Inv, Types, Request
<1>15. Role(p, t)'
  <2>1. Connected(p, Live)'
    BY <1>5, <1>9, <1>12, <1>13 DEF Connected, Role
  <2>2. /\ pc'[p][t] \in Ops
        /\ IF t = "main" THEN pc'[p]["detector"] = "watch" ELSE pc'[p]["main"] = "accept"
    BY <1>0, <1>5, <1>12 DEF Role, Ops
  <2> QED BY <1>3, <1>9, <1>12, <1>14, <2>1, <2>2 DEF Role
<1>16. GroupAt(p, t)'
  <2>1. getGroupMembers(p)' = getGroupMembers(p) \ removed
    BY <1>1, <1>5, <1>13 DEF getGroupMembers
  <2>2. CASE request[p][t].op = "ADD"
    BY <1>1, <1>3, <1>5, <1>9, <1>12, <2>1, <2>2 DEF GroupAt, Before
  <2>3. CASE request[p][t].op = "DEL"
    <3>1. Live \subseteq getGroupMembers(p) /\ getGroupMembers(p) \subseteq Live \cup {request[p][t].peer}
      BY <1>1, <1>12, <2>3 DEF GroupAt
    <3>2. getGroupMembers(p)' = Live
      BY <1>13, <2>1, <2>3, <3>1
    <3> QED BY <1>3, <1>5, <1>9, <2>3, <3>2 DEF GroupAt
  <2> QED BY <1>14, <2>2, <2>3
<1>17. Loop(p, t)'
  BY <1>5 DEF Loop
<1>18. request[p][t].op # "ADD" => Replaceable(p)'
  <2>1. \A q \in Proc : Eff(q, p)' = Eff(q, p)
    BY <1>3 DEF Eff
  <2>2. request[p][t].op # "ADD" => Descending(Peers(p), p)'
    BY <1>9, <1>12, <2>1 DEF Replaceable, Descending, Peers, Live
  <2>3. \A q \in Peers(p) : q \in Proc \ {p}
    BY DEF Peers, Live
  <2> QED BY <1>3, <1>9, <1>10, <1>12, <2>2, <2>3 DEF Replaceable, HeardAll, Harmless
<1>19. \A q \in Peers(p) : Following(q, p)'
  BY <1>3, <1>5, <1>12 DEF Following, Peers, Live
<1>20. \A q \in Peers(p) : Exchanged(p, t, q)'
  <2>1. TAKE q \in Peers(p)
  <2>2. Quiet(p, q)'
    BY <1>1, <1>3, <1>12 DEF Exchanged, Quiet
  <2>3. isTestCase4(p, t)' = isTestCase4(p, t)
    BY <1>3 DEF isTestCase4
  <2>4. q \in todo'[p][t] \/ q \notin alivePeers'[p] \/ (isTestCase4(p, t) /\ q = 2)
    BY <1>5
  <2> QED BY <1>5, <2>2, <2>3, <2>4 DEF Exchanged
<1>21. Working(p, t)'
  BY <1>3, <1>5, <1>9, <1>15, <1>16, <1>17, <1>18, <1>19, <1>20 DEF Working, Before
<1>22. Private(p)'
  BY <1>2, <1>3, <1>9 DEF Led, Private
<1>23. Led(p)'
  BY <1>2, <1>3, <1>9, <1>11, <1>21, <1>22 DEF Led
<1> QED BY <1>6, <1>7, <1>8, <1>23 DEF Inv, Phase

\* The new view is installed.
LEMMA InstallViewStep ==
    ASSUME Inv, NEW p \in Proc, NEW t \in Thread, InstallView(p, t)
    PROVE  Inv'
<1>0. \A u : u \in Thread <=> u = "main" \/ u = "detector"
  BY DEF Thread
<1>1. p \in Live /\ pc[p][t] = "ok" /\ todo[p][t] = {}
  BY DEF InstallView, At, Live
<1>2. Led(p) /\ Working(p, t)
  BY <1>1, Worker DEF Ops
<1> DEFINE added == IF request[p][t].op = "ADD" THEN {request[p][t].peer} ELSE {}
<1>3. /\ alivePeers' = [alivePeers EXCEPT ![p] = @ \cup added]
      /\ viewId' = [viewId EXCEPT ![p] = @ + 1]
      /\ pc' = [pc EXCEPT ![p][t] = "newView"]
      /\ UNCHANGED <<request, todo, newViewId, leaderPeerId, requestCounter, tcpClientMap,
                     pendingRequest, leaderCrashed, listening,
                     backlog, chan, status, heard, crashes, goneAt, restarts, inOrder>>
  <2>1. alivePeers' = [alivePeers EXCEPT ![p] = @ \cup added]
    BY DEF InstallView
  <2> QED BY <2>1 DEF InstallView, Goto, local, net, world
<1>4. /\ alivePeers \in [Proc -> SUBSET Proc] /\ viewId \in [Proc -> Nat \ {0}]
      /\ pc \in [Proc -> [Thread -> Label]]
  BY DEF Inv, Types, PeerTypes
<1>5. /\ alivePeers'[p] = alivePeers[p] \cup added /\ viewId'[p] = viewId[p] + 1
      /\ pc'[p][t] = "newView"
      /\ \A r \in Proc \ {p} : /\ alivePeers'[r] = alivePeers[r] /\ pc'[r] = pc[r]
                               /\ viewId'[r] = viewId[r]
      /\ \A u \in Thread \ {t} : pc'[p][u] = pc[p][u]
  BY <1>3, <1>4
<1>6. /\ Role(p, t) /\ GroupAt(p, t) /\ (request[p][t].op # "ADD" => Replaceable(p))
      /\ \A q \in Peers(p) : Following(q, p)
      /\ \A q \in Peers(p) : Exchanged(p, t, q)
  BY <1>2 DEF Working
<1>7. request[p][t].op \in {"ADD", "DEL"} /\ added \subseteq Peers(p)
  BY <1>1, <1>6 DEF Role, Before, Inv, Types, Request
<1>8. Types'
  <2>1. pc' \in [Proc -> [Thread -> Label]] /\ viewId' \in [Proc -> Nat \ {0}]
    BY <1>3, <1>4 DEF Label, Ops
  <2>2. UNCHANGED <<request, todo, newViewId, leaderPeerId, requestCounter,
                    pendingRequest, leaderCrashed, listening, backlog, chan, status, crashes, goneAt>>
    BY <1>3
  <2> QED BY <2>1, <2>2 DEF Inv, Types
<1>9. PeerTypes'
  <2>1. alivePeers' \in [Proc -> SUBSET Proc] /\ p \notin alivePeers'[p]
    BY <1>3, <1>4, <1>5, <1>7 DEF Peers, Live, Inv, PeerTypes
  <2> QED BY <1>3, <1>5, <2>1 DEF Inv, PeerTypes
<1>10. History'
  BY <1>1, <1>3, <1>5, SameHistory
<1>11. Live' = Live /\ Dead' = Dead /\ Peers(p)' = Peers(p) /\ MayDiffer' = MayDiffer
  BY <1>3 DEF Live, Dead, Peers, MayDiffer
<1>12. \A q \in Peers(p) : q \in Proc \ {p}
  BY DEF Peers, Live
<1>13. \A q \in Peers(p) : getGroupMembers(q)' = getGroupMembers(q)
  BY <1>5, <1>12 DEF getGroupMembers
<1>14. \A q, r \in Peers(p) : Agree(q, r)' = Agree(q, r)
  BY <1>5, <1>11, <1>12, <1>13 DEF Agree
<1>15. \A q \in Peers(p) : viewId'[q] < viewId'[p] /\ viewId'[q] <= viewId'[p]
  BY <1>2, <1>4, <1>5, <1>12 DEF Led
<1>16. \A q \in Peers(p) : Agree(q, p)'
  <2>1. \A q \in Peers(p) : viewId'[q] # viewId'[p]
    BY <1>4, <1>5, <1>12, <1>15
  <2> QED BY <2>1 DEF Agree
<1>17. Role(p, t)'
  <2>1. Connected(p, Live)'
    BY <1>3, <1>6, <1>11 DEF Connected, Role
  <2>2. /\ pc'[p][t] \in Ops /\ pc'[p][t] \notin Before
        /\ IF t = "main" THEN pc'[p]["detector"] = "watch" ELSE pc'[p]["main"] = "accept"
    BY <1>0, <1>5, <1>6 DEF Role, Ops, Before
  <2> QED BY <1>3, <1>6, <1>11, <2>1, <2>2 DEF Role
<1>18. GroupAt(p, t)'
  <2>1. getGroupMembers(p)' = getGroupMembers(p) \cup added
    BY <1>5 DEF getGroupMembers
  <2>2. getGroupMembers(p)' = Live
    BY <1>1, <1>6, <1>7, <2>1 DEF GroupAt, Before, Peers
  <2> QED BY <1>3, <1>5, <1>11, <2>2 DEF GroupAt, Before
<1>19. Loop(p, t)'
  BY <1>5 DEF Loop
<1>20. request[p][t].op # "ADD" => Replaceable(p)'
  <2>1. \A q \in Peers(p) : Eff(q, p)' = Eff(q, p)
    BY <1>3, <1>5, <1>12 DEF Eff
  <2>2. request[p][t].op # "ADD" => Descending(Peers(p), p)'
    BY <1>6, <1>11, <2>1 DEF Replaceable, Descending
  <2> QED BY <1>3, <1>6, <1>11, <1>13, <2>2 DEF Replaceable, HeardAll, Harmless
<1>21. \A q \in Peers(p) : Following(q, p)'
  BY <1>3, <1>5, <1>6, <1>12 DEF Following
<1>22. \A q \in Peers(p) : Exchanged(p, t, q)'
  <2>1. TAKE q \in Peers(p)
  <2>2. Quiet(p, q)'
    BY <1>1, <1>3, <1>6 DEF Exchanged, Quiet
  <2> QED BY <1>5, <2>2 DEF Exchanged
<1>23. Working(p, t)'
  BY <1>3, <1>11, <1>16, <1>17, <1>18, <1>19, <1>20, <1>21, <1>22 DEF Working
<1>24. Private(p)'
  BY <1>2, <1>3, <1>11 DEF Led, Private
<1>25. Led(p)'
  BY <1>2, <1>11, <1>14, <1>15, <1>23, <1>24 DEF Led
<1> QED BY <1>8, <1>9, <1>10, <1>25 DEF Inv, Phase

\* The view is sent: c is idle, or, elected, opens its server and is.
LEMMA EndViewStep ==
    ASSUME Inv, NEW p \in Proc, NEW t \in Thread, EndView(p, t)
    PROVE  Inv'
<1>0. \A u : u \in Thread <=> u = "main" \/ u = "detector"
  BY DEF Thread
<1>1. p \in Live /\ pc[p][t] = "view" /\ todo[p][t] = {}
  BY DEF EndView, At, Live
<1>2. Led(p) /\ Working(p, t)
  BY <1>1, Worker DEF Ops
<1>3. /\ pc' = [pc EXCEPT ![p][t] = IF t = "main" THEN "accept" ELSE "watch"]
      /\ leaderPeerId' = [leaderPeerId EXCEPT ![p] = IF t = "main" THEN p ELSE @]
      /\ listening' = [listening EXCEPT ![p] = @ \/ t = "main"]
      /\ UNCHANGED <<request, todo, newViewId, requestCounter, viewId, alivePeers, tcpClientMap,
                     pendingRequest, leaderCrashed,
                     backlog, chan, status, heard, crashes, goneAt, restarts, inOrder>>
  <2>1. pc' = [pc EXCEPT ![p][t] = IF t = "main" THEN "accept" ELSE "watch"]
    BY DEF EndView, Goto
  <2>2. leaderPeerId' = [leaderPeerId EXCEPT ![p] = IF t = "main" THEN p ELSE @]
    BY DEF EndView
  <2>3. listening' = [listening EXCEPT ![p] = @ \/ t = "main"]
    BY DEF EndView
  <2> QED BY <2>1, <2>2, <2>3 DEF EndView, local, net, world
<1>4. /\ leaderPeerId \in [Proc -> Proc] /\ listening \in [Proc -> BOOLEAN]
      /\ pc \in [Proc -> [Thread -> Label]]
  BY DEF Inv, Types
<1>5. /\ pc'[p][t] = IF t = "main" THEN "accept" ELSE "watch"
      /\ leaderPeerId'[p] = IF t = "main" THEN p ELSE leaderPeerId[p]
      /\ listening'[p] = (listening[p] \/ t = "main")
      /\ \A r \in Proc \ {p} : /\ leaderPeerId'[r] = leaderPeerId[r] /\ pc'[r] = pc[r]
                               /\ listening'[r] = listening[r]
      /\ \A u \in Thread \ {t} : pc'[p][u] = pc[p][u]
  BY <1>3, <1>4
<1>6. /\ Role(p, t) /\ GroupAt(p, t)
      /\ \A q \in Peers(p) : Following(q, p) /\ Exchanged(p, t, q)
      /\ \A q \in Peers(p) : Agree(q, p)
  BY <1>1, <1>2 DEF Working, Before
<1>7. Types'
  <2>1. pc' \in [Proc -> [Thread -> Label]]
    BY <1>3, <1>4 DEF Label, Ops
  <2>2. leaderPeerId' \in [Proc -> Proc] /\ listening' \in [Proc -> BOOLEAN]
    BY <1>3, <1>4
  <2>3. UNCHANGED <<request, todo, newViewId, requestCounter, viewId, pendingRequest,
                    leaderCrashed, backlog, chan, status, crashes, goneAt>>
    BY <1>3
  <2> QED BY <2>1, <2>2, <2>3 DEF Inv, Types
<1>8. PeerTypes'
  BY <1>3 DEF Inv, PeerTypes
<1>9. History'
  BY <1>1, <1>3, <1>5, SameHistory
<1>10. Live' = Live /\ Dead' = Dead /\ Peers(p)' = Peers(p)
  BY <1>3 DEF Live, Dead, Peers
<1>11. MayDiffer' = MayDiffer
  <2>1. \A d \in Proc \ Live : listening'[d] = listening[d]
    BY <1>1, <1>5
  <2> QED BY <1>10, <2>1 DEF MayDiffer
<1>12. \A q : getGroupMembers(q)' = getGroupMembers(q)
  BY <1>3 DEF getGroupMembers
<1>13. \A q, r : Agree(q, r)' = Agree(q, r)
  BY <1>3, <1>11, <1>12 DEF Agree
<1>14. \A q \in Peers(p) : q \in Proc \ {p}
  BY DEF Peers, Live
<1>15. Resting(p)'
  <2>1. CASE t = "main"
    BY <1>0, <1>5, <1>6, <2>1 DEF Resting, Role
  <2>2. CASE t = "detector"
    BY <1>0, <1>5, <1>6, <2>2 DEF Resting, Role
  <2> QED BY <1>0, <2>1, <2>2
<1>16. backlog'[p] = <<>> /\ heard'[p] \subseteq Live /\ Connected(p, Live)'
  BY <1>3, <1>6, <1>10 DEF Role, Connected
<1>17. getGroupMembers(p)' = Live
  BY <1>1, <1>6, <1>12 DEF GroupAt, Before
<1>18. ASSUME NEW q \in Peers(p)
       PROVE  Following(q, p)' /\ (UpToDate(q, p)' \/ (ViewOnWay(q, p)' /\ Agree(q, p)'))
  <2>1. Following(q, p)'
    BY <1>3, <1>5, <1>6, <1>14 DEF Following
  <2>2. UpToDate(q, p) \/ ViewOnWay(q, p)
    BY <1>1, <1>6 DEF Exchanged
  <2>3. UpToDate(q, p)' = UpToDate(q, p) /\ ViewOnWay(q, p)' = ViewOnWay(q, p)
    BY <1>3, <1>12 DEF UpToDate, ViewOnWay, Quiet
  <2> QED BY <1>6, <1>13, <2>1, <2>2, <2>3
<1>19. Idle(p)'
  BY <1>10, <1>15, <1>16, <1>17, <1>18 DEF Idle
<1>20. Private(p)'
  BY <1>2, <1>3, <1>10 DEF Led, Private
<1>21. Led(p)'
  BY <1>2, <1>3, <1>10, <1>13, <1>19, <1>20 DEF Led
<1> QED BY <1>7, <1>8, <1>9, <1>21 DEF Inv, Phase
=============================================================================
