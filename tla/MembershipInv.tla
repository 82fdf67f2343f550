--------------------------- MODULE MembershipInv ---------------------------
(***************************************************************************)
(* The inductive invariant of Membership, for leaders that do not crash    *)
(* in the middle of an ADD.  In every reachable state                      *)
(*   - nobody is live (Empty), or a single process looks for a leader      *)
(*     (First), or                                                         *)
(*   - a live process c leads the group, or completes the operation that   *)
(*     makes it the leader (Led), or                                       *)
(*   - the leader l is gone and m, the lowest live process, is elected     *)
(*     (Election).                                                         *)
(***************************************************************************)
EXTENDS Membership

Dead == Proc \ Live

Peers(c) == Live \ {c}

Ops == {"modify", "request", "ok", "newView", "lockView", "view"}

Label == Ops \cup {"findLeader", "accept", "follow", "watch", "awaitCrash", "elect",
                  "newLeader", "pending", "awaitLeader", "newLeaderMsg"}

\* In these steps of an operation the new view is not installed yet.
Before == {"modify", "request", "ok"}

Request == [type : {"REQUEST"}, op : {"NOTHING", "ADD", "DEL"}, peer : 0..N, id : Nat]

Quiet(c, q) == chan[c][q] = <<>> /\ chan[q][c] = <<>>

HeardAll == \A q \in Live : Live \ {q} \subseteq heard[q]

----------------------------------------------------------------------------
(* Types, and what holds in every phase *)

Types ==
    /\ status \in [Proc -> {"down", "up", "crashed"}]
    /\ pc \in [Proc -> [Thread -> Label]]
    /\ request \in [Proc -> [Thread -> Request]]
    /\ todo \in [Proc -> [Thread -> SUBSET Proc]]
    /\ newViewId \in [Proc -> [Thread -> Nat]]
    /\ leaderPeerId \in [Proc -> Proc]
    /\ requestCounter \in [Proc -> Nat]
    /\ viewId \in [Proc -> Nat \ {0}]
    /\ pendingRequest \in [Proc -> Request]
    /\ leaderCrashed \in [Proc -> BOOLEAN]
    /\ listening \in [Proc -> BOOLEAN]
    /\ backlog \in [Proc -> Seq(Proc)]
    /\ chan = [p \in Proc |-> [q \in Proc |-> chan[p][q]]]
    /\ crashes \in Nat
    /\ goneAt \in [Proc -> Nat]

PeerTypes ==
    /\ alivePeers \in [Proc -> SUBSET Proc]
    /\ tcpClientMap \in [Proc -> SUBSET Proc]
    /\ heard \in [Proc -> SUBSET Proc]
    /\ \A p \in Proc :
        p \notin alivePeers[p] /\ p \notin tcpClientMap[p] /\ p \notin heard[p]

\* A process that has not run yet.
Unused(p) ==
    /\ pc[p]["main"] = "findLeader" /\ pc[p]["detector"] = "watch"
    /\ alivePeers[p] = {} /\ tcpClientMap[p] = {} /\ pendingRequest[p] = Dummy
    /\ viewId[p] = 1
    /\ ~ leaderCrashed[p] /\ ~ listening[p] /\ backlog[p] = <<>>
    /\ \A q \in Proc : chan[p][q] = <<>> /\ chan[q][p] = <<>>

\* Crashes are numbered in their order, and only processes that ran are heard.
History ==
    /\ \A p \in Proc :
        /\ status[p] # "up" => heard[p] = {}
        /\ status[p] = "down" => Unused(p)
        /\ goneAt[p] > 0 <=> status[p] = "crashed"
        /\ goneAt[p] <= crashes
        /\ \A q \in heard[p] : status[q] # "down"
    /\ \A p, q \in Proc : goneAt[p] > 0 /\ goneAt[p] = goneAt[q] => p = q

----------------------------------------------------------------------------
(* Followers of c *)

Following(q, c) ==
    /\ pc[q]["main"] = "follow" /\ pc[q]["detector"] = "watch"
    /\ leaderPeerId[q] = c /\ ~ leaderCrashed[q]
    /\ ~ listening[q] /\ backlog[q] = <<>>

\* q has the view of c.
UpToDate(q, c) ==
    /\ Quiet(c, q)
    /\ getGroupMembers(q) = getGroupMembers(c)
    /\ viewId[q] = viewId[c]
    /\ pendingRequest[q] = Dummy

ViewOnWay(q, c) ==
    /\ chan[c][q] = <<NewViewMsg(viewId[c], getGroupMembers(c))>>
    /\ chan[q][c] = <<>>

\* The request of thread t is on its way to q, or the answer on its way back.
Asked(q, c, t) ==
    \/ chan[c][q] = <<request[c][t]>> /\ chan[q][c] = <<>>
    \/ chan[c][q] = <<>> /\ chan[q][c] = <<OkMsg(request[c][t].id)>>

\* A request that q may answer the next leader with.
Harmless(r) == r.op # "ADD" /\ (r.op = "DEL" => r.peer \in Dead)

\* The view id q has, or is about to have.
Eff(q, c) ==
    IF chan[c][q] # <<>> /\ Head(chan[c][q]).type = "NEW_VIEW"
    THEN Head(chan[c][q]).id ELSE viewId[q]

\* Views are sent in ascending order.
Descending(S, c) == \A q, r \in S : q < r => Eff(q, c) >= Eff(r, c)

\* The views of q and r agree, if they have the same id.
Agree(q, r) ==
    alivePeers[q] # {} /\ alivePeers[r] # {} /\ viewId[q] = viewId[r]
        => getGroupMembers(q) \ MayDiffer = getGroupMembers(r) \ MayDiffer

----------------------------------------------------------------------------
(* A live process c leads. *)

\* c waits for connections and for failures.
Resting(c) ==
    /\ pc[c]["main"] = "accept" /\ pc[c]["detector"] = "watch"
    /\ leaderPeerId[c] = c /\ listening[c]

Connected(c, S) == S \ {c} \subseteq tcpClientMap[c]

\* Nothing to do, but some may have yet to receive the view.
Idle(c) ==
    /\ Resting(c) /\ backlog[c] = <<>>
    /\ heard[c] \subseteq Live
    /\ getGroupMembers(c) = Live /\ Connected(c, Live)
    /\ \A q \in Peers(c) :
        /\ Following(q, c)
        /\ UpToDate(q, c) \/ (ViewOnWay(q, c) /\ Agree(q, c))

\* j looks for the leader, or waits to be accepted.
Joining(c, j) ==
    /\ j \in Peers(c)
    /\ Resting(c)
    /\ heard[c] \subseteq Live
    /\ getGroupMembers(c) = Live \ {j} /\ Connected(c, Live \ {j})
    /\ alivePeers[j] = {} /\ pendingRequest[j] = Dummy /\ Quiet(c, j)
    /\ \/ /\ pc[j]["main"] = "findLeader" /\ pc[j]["detector"] = "watch"
          /\ c \in todo[j]["main"] /\ j \notin todo[j]["main"]
          /\ heard[j] \subseteq Live /\ ~ leaderCrashed[j] /\ ~ listening[j]
          /\ backlog[j] = <<>> /\ backlog[c] = <<>>
       \/ Following(j, c) /\ backlog[c] = <<j>>
    /\ \A q \in Peers(c) \ {j} : Following(q, c) /\ UpToDate(q, c)

\* The follower x is gone and c does not know it yet.
Losing(c, x) ==
    /\ x \in Dead
    /\ Resting(c) /\ backlog[c] = <<>>
    /\ heard[c] \cap Dead = {x} /\ HeardAll
    /\ getGroupMembers(c) = Live \cup {x} /\ Connected(c, Live)
    /\ \A q \in Peers(c) : Following(q, c) /\ UpToDate(q, c)

\* What thread t of c and its followers have exchanged.
Exchanged(c, t, q) ==
    LET label == pc[c][t]
        left == todo[c][t]
    IN  /\ label \in {"modify", "newView", "lockView"} => Quiet(c, q)
        /\ label = "request" =>
              IF q \in left \/ q \notin alivePeers[c] THEN Quiet(c, q)
              ELSE Asked(q, c, t) \/ (isTestCase4(c, t) /\ q = 2 /\ Quiet(c, q))
        /\ label = "ok" => IF q \in left THEN Asked(q, c, t) ELSE Quiet(c, q)
        /\ label = "view" =>
              IF q \in left THEN Quiet(c, q) ELSE UpToDate(q, c) \/ ViewOnWay(q, c)

\* Thread t of c is in an operation: an ADD or DEL of the leader, or, where
\* leaderPeerId[c] is still the old leader, what a new leader completes.
Role(c, t) ==
    LET op == request[c][t].op
    IN  /\ pc[c][t] \in Ops
        /\ IF t = "main" THEN pc[c]["detector"] = "watch"
           ELSE pc[c]["main"] = "accept" /\ op = "DEL"
        /\ \/ leaderPeerId[c] = c /\ listening[c] /\ op # "NOTHING"
           \/ /\ leaderPeerId[c] \in Dead /\ ~ listening[c] /\ t = "main" /\ op # "ADD"
              /\ \E d \in Dead : listening[d]
        /\ backlog[c] = <<>> /\ heard[c] \subseteq Live /\ Connected(c, Live)
        /\ op = "ADD" => request[c][t].peer \in Peers(c) /\ t = "main"
        /\ op = "DEL" => request[c][t].peer \in Dead
        /\ op = "NOTHING" => pc[c][t] \notin Before

\* The members that c knows.
GroupAt(c, t) ==
    LET op == request[c][t].op
        peer == request[c][t].peer
    IN  IF op = "ADD" /\ pc[c][t] \in Before THEN getGroupMembers(c) = Live \ {peer}
        ELSE IF op = "DEL" /\ pc[c][t] = "modify"
             THEN Live \subseteq getGroupMembers(c) /\ getGroupMembers(c) \subseteq Live \cup {peer}
             ELSE getGroupMembers(c) = Live

Loop(c, t) ==
    /\ pc[c][t] \in {"request", "ok", "view"} => todo[c][t] \subseteq alivePeers[c]
    /\ pc[c][t] \in {"lockView", "view"} => newViewId[c][t] = viewId[c]
    /\ pc[c][t] = "view" =>
        \A q \in todo[c][t] : \A r \in Peers(c) \ todo[c][t] : r < q

\* Except in an ADD, c may fail: then the others must be able to go on.
Replaceable(c) ==
    /\ HeardAll /\ Descending(Peers(c), c)
    /\ \A q \in Peers(c) : Live \subseteq getGroupMembers(q) /\ Harmless(pendingRequest[q])

Working(c, t) ==
    /\ Role(c, t) /\ GroupAt(c, t) /\ Loop(c, t)
    /\ request[c][t].op # "ADD" => Replaceable(c)
    /\ \A q \in Peers(c) : Following(q, c)
    /\ \A q \in Peers(c) : Exchanged(c, t, q)
    /\ \A q \in Peers(c) : pc[c][t] \notin Before => Agree(q, c)

\* Only c and its followers exchange messages.
Private(c) ==
    \A a \in Proc, b \in Live :
        chan[a][b] # <<>> => a # b /\ (a = c \/ (b = c /\ a \in Live))

\* No view is newer than that of c.
Led(c) ==
    /\ c \in Live
    /\ Private(c)
    /\ \A q \in Peers(c) : viewId[q] <= viewId[c]
    /\ \A q, r \in Peers(c) : Agree(q, r)
    /\ \/ Idle(c)
       \/ \E j \in Proc : Joining(c, j)
       \/ \E x \in Proc : Losing(c, x)
       \/ \E t \in Thread : Working(c, t)

----------------------------------------------------------------------------
(* The leader l is gone, and m becomes the next one. *)

\* q has not begun to look for the next leader.
Leaderless(q, l) ==
    /\ pc[q]["main"] \in {"follow", "awaitCrash", "elect"}
    /\ leaderPeerId[q] = l /\ ~ listening[q] /\ backlog[q] = <<>>
    /\ pc[q]["main"] = "elect" => Live \cup {q} = heard[q] \cup {q} /\ ~ leaderCrashed[q]

\* q waits for the connection of m.
Waiting(q, l) ==
    /\ pc[q]["main"] = "awaitLeader"
    /\ leaderPeerId[q] = l /\ listening[q] /\ backlog[q] = <<>>
    /\ ~ leaderCrashed[q]

\* m has sent its NewLeaderMsg to q and waits for the answer.
Called(q, l, m) ==
    \/ /\ pc[q]["main"] = "awaitLeader" /\ leaderPeerId[q] = l
       /\ listening[q] /\ backlog[q] = <<m>> /\ ~ leaderCrashed[q]
       /\ chan[m][q] = <<NewLeaderMsg>> /\ chan[q][m] = <<>>
    \/ /\ pc[q]["main"] = "newLeaderMsg" /\ leaderPeerId[q] = m
       /\ ~ listening[q] /\ backlog[q] = <<>> /\ ~ leaderCrashed[q]
       /\ chan[m][q] = <<NewLeaderMsg>> /\ chan[q][m] = <<>>
    \/ /\ Following(q, m)
       /\ chan[m][q] = <<>> /\ chan[q][m] = <<pendingRequest[q]>>

\* What the old leader may have left for q to read.
Left(q, l) ==
    chan[l][q] # <<>> =>
        LET msg == Head(chan[l][q])
        IN  /\ chan[l][q] = <<msg>>
            /\ \/ msg \in Request /\ Harmless(msg)
               \/ /\ msg = NewViewMsg(msg.id, msg.members)
                  /\ msg.id \in Nat /\ msg.members \in SUBSET Proc
                  /\ msg.id >= viewId[q] /\ Live \subseteq msg.members

\* m has not begun.
Vacant(l, m) ==
    /\ Leaderless(m, l)
    /\ \A q \in Peers(m) : Quiet(m, q) /\ (Leaderless(q, l) \/ Waiting(q, l))

\* m calls the others ...
Calling(l, m) ==
    /\ pc[m]["main"] = "newLeader" /\ todo[m]["main"] \subseteq alivePeers[m]
    /\ alivePeers[m] \ todo[m]["main"] \subseteq tcpClientMap[m] \cap Live
    /\ \A q \in Peers(m) :
        IF q \in todo[m]["main"]
        THEN Quiet(m, q) /\ (Leaderless(q, l) \/ Waiting(q, l))
        ELSE Called(q, l, m)

\* ... and collects their pending requests.
Collecting(l, m) ==
    /\ pc[m]["main"] = "pending" /\ todo[m]["main"] \subseteq alivePeers[m]
    /\ getGroupMembers(m) = Live /\ Connected(m, Live)
    /\ Harmless(request[m]["main"])
    /\ \A q \in Peers(m) :
        IF q \in todo[m]["main"] THEN Called(q, l, m) ELSE Quiet(m, q) /\ Following(q, m)

\* m is the next leader, and not yet reachable for those that join.
Taking(l, m) ==
    /\ leaderPeerId[m] = l /\ ~ listening[m] /\ backlog[m] = <<>> /\ ~ leaderCrashed[m]
    /\ Calling(l, m) \/ Collecting(l, m)

\* What q knows of the group, of the crash of l and of what l had begun.
Elector(q, l) ==
    /\ pc[q]["detector"] = "watch"
    /\ Live \subseteq getGroupMembers(q) /\ Harmless(pendingRequest[q])
    /\ leaderCrashed[q] => heard[q] \subseteq Live
    /\ pc[q]["main"] \notin {"follow", "awaitCrash"} => heard[q] \subseteq Live
    /\ pc[q]["main"] # "follow" \/ leaderPeerId[q] # l => chan[l][q] = <<>>
    /\ Left(q, l)

\* Only m and its followers exchange messages, and l did before.
PrivateTo(l, m) ==
    \A a \in Proc, b \in Live :
        chan[a][b] # <<>> => a # b /\ (a = l \/ a = m \/ (b = m /\ a \in Live))

Election(l, m) ==
    /\ l \in Dead /\ m \in Live
    /\ \A q \in Live : m <= q
    /\ goneAt[l] = crashes
    /\ \E d \in Dead : listening[d]
    /\ HeardAll /\ Descending(Live, l)
    /\ \A q \in Live : Elector(q, l)
    /\ PrivateTo(l, m)
    /\ Vacant(l, m) \/ Taking(l, m)

----------------------------------------------------------------------------
(* Nobody leads and nobody follows. *)

Empty == Live = {}

\* The only live process looks for a leader.
First(p) ==
    /\ Live = {p}
    /\ pc[p]["main"] = "findLeader" /\ pc[p]["detector"] = "watch"
    /\ p \notin todo[p]["main"]
    /\ alivePeers[p] = {} /\ heard[p] = {} /\ backlog[p] = <<>>
    /\ ~ leaderCrashed[p] /\ ~ listening[p]
    /\ \A q \in Proc : chan[q][p] = <<>>

Phase ==
    \/ Empty
    \/ \E p \in Proc : First(p)
    \/ \E c \in Proc : Led(c)
    \/ \E l, m \in Proc : Election(l, m)

Inv == Types /\ PeerTypes /\ History /\ Phase

----------------------------------------------------------------------------
(* Connections to processes that are gone *)

\* p has still to learn of the crash of x, or is about to erase its entry.
Removes(p, x) ==
    \/ x \in heard[p]
    \/ \E t \in Thread :
        pc[p][t] = "modify" /\ request[p][t].op = "DEL" /\ request[p][t].peer = x

\* Whom p may have an entry of tcpClientMap for.
Entries(p) ==
    LET label == pc[p]["main"]
    IN  /\ label \in {"findLeader", "awaitLeader"} => tcpClientMap[p] = {}
        /\ label \in {"follow", "newLeaderMsg", "awaitCrash", "elect"} =>
              tcpClientMap[p] \subseteq {leaderPeerId[p]}
        /\ label \in {"accept", "newLeader", "pending"} \cup Ops =>
              \A x \in tcpClientMap[p] \cap Dead : Removes(p, x)

Connections == \A p \in Live : Entries(p)
=============================================================================
