----------------------------- MODULE Membership -----------------------------
(***************************************************************************)
(* The group membership service of lab2 (class MembershipService,          *)
(* membership.cpp) of all processes of the hostfile.                       *)
(*                                                                         *)
(* In each process two threads run it: the main thread (start and what it  *)
(* calls) and the thread of the failure detector, which calls              *)
(* handlePeerFailure and, in the leader, executes a DEL from there.        *)
(* modifyGroupMembership is therefore written once, for a thread t.  The   *)
(* loops over peers go in ascending order (std::set), one send or one      *)
(* receive per step, so that the leader can crash in the middle.           *)
(*                                                                         *)
(* A pair of processes is connected at most once and a TCP connection is   *)
(* a FIFO stream that ends when the other side is gone; one recv may       *)
(* return several of its messages.                                         *)
(*                                                                         *)
(* Of FailureDetector only what the service sees is kept: the set of peers *)
(* heard of, the failure callback, that crashes are reported in the order  *)
(* in which they happened, and that a report comes so long after the crash *)
(* that every live peer has been heard.  A process crashes only after its  *)
(* peers have heard of it, and is started again only after its crash has   *)
(* been dealt with.                                                        *)
(*                                                                         *)
(* As the report says, the system handles one event at a time: a process   *)
(* starts or crashes only when the last event is dealt with, except that   *)
(* the leader may also crash during the operations in LeaderMayCrash.      *)
(***************************************************************************)
EXTENDS Integers, Sequences, FiniteSetsExt

CONSTANTS
    N,                  \* number of hosts in the hostfile
    MaxCrash,           \* bound on the crashes
    MaxRestart,         \* bound on the processes that come back
    LeaderMayCrash,     \* when: "idle", "ADD", "DEL"
    leaderFailureDemo   \* processes started with this flag

ASSUME NAssumption == N \in Nat \ {0}
ASSUME MaxCrashAssumption == MaxCrash \in Nat
ASSUME MaxRestartAssumption == MaxRestart \in Nat
ASSUME LeaderMayCrashAssumption == LeaderMayCrash \subseteq {"idle", "ADD", "DEL"}
ASSUME DemoAssumption == leaderFailureDemo \subseteq 1..N

Proc == 1..N
Thread == {"main", "detector"}

VARIABLES
    status,          \* down, up, crashed, or aborted by an uncaught exception
    pc,              \* [p][t]: what thread t of process p does next
    request,         \* [p][t]: the request thread t works on
    todo,            \* [p][t]: the peers its current loop has yet to visit
    newViewId,       \* [p][t]: the view id sendNewViewMsg read
    leaderPeerId,
    requestCounter,
    viewId,
    alivePeers,
    tcpClientMap,    \* the peers with an entry
    pendingRequest,
    leaderCrashed,
    listening,       \* a TcpServer is open on membershipPort
    backlog,         \* connections not accepted yet
    chan,            \* [p][q]: messages sent by p and not received by q
    heard,           \* the keys of the failure detector's map
    crashes,         \* how many processes went so far
    goneAt,          \* which crash ended the process, 0 if it did not
    restarts,        \* how many came back
    inOrder          \* no process was started before one of a lower id

state == <<leaderPeerId, requestCounter, viewId, alivePeers, tcpClientMap,
           pendingRequest, leaderCrashed, listening>>
local == <<request, todo, newViewId>>
net == <<backlog, chan>>
world == <<status, heard, crashes, goneAt, restarts, inOrder>>
vars == <<pc, local, state, net, world>>

Dummy == [type |-> "REQUEST", op |-> "NOTHING", peer |-> 0, id |-> 0]
OkMsg(id) == [type |-> "OK", id |-> id]
NewViewMsg(id, members) == [type |-> "NEW_VIEW", id |-> id, members |-> members]
NewLeaderMsg == [type |-> "NEW_LEADER"]

Live == {p \in Proc : status[p] = "up"}

getGroupMembers(p) == alivePeers[p] \cup {p}

----------------------------------------------------------------------------
(* Steps of a thread *)

At(p, t, label) == status[p] = "up" /\ pc[p][t] = label

Goto(p, t, label) == pc' = [pc EXCEPT ![p][t] = label]

Visit(p, t, peers) == todo' = [todo EXCEPT ![p][t] = peers]

\* Mutant: the loops go in descending order.
BugNext1(p, t) == Max(todo[p][t])

\* The next peer of the loop.
Next1(p, t) == Min(todo[p][t])

Visited(p, t) == Visit(p, t, todo[p][t] \ {Next1(p, t)})

\* alivePeersMutex is held in these steps of the other thread.
Locked == {"request", "ok", "view", "newLeader", "pending"}

MutexFree(p, t) == \A u \in Thread \ {t} : pc[p][u] \notin Locked

Send(p, q, msg) == chan' = [chan EXCEPT ![p][q] = Append(@, msg)]

\* Whether p can send to q: tcpClientMap.at throws without an entry, and the
\* send may throw when q is gone.
Sends(p, q) ==
    IF q \notin tcpClientMap[p] THEN {FALSE}
    ELSE IF status[q] = "up" THEN {TRUE}
    ELSE BOOLEAN

\* How many messages one recv of p may return from the stream of q: any number
\* of those that arrived, for MAX_BUFFER_SIZE holds several; 0 when the stream
\* has ended; and none of these while p must wait.
Recv(p, q) ==
    IF chan[q][p] # <<>> THEN 1..Len(chan[q][p])
    ELSE IF status[q] # "up" THEN {0}
    ELSE {}

\* SerDe takes one message out of the n received: its CHECK on the size fails
\* when there are more, and receive throws when there is none.
Deserialized(p, q, n, type) == n = 1 /\ Head(chan[q][p]).type = type

Consume(p, q) == chan' = [chan EXCEPT ![q][p] = Tail(@)]

\* The process ends: an uncaught exception, a failed CHECK or LOG(FATAL).
Gone(p, how) ==
    /\ status' = [status EXCEPT ![p] = how]
    /\ crashes' = crashes + 1
    /\ goneAt' = [goneAt EXCEPT ![p] = crashes + 1]
    /\ heard' = [heard EXCEPT ![p] = {}]
    /\ UNCHANGED <<restarts, inOrder>>

Abort(p) == Gone(p, "aborted") /\ UNCHANGED <<pc, local, state, net>>

----------------------------------------------------------------------------
(* modifyGroupMembership *)

\* createRequestMsg, before the mutex is taken.
createRequestMsg(p, t, op, peer) ==
    /\ requestCounter' = [requestCounter EXCEPT ![p] = @ + 1]
    /\ request' = [request EXCEPT ![p][t] =
            [type |-> "REQUEST", op |-> op, peer |-> peer, id |-> requestCounter[p] + 1]]

\* Whether the demo of test case 4 skips peer 2 and exits after the requests.
isTestCase4(p, t) == p \in leaderFailureDemo /\ request[p][t].op = "DEL"

\* Mutant: the crashed peer stays in alivePeers.
BugLockGroup(p, t) ==
    /\ At(p, t, "modify")
    /\ MutexFree(p, t)
    /\ LET removed == IF request[p][t].op = "DEL" THEN {request[p][t].peer} ELSE {}
       IN  tcpClientMap' = [tcpClientMap EXCEPT ![p] = @ \ removed]
    /\ Visit(p, t, alivePeers[p])
    /\ Goto(p, t, "request")
    /\ UNCHANGED <<request, newViewId, leaderPeerId, requestCounter, viewId, alivePeers,
                   pendingRequest, leaderCrashed, listening, net, world>>

\* Mutant: the entry of the crashed peer stays in tcpClientMap.
BugKeepClient(p, t) ==
    /\ At(p, t, "modify")
    /\ MutexFree(p, t)
    /\ LET removed == IF request[p][t].op = "DEL" THEN {request[p][t].peer} ELSE {}
       IN  /\ alivePeers' = [alivePeers EXCEPT ![p] = @ \ removed]
           /\ Visit(p, t, (alivePeers[p] \ removed) \ (IF isTestCase4(p, t) THEN {2} ELSE {}))
    /\ Goto(p, t, "request")
    /\ UNCHANGED <<request, newViewId, leaderPeerId, requestCounter, viewId, tcpClientMap,
                   pendingRequest, leaderCrashed, listening, net, world>>

\* The mutex is taken, a crashed peer removed, and the requests start.
LockGroup(p, t) ==
    /\ At(p, t, "modify")
    /\ MutexFree(p, t)
    /\ LET removed == IF request[p][t].op = "DEL" THEN {request[p][t].peer} ELSE {}
       IN  /\ tcpClientMap' = [tcpClientMap EXCEPT ![p] = @ \ removed]
           /\ alivePeers' = [alivePeers EXCEPT ![p] = @ \ removed]
           /\ Visit(p, t, (alivePeers[p] \ removed) \ (IF isTestCase4(p, t) THEN {2} ELSE {}))
    /\ Goto(p, t, "request")
    /\ UNCHANGED <<request, newViewId, leaderPeerId, requestCounter, viewId,
                   pendingRequest, leaderCrashed, listening, net, world>>

sendRequestMsg(p, t) ==
    /\ At(p, t, "request")
    /\ todo[p][t] # {}
    /\ LET q == Next1(p, t)
       IN  \E sent \in Sends(p, q) :
           IF sent
           THEN /\ Send(p, q, request[p][t])
                /\ Visited(p, t)
                /\ UNCHANGED <<pc, request, newViewId, state, backlog, world>>
           ELSE Abort(p)

RequestsSent(p, t) ==
    /\ At(p, t, "request")
    /\ todo[p][t] = {}
    /\ IF isTestCase4(p, t)
       THEN Gone(p, "crashed") /\ UNCHANGED <<pc, local, state, net>>
       ELSE /\ Visit(p, t, alivePeers[p])
            /\ Goto(p, t, "ok")
            /\ UNCHANGED <<request, newViewId, state, net, world>>

\* Nothing catches the exception of a peer that is gone.
waitForOkMsg(p, t) ==
    /\ At(p, t, "ok")
    /\ todo[p][t] # {}
    /\ LET q == Next1(p, t)
       IN  \E n \in IF q \in tcpClientMap[p] THEN Recv(p, q) ELSE {0} :
           IF /\ Deserialized(p, q, n, "OK")
              /\ Head(chan[q][p]).id = request[p][t].id
           THEN /\ Consume(p, q)
                /\ Visited(p, t)
                /\ UNCHANGED <<pc, request, newViewId, state, backlog, world>>
           ELSE Abort(p)

\* Mutant: the view id is left as it is.
BugInstallView(p, t) ==
    /\ At(p, t, "ok")
    /\ todo[p][t] = {}
    /\ alivePeers' = [alivePeers EXCEPT ![p] =
            IF request[p][t].op = "ADD" THEN @ \cup {request[p][t].peer} ELSE @]
    /\ Goto(p, t, "newView")
    /\ UNCHANGED <<local, leaderPeerId, requestCounter, viewId, tcpClientMap,
                   pendingRequest, leaderCrashed, listening, net, world>>

\* All agreed: the new view is installed and the mutex released.
InstallView(p, t) ==
    /\ At(p, t, "ok")
    /\ todo[p][t] = {}
    /\ alivePeers' = [alivePeers EXCEPT ![p] =
            IF request[p][t].op = "ADD" THEN @ \cup {request[p][t].peer} ELSE @]
    /\ viewId' = [viewId EXCEPT ![p] = @ + 1]
    /\ Goto(p, t, "newView")
    /\ UNCHANGED <<local, leaderPeerId, requestCounter, tcpClientMap,
                   pendingRequest, leaderCrashed, listening, net, world>>

\* sendNewViewMsg reads the view id before it takes the mutex again.
ReadViewId(p, t) ==
    /\ At(p, t, "newView")
    /\ newViewId' = [newViewId EXCEPT ![p][t] = viewId[p]]
    /\ Goto(p, t, "lockView")
    /\ UNCHANGED <<request, todo, state, net, world>>

LockView(p, t) ==
    /\ At(p, t, "lockView")
    /\ MutexFree(p, t)
    /\ Visit(p, t, alivePeers[p])
    /\ Goto(p, t, "view")
    /\ UNCHANGED <<request, newViewId, state, net, world>>

sendNewViewMsg(p, t) ==
    /\ At(p, t, "view")
    /\ todo[p][t] # {}
    /\ LET q == Next1(p, t)
       IN  \E sent \in Sends(p, q) :
           IF sent
           THEN /\ Send(p, q, NewViewMsg(newViewId[p][t], getGroupMembers(p)))
                /\ Visited(p, t)
                /\ UNCHANGED <<pc, request, newViewId, state, backlog, world>>
           ELSE Abort(p)

\* The callback returns; the main thread goes (on) to startAsLeader, where a
\* leader that was elected opens its server.
EndView(p, t) ==
    /\ At(p, t, "view")
    /\ todo[p][t] = {}
    /\ Goto(p, t, IF t = "main" THEN "accept" ELSE "watch")
    /\ leaderPeerId' = [leaderPeerId EXCEPT ![p] = IF t = "main" THEN p ELSE @]
    /\ listening' = [listening EXCEPT ![p] = @ \/ t = "main"]
    /\ UNCHANGED <<local, requestCounter, viewId, alivePeers, tcpClientMap,
                   pendingRequest, leaderCrashed, net, world>>

----------------------------------------------------------------------------
(* findLeader and startAsLeader *)

\* Mutant: the first host that is not reachable ends the search.
BugTryHost(p) ==
    /\ At(p, "main", "findLeader")
    /\ todo[p]["main"] # {}
    /\ LET q == Next1(p, "main")
       IN  IF status[q] = "up" /\ listening[q]
           THEN /\ leaderPeerId' = [leaderPeerId EXCEPT ![p] = q]
                /\ tcpClientMap' = [tcpClientMap EXCEPT ![p] = @ \cup {q}]
                /\ backlog' = [backlog EXCEPT ![q] = Append(@, p)]
                /\ Goto(p, "main", "follow")
                /\ UNCHANGED todo
           ELSE /\ Visit(p, "main", {})
                /\ UNCHANGED <<leaderPeerId, tcpClientMap, backlog, pc>>
    /\ UNCHANGED <<request, newViewId, requestCounter, viewId, alivePeers,
                   pendingRequest, leaderCrashed, listening, chan, world>>

\* One connection attempt of findLeader, in hostfile order.
TryHost(p) ==
    /\ At(p, "main", "findLeader")
    /\ todo[p]["main"] # {}
    /\ LET q == Next1(p, "main")
       IN  IF status[q] = "up" /\ listening[q]
           THEN /\ leaderPeerId' = [leaderPeerId EXCEPT ![p] = q]
                /\ tcpClientMap' = [tcpClientMap EXCEPT ![p] = @ \cup {q}]
                /\ backlog' = [backlog EXCEPT ![q] = Append(@, p)]
                /\ Goto(p, "main", "follow")
                /\ UNCHANGED todo
           ELSE /\ Visited(p, "main")
                /\ UNCHANGED <<leaderPeerId, tcpClientMap, backlog, pc>>
    /\ UNCHANGED <<request, newViewId, requestCounter, viewId, alivePeers,
                   pendingRequest, leaderCrashed, listening, chan, world>>

NoLeaderFound(p) ==
    /\ At(p, "main", "findLeader")
    /\ todo[p]["main"] = {}
    /\ leaderPeerId' = [leaderPeerId EXCEPT ![p] = p]
    /\ listening' = [listening EXCEPT ![p] = TRUE]
    /\ Goto(p, "main", "accept")
    /\ UNCHANGED <<local, requestCounter, viewId, alivePeers, tcpClientMap,
                   pendingRequest, leaderCrashed, net, world>>

startAsLeader(p) ==
    /\ At(p, "main", "accept")
    /\ backlog[p] # <<>>
    /\ tcpClientMap' = [tcpClientMap EXCEPT ![p] = @ \cup {Head(backlog[p])}]
    /\ backlog' = [backlog EXCEPT ![p] = Tail(@)]
    /\ createRequestMsg(p, "main", "ADD", Head(backlog[p]))
    /\ Goto(p, "main", "modify")
    /\ UNCHANGED <<todo, newViewId, leaderPeerId, viewId, alivePeers,
                   pendingRequest, leaderCrashed, listening, chan, world>>

----------------------------------------------------------------------------
(* startAsFollower *)

\* The request is remembered and answered.
processRequestMsg(p, l, msg) ==
    /\ pendingRequest' = [pendingRequest EXCEPT ![p] = msg]
    /\ chan' = [chan EXCEPT ![l][p] = Tail(@), ![p][l] = Append(@, OkMsg(msg.id))]
    /\ UNCHANGED <<viewId, alivePeers, world>>

\* Mutant: a process counts itself among its peers.
BugSelf(p, l, msg) ==
    /\ viewId' = [viewId EXCEPT ![p] = msg.id]
    /\ alivePeers' = [alivePeers EXCEPT ![p] = msg.members]
    /\ pendingRequest' = [pendingRequest EXCEPT ![p] = Dummy]
    /\ Consume(p, l)
    /\ UNCHANGED world

\* Mutant: the members of the old view are not cleared.
BugNotCleared(p, l, msg) ==
    /\ viewId' = [viewId EXCEPT ![p] = msg.id]
    /\ alivePeers' = [alivePeers EXCEPT ![p] = @ \cup (msg.members \ {p})]
    /\ pendingRequest' = [pendingRequest EXCEPT ![p] = Dummy]
    /\ Consume(p, l)
    /\ UNCHANGED world

\* The view is installed and the request it answers forgotten.
processNewViewMsg(p, l, msg) ==
    /\ viewId' = [viewId EXCEPT ![p] = msg.id]
    /\ alivePeers' = [alivePeers EXCEPT ![p] = msg.members \ {p}]
    /\ pendingRequest' = [pendingRequest EXCEPT ![p] = Dummy]
    /\ Consume(p, l)
    /\ UNCHANGED world

\* One message of the leader; LOG(FATAL) if it is of another type.
startAsFollower(p) ==
    /\ At(p, "main", "follow")
    /\ LET l == leaderPeerId[p]
           msg == Head(chan[l][p])
       IN  \E n \in Recv(p, l) \ {0} :
           CASE Deserialized(p, l, n, "REQUEST") -> processRequestMsg(p, l, msg)
             [] Deserialized(p, l, n, "NEW_VIEW") -> processNewViewMsg(p, l, msg)
             [] OTHER -> /\ Gone(p, "aborted")
                         /\ UNCHANGED <<viewId, alivePeers, pendingRequest, chan>>
    /\ UNCHANGED <<pc, local, leaderPeerId, requestCounter, tcpClientMap,
                   leaderCrashed, listening, backlog>>

\* The TransportException that start catches.
LoseLeader(p) ==
    /\ At(p, "main", "follow")
    /\ 0 \in Recv(p, leaderPeerId[p])
    /\ Goto(p, "main", "awaitCrash")
    /\ UNCHANGED <<local, state, net, world>>

\* leaderCrashedCV.wait: the failure detector agrees that the leader is gone.
AwaitCrash(p) ==
    /\ At(p, "main", "awaitCrash")
    /\ leaderCrashed[p]
    /\ leaderCrashed' = [leaderCrashed EXCEPT ![p] = FALSE]
    /\ Goto(p, "main", "elect")
    /\ UNCHANGED <<local, leaderPeerId, requestCounter, viewId, alivePeers,
                   tcpClientMap, pendingRequest, listening, net, world>>

----------------------------------------------------------------------------
(* handleLeaderCrash *)

\* Mutant: the candidates are the members of the group, the old leader included.
BugNextLeader(p) == Min(alivePeers[p] \cup {p})

nextLeader(p) == Min(heard[p] \cup {p})

BecomeLeader(p) ==
    /\ At(p, "main", "elect")
    /\ nextLeader(p) = p
    /\ MutexFree(p, "main")
    /\ tcpClientMap' = [tcpClientMap EXCEPT ![p] = {}]
    /\ alivePeers' = [alivePeers EXCEPT ![p] = @ \ {leaderPeerId[p]}]
    /\ requestCounter' = [requestCounter EXCEPT ![p] = @ + 1]
    /\ Visit(p, "main", alivePeers[p] \ {leaderPeerId[p]})
    /\ Goto(p, "main", "newLeader")
    /\ UNCHANGED <<request, newViewId, leaderPeerId, viewId, pendingRequest,
                   leaderCrashed, listening, net, world>>

\* One peer of sendNewLeaderMsg: the retries last until a live peer listens; a
\* peer that is gone is dropped from the group.
sendNewLeaderMsg(p) ==
    /\ At(p, "main", "newLeader")
    /\ todo[p]["main"] # {}
    /\ LET q == Next1(p, "main")
       IN  \/ /\ status[q] = "up"
              /\ listening[q]
              /\ backlog' = [backlog EXCEPT ![q] = Append(@, p)]
              /\ Send(p, q, NewLeaderMsg)
              /\ tcpClientMap' = [tcpClientMap EXCEPT ![p] = @ \cup {q}]
              /\ UNCHANGED alivePeers
           \/ /\ status[q] # "up"
              /\ alivePeers' = [alivePeers EXCEPT ![p] = @ \ {q}]
              /\ UNCHANGED <<backlog, chan, tcpClientMap>>
    /\ Visited(p, "main")
    /\ UNCHANGED <<pc, request, newViewId, leaderPeerId, requestCounter, viewId,
                   pendingRequest, leaderCrashed, listening, world>>

NewLeaderSent(p) ==
    /\ At(p, "main", "newLeader")
    /\ todo[p]["main"] = {}
    /\ request' = [request EXCEPT ![p]["main"] = Dummy]
    /\ Visit(p, "main", alivePeers[p] \cap tcpClientMap[p])
    /\ Goto(p, "main", "pending")
    /\ UNCHANGED <<newViewId, state, net, world>>

\* The last request that is not NOTHING wins; the new leader's own
\* pendingRequest is not asked.
waitForPendingRequestMsg(p) ==
    /\ At(p, "main", "pending")
    /\ todo[p]["main"] # {}
    /\ LET q == Next1(p, "main")
       IN  \E n \in Recv(p, q) :
           IF Deserialized(p, q, n, "REQUEST")
           THEN /\ request' = [request EXCEPT ![p]["main"] =
                         IF Head(chan[q][p]).op # "NOTHING" THEN Head(chan[q][p]) ELSE @]
                /\ Consume(p, q)
                /\ Visited(p, "main")
                /\ UNCHANGED <<pc, newViewId, state, backlog, world>>
           ELSE Abort(p)

\* The pending request is completed; without one the view is sent as it is,
\* under its old id.
CompletePending(p) ==
    /\ At(p, "main", "pending")
    /\ todo[p]["main"] = {}
    /\ IF request[p]["main"].op # "NOTHING"
       THEN /\ createRequestMsg(p, "main", request[p]["main"].op, request[p]["main"].peer)
            /\ Goto(p, "main", "modify")
       ELSE Goto(p, "main", "newView") /\ UNCHANGED <<requestCounter, request>>
    /\ UNCHANGED <<todo, newViewId, leaderPeerId, viewId, alivePeers, tcpClientMap,
                   pendingRequest, leaderCrashed, listening, net, world>>

\* waitForNewLeaderMsg: open a server ...
AwaitLeader(p) ==
    /\ At(p, "main", "elect")
    /\ nextLeader(p) # p
    /\ tcpClientMap' = [tcpClientMap EXCEPT ![p] = {}]
    /\ listening' = [listening EXCEPT ![p] = TRUE]
    /\ Goto(p, "main", "awaitLeader")
    /\ UNCHANGED <<local, leaderPeerId, requestCounter, viewId, alivePeers,
                   pendingRequest, leaderCrashed, net, world>>

\* ... accept one connection and close the server ...
AcceptLeader(p) ==
    /\ At(p, "main", "awaitLeader")
    /\ backlog[p] # <<>>
    /\ leaderPeerId' = [leaderPeerId EXCEPT ![p] = Head(backlog[p])]
    /\ tcpClientMap' = [tcpClientMap EXCEPT ![p] = @ \cup {Head(backlog[p])}]
    /\ backlog' = [backlog EXCEPT ![p] = <<>>]
    /\ listening' = [listening EXCEPT ![p] = FALSE]
    /\ Goto(p, "main", "newLeaderMsg")
    /\ UNCHANGED <<local, requestCounter, viewId, alivePeers, pendingRequest,
                   leaderCrashed, chan, world>>

\* ... receive its NewLeaderMsg and answer with sendPendingRequestMsg.
AnswerLeader(p) ==
    /\ At(p, "main", "newLeaderMsg")
    /\ LET l == leaderPeerId[p]
       IN  \E n \in Recv(p, l) :
           IF Deserialized(p, l, n, "NEW_LEADER")
           THEN /\ chan' = [chan EXCEPT ![l][p] = Tail(@),
                                        ![p][l] = Append(@, pendingRequest[p])]
                /\ Goto(p, "main", "follow")
                /\ UNCHANGED <<local, state, backlog, world>>
           ELSE Abort(p)

----------------------------------------------------------------------------
(* The failure detector, as the service sees it *)

HeartBeat(p, q) ==
    /\ At(p, "detector", "watch")
    /\ status[q] = "up"
    /\ q \notin heard[p]
    /\ heard' = [heard EXCEPT ![p] = @ \cup {q}]
    /\ UNCHANGED <<pc, local, state, net, status, crashes, goneAt, restarts, inOrder>>

\* The crashes p has not been told of.
Unreported(p) == {q \in heard[p] : goneAt[q] > 0}

\* The earliest of them, once every live peer has been heard.
FirstUnreported(p, q) ==
    /\ q \in Unreported(p)
    /\ \A r \in Unreported(p) : goneAt[q] <= goneAt[r]
    /\ Live \ {p} \subseteq heard[p]

\* The monitor erases the peer and calls handlePeerFailure.
handlePeerFailure(p, crashedPeerId) ==
    /\ At(p, "detector", "watch")
    /\ FirstUnreported(p, crashedPeerId)
    /\ heard' = [heard EXCEPT ![p] = @ \ {crashedPeerId}]
    /\ IF leaderPeerId[p] = p
       THEN /\ createRequestMsg(p, "detector", "DEL", crashedPeerId)
            /\ Goto(p, "detector", "modify")
            /\ UNCHANGED leaderCrashed
       ELSE /\ leaderCrashed' = [leaderCrashed EXCEPT ![p] =
                    @ \/ crashedPeerId = leaderPeerId[p]]
            /\ UNCHANGED <<pc, request, requestCounter>>
    /\ UNCHANGED <<todo, newViewId, leaderPeerId, viewId, alivePeers, tcpClientMap,
                   pendingRequest, listening, net, status, crashes, goneAt, restarts, inOrder>>

----------------------------------------------------------------------------
(* The environment: one event at a time *)

\* The last event is dealt with everywhere.
Settled ==
    /\ \A p \in Live :
        /\ pc[p]["main"] \in {"accept", "follow"}
        /\ pc[p]["detector"] = "watch"
        /\ leaderPeerId[p] \in Live
        /\ heard[p] = Live \ {p}
        /\ backlog[p] = <<>>
        /\ \A q \in Proc : chan[q][p] = <<>>

Start(p) ==
    /\ status[p] = "down"
    /\ Settled
    /\ status' = [status EXCEPT ![p] = "up"]
    /\ Visit(p, "main", Proc \ {p})
    /\ Goto(p, "main", "findLeader")
    /\ inOrder' = (inOrder /\ \A q \in 1..(p - 1) : status[q] # "down")
    /\ UNCHANGED <<request, newViewId, state, net, heard, crashes, goneAt, restarts>>

\* A process that crashed is started again, once its crash has been dealt with:
\* a new process, with new connections, for nobody has an entry of the old ones
\* left (AgreementWhenSettled).  A bound: only where the hosts were
\* first started in the order of the hostfile, as the container tests do.
Restart(p) ==
    /\ status[p] = "crashed"
    /\ restarts < MaxRestart
    /\ inOrder
    /\ Settled
    /\ status' = [status EXCEPT ![p] = "up"]
    /\ restarts' = restarts + 1
    /\ goneAt' = [goneAt EXCEPT ![p] = 0]
    /\ pc' = [pc EXCEPT ![p] = [main |-> "findLeader", detector |-> "watch"]]
    /\ request' = [request EXCEPT ![p] = [t \in Thread |-> Dummy]]
    /\ todo' = [todo EXCEPT ![p] = [main |-> Proc \ {p}, detector |-> {}]]
    /\ newViewId' = [newViewId EXCEPT ![p] = [t \in Thread |-> 0]]
    /\ leaderPeerId' = [leaderPeerId EXCEPT ![p] = 1]
    /\ requestCounter' = [requestCounter EXCEPT ![p] = 1]
    /\ viewId' = [viewId EXCEPT ![p] = 1]
    /\ alivePeers' = [alivePeers EXCEPT ![p] = {}]
    /\ tcpClientMap' = [tcpClientMap EXCEPT ![p] = {}]
    /\ pendingRequest' = [pendingRequest EXCEPT ![p] = Dummy]
    /\ leaderCrashed' = [leaderCrashed EXCEPT ![p] = FALSE]
    /\ listening' = [listening EXCEPT ![p] = FALSE]
    /\ backlog' = [backlog EXCEPT ![p] = <<>>]
    /\ chan' = [q \in Proc |-> [r \in Proc |-> IF p \in {q, r} THEN <<>> ELSE chan[q][r]]]
    /\ UNCHANGED <<heard, crashes, inOrder>>

\* What the leader is in the middle of.
Doing(p) == {request[p][t].op : t \in {u \in Thread : pc[p][u] \notin {"accept", "watch"}}}

Crash(p) ==
    /\ status[p] = "up"
    /\ crashes < MaxCrash
    /\ \A q \in Live \ {p} : p \in heard[q]
    /\ \/ Settled /\ (leaderPeerId[p] = p => "idle" \in LeaderMayCrash)
       \/ leaderPeerId[p] = p /\ listening[p] /\ Doing(p) \cap LeaderMayCrash # {}
    /\ Gone(p, "crashed")
    /\ UNCHANGED <<pc, local, state, net>>

----------------------------------------------------------------------------
Init ==
    /\ status = [p \in Proc |-> "down"]
    /\ pc = [p \in Proc |-> [t \in Thread |-> IF t = "main" THEN "findLeader" ELSE "watch"]]
    /\ request = [p \in Proc |-> [t \in Thread |-> Dummy]]
    /\ todo = [p \in Proc |-> [t \in Thread |-> {}]]
    /\ newViewId = [p \in Proc |-> [t \in Thread |-> 0]]
    /\ leaderPeerId = [p \in Proc |-> 1]
    /\ requestCounter = [p \in Proc |-> 1]
    /\ viewId = [p \in Proc |-> 1]
    /\ alivePeers = [p \in Proc |-> {}]
    /\ tcpClientMap = [p \in Proc |-> {}]
    /\ pendingRequest = [p \in Proc |-> Dummy]
    /\ leaderCrashed = [p \in Proc |-> FALSE]
    /\ listening = [p \in Proc |-> FALSE]
    /\ backlog = [p \in Proc |-> <<>>]
    /\ chan = [p \in Proc |-> [q \in Proc |-> <<>>]]
    /\ heard = [p \in Proc |-> {}]
    /\ crashes = 0
    /\ goneAt = [p \in Proc |-> 0]
    /\ restarts = 0
    /\ inOrder = TRUE

ModifyGroup(p, t) ==
    \/ LockGroup(p, t) \/ sendRequestMsg(p, t) \/ RequestsSent(p, t)
    \/ waitForOkMsg(p, t) \/ InstallView(p, t) \/ ReadViewId(p, t)
    \/ LockView(p, t) \/ sendNewViewMsg(p, t) \/ EndView(p, t)

MainThread(p) ==
    \/ TryHost(p) \/ NoLeaderFound(p) \/ startAsLeader(p)
    \/ startAsFollower(p) \/ LoseLeader(p) \/ AwaitCrash(p)
    \/ BecomeLeader(p) \/ sendNewLeaderMsg(p) \/ NewLeaderSent(p)
    \/ waitForPendingRequestMsg(p) \/ CompletePending(p)
    \/ AwaitLeader(p) \/ AcceptLeader(p) \/ AnswerLeader(p)
    \/ ModifyGroup(p, "main")

DetectorThread(p) == (\E q \in Proc \ {p} : handlePeerFailure(p, q)) \/ ModifyGroup(p, "detector")

Next ==
    \/ \E p \in Proc : MainThread(p) \/ DetectorThread(p) \/ Start(p) \/ Restart(p) \/ Crash(p)
    \/ \E p \in Proc : \E q \in Proc \ {p} : HeartBeat(p, q)

Spec == Init /\ [][Next]_vars

(***************************************************************************)
(* Fairness: both threads of a live process run, heartbeats keep coming.   *)
(***************************************************************************)
FairSpec ==
    /\ Spec
    /\ \A p \in Proc : WF_vars(MainThread(p)) /\ WF_vars(DetectorThread(p))
    /\ \A p \in Proc : \A q \in Proc \ {p} : WF_vars(HeartBeat(p, q))

----------------------------------------------------------------------------
(* Properties *)

\* Types of the state: nobody is its own peer.
TypeOK ==
    /\ status \in [Proc -> {"down", "up", "crashed", "aborted"}]
    /\ leaderPeerId \in [Proc -> Proc]
    /\ requestCounter \in [Proc -> Nat]
    /\ viewId \in [Proc -> Nat]
    /\ leaderCrashed \in [Proc -> BOOLEAN]
    /\ listening \in [Proc -> BOOLEAN]
    /\ \A p \in Proc :
        /\ alivePeers[p] \subseteq Proc \ {p}
        /\ tcpClientMap[p] \subseteq Proc \ {p}
        /\ heard[p] \subseteq Proc \ {p}

\* No process ends by an uncaught exception, a failed CHECK or a LOG(FATAL):
\* every peer a message goes to has a connection, every answer is the expected
\* one, and no message is sent to a process that has yet to receive the last
\* one on that connection: one recv may return both, which ends it.
NoAbort == \A p \in Proc : status[p] # "aborted"

\* p leads the group, or is taking the group over.
Leads(p) ==
    /\ status[p] = "up"
    /\ \/ leaderPeerId[p] = p /\ listening[p]
       \/ pc[p]["main"] \in {"newLeader", "pending", "modify", "request", "ok",
                             "newView", "lockView", "view"}

\* There is at most one leader, although every process picks the next one on
\* its own, from its own failure detector.
OneLeader == \A p, q \in Proc : Leads(p) /\ Leads(q) => p = q

\* The view id of a process never goes back, also when the leader crashed
\* after it sent the new view to some: the new leader is the lowest process
\* and so the first one it was sent to.
ViewIdMonotone ==
    [][\A p \in Live : viewId'[p] >= viewId[p]]_vars

\* Once an event is dealt with, all live processes have the same leader, the
\* same view id and the same members, namely themselves, and none keeps an entry
\* of tcpClientMap for a process that is gone: when that one comes back, the
\* insert of its new connection would leave the old entry as it is.
AgreementWhenSettled ==
    Settled => \A p, q \in Live :
        /\ getGroupMembers(p) = Live
        /\ viewId[p] = viewId[q]
        /\ leaderPeerId[p] = leaderPeerId[q]
        /\ tcpClientMap[p] \subseteq Live

\* The views of the followers and those on their way to them.
Views ==
    {<<viewId[p], getGroupMembers(p)>> : p \in {q \in Live : alivePeers[q] # {} /\ ~ Leads(q)}}
    \cup UNION {{<<chan[p][q][i].id, chan[p][q][i].members>> :
                    i \in {j \in 1..Len(chan[p][q]) : chan[p][q][j].type = "NEW_VIEW"}} :
               p \in Live, q \in Live}

\* What two groups under one view id may differ in: nothing, or, once a leader
\* crashed, the processes that are gone.
MayDiffer ==
    IF \E p \in Proc \ Live : listening[p] THEN Proc \ Live ELSE {}

\* A view id stands for one group: all that install it install the same members,
\* although sendNewViewMsg reads the view id and the members at different times.
\* Only processes that are gone may be in one and not in the other, and only
\* after a leader crash: a new leader without a pending request sends the group
\* without those it could not reach under the old view id.
ViewsAgree ==
    \A v, w \in Views : v[1] = w[1] => v[2] \ MayDiffer = w[2] \ MayDiffer

\* A live process has a pending request whose outcome it has not seen.
PendingOpen ==
    \E p \in Live :
        \/ pendingRequest[p].op = "ADD" /\ pendingRequest[p].peer \notin getGroupMembers(p)
        \/ pendingRequest[p].op = "DEL" /\ pendingRequest[p].peer \in getGroupMembers(p)

\* A request that a process has acknowledged is completed in the end, whatever
\* becomes of the leader that sent it (REPORT: "The new leader now completes
\* the pending request if any.").
PendingCompleted == []<>(~ PendingOpen)

\* Every event is dealt with in the end: nobody waits for ever for an OkMsg,
\* a NewLeaderMsg or a pending request.
Settles == []<>Settled
=============================================================================
