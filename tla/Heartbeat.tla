----------------------------- MODULE Heartbeat -----------------------------
(***************************************************************************)
(* Lab0: every host sends "I am alive" to its peers until each has         *)
(* answered "Ack", logs READY once it has heard all peers and all have     *)
(* answered, and exits (heartbeat.cpp, main.cpp).                          *)
(*                                                                         *)
(* A host runs two threads that share static members of HeartbeatSender:   *)
(* receive (startListeningForMessages) and alive                           *)
(* (startSendingAliveMessages).  A critical section is one step; the loop  *)
(* conditions, which are evaluated outside the locks, are steps too.       *)
(***************************************************************************)
EXTENDS Integers, FiniteSets

CONSTANTS
    Host,      \* hosts of the hostfile
    MaxLoss    \* bound on the datagrams lost in transit

ASSUME HostAssumption == IsFiniteSet(Host) /\ Cardinality(Host) >= 2
ASSUME MaxLossAssumption == MaxLoss \in Nat

\* Mutant: the host is its own peer.
BugPeers(p) == Host

\* getPeerContainerHostnames
Peers(p) == Host \ {p}

VARIABLES
    status,                 \* of the container: off, up, exited or crashed
    receivePc,              \* of the receive thread: bind, check, recv, done
    alivePc,                \* of the alive thread: add, wait, loop, close,
                            \* done
    validSenders,           \* peers no "I am alive" came from yet
    aliveMessageReceivers,  \* peers no Ack came from yet
    stopAliveMessageLoop,
    heartbeatReceiverReady,
    udpSenders,             \* peers a UDPSender was created for
    closed,                 \* peers whose UDPSender was closed
    net,                    \* datagrams in transit
    lost                    \* datagrams lost so far

vars == <<status, receivePc, alivePc, validSenders, aliveMessageReceivers,
          stopAliveMessageLoop, heartbeatReceiverReady, udpSenders, closed,
          net, lost>>

\* What only the receive thread writes, and what only the alive thread writes.
receiveVars == <<receivePc, validSenders, heartbeatReceiverReady>>
aliveVars == <<alivePc, closed>>

Alive(p, q) == [type |-> "Alive", from |-> p, to |-> q]
Ack(p, q) == [type |-> "Ack", from |-> p, to |-> q]

Message == [type : {"Alive", "Ack"}, from : Host, to : Host]

Running(p) == status[p] = "up"

\* Mutant: a new UDPSender for every message.
BugSenderFor(p, q) == Running(q)

\* getUDPSender(q) at p returns a sender: one exists or the name resolves,
\* which it does while the container of q is running.
SenderFor(p, q) == q \in udpSenders[p] \/ Running(q)

----------------------------------------------------------------------------
(* The receive thread. *)

\* Create the socket and signal the alive thread.
BindReceiver(p) ==
    /\ Running(p) /\ receivePc[p] = "bind"
    /\ receivePc' = [receivePc EXCEPT ![p] = "check"]
    /\ heartbeatReceiverReady' = [heartbeatReceiverReady EXCEPT ![p] = TRUE]
    /\ UNCHANGED <<status, validSenders, aliveMessageReceivers,
                   stopAliveMessageLoop, udpSenders, net, lost, aliveVars>>

DoneListening(p) == validSenders[p] = {} /\ aliveMessageReceivers[p] = {}

\* The loop condition; closeConnection when it fails.
CheckLoop(p) ==
    /\ Running(p) /\ receivePc[p] = "check"
    /\ receivePc' = [receivePc EXCEPT ![p] =
                        IF DoneListening(p) THEN "done" ELSE "recv"]
    /\ UNCHANGED <<status, validSenders, heartbeatReceiverReady,
                   aliveMessageReceivers, stopAliveMessageLoop, udpSenders, net,
                   lost, aliveVars>>

\* receiveMessage takes m from the socket.
Receives(p, m, type) ==
    /\ Running(p) /\ receivePc[p] = "recv"
    /\ m \in net /\ m.to = p /\ m.type = type
    /\ receivePc' = [receivePc EXCEPT ![p] = "check"]

\* Mutant: an "I am alive" counts as an Ack too.
BugReceiveAlive(p, m) ==
    /\ Receives(p, m, "Alive")
    /\ udpSenders' = [udpSenders EXCEPT ![p] = @ \cup {m.from}]
    /\ net' = (net \ {m}) \cup
                (IF m.from \in closed[p] THEN {} ELSE {Ack(p, m.from)})
    /\ validSenders' = [validSenders EXCEPT ![p] = @ \ {m.from}]
    /\ aliveMessageReceivers' = [aliveMessageReceivers EXCEPT ![p] = @ \ {m.from}]
    /\ stopAliveMessageLoop' = [stopAliveMessageLoop EXCEPT ![p] =
                                    @ \/ aliveMessageReceivers'[p] = {}]
    /\ UNCHANGED <<status, heartbeatReceiverReady, lost, aliveVars>>

\* sendingAckMessages: nothing leaves through a closed sender (sendto fails and
\* the error is logged); without a sender a null pointer is dereferenced.
ReceiveAlive(p, m) ==
    /\ Receives(p, m, "Alive")
    /\ status' = [status EXCEPT ![p] = IF SenderFor(p, m.from) THEN @ ELSE "crashed"]
    /\ udpSenders' = [udpSenders EXCEPT ![p] = @ \cup {m.from}]
    /\ net' = (net \ {m}) \cup
                (IF m.from \in closed[p] THEN {} ELSE {Ack(p, m.from)})
    /\ validSenders' = [validSenders EXCEPT ![p] = @ \ {m.from}]
    /\ UNCHANGED <<heartbeatReceiverReady, aliveMessageReceivers,
                   stopAliveMessageLoop, lost, aliveVars>>

\* Mutant: the last Ack does not stop the loop.
BugReceiveAckNoStop(p, m) ==
    /\ Receives(p, m, "Ack")
    /\ net' = net \ {m}
    /\ aliveMessageReceivers' = [aliveMessageReceivers EXCEPT ![p] = @ \ {m.from}]
    /\ UNCHANGED <<status, validSenders, heartbeatReceiverReady, udpSenders,
                   stopAliveMessageLoop, lost, aliveVars>>

\* removeFromAliveMessageReceiverList
ReceiveAck(p, m) ==
    /\ Receives(p, m, "Ack")
    /\ net' = net \ {m}
    /\ aliveMessageReceivers' = [aliveMessageReceivers EXCEPT ![p] = @ \ {m.from}]
    /\ stopAliveMessageLoop' = [stopAliveMessageLoop EXCEPT ![p] =
                                    @ \/ aliveMessageReceivers'[p] = {}]
    /\ UNCHANGED <<status, validSenders, heartbeatReceiverReady, udpSenders,
                   lost, aliveVars>>

\* The name of a sender that exited may no longer be found: its datagram then
\* counts for the address, which is nobody's name.  The answer to an Alive goes
\* through a UDPSender of its own that reaches no host; it is left out.
ReceiveUnnamed(p, m) ==
    /\ Receives(p, m, m.type)
    /\ ~ Running(m.from)
    /\ net' = net \ {m}
    /\ stopAliveMessageLoop' = [stopAliveMessageLoop EXCEPT ![p] =
            @ \/ (m.type = "Ack" /\ aliveMessageReceivers[p] = {})]
    /\ UNCHANGED <<status, validSenders, heartbeatReceiverReady,
                   aliveMessageReceivers, udpSenders, lost, aliveVars>>

----------------------------------------------------------------------------
(* The alive thread. *)

\* addToAliveMessageReceiverList, one peer per step.
AddReceiver(p, q) ==
    /\ Running(p) /\ alivePc[p] = "add"
    /\ q \in Peers(p) \ aliveMessageReceivers[p]
    /\ aliveMessageReceivers' = [aliveMessageReceivers EXCEPT ![p] = @ \cup {q}]
    /\ alivePc' = [alivePc EXCEPT ![p] =
                    IF aliveMessageReceivers'[p] = Peers(p) THEN "wait" ELSE "add"]
    /\ UNCHANGED <<status, closed, stopAliveMessageLoop, udpSenders, net, lost,
                   receiveVars>>

\* conditionVariable.wait: the flag is set under the mutex before the
\* notification, so the wait ends when the flag is set.
AwaitReceiver(p) ==
    /\ Running(p) /\ alivePc[p] = "wait"
    /\ heartbeatReceiverReady[p]
    /\ alivePc' = [alivePc EXCEPT ![p] = "loop"]
    /\ UNCHANGED <<status, closed, aliveMessageReceivers, stopAliveMessageLoop,
                   udpSenders, net, lost, receiveVars>>

\* A round to the peers without an Ack; a peer that cannot be resolved is
\* skipped until the next round.
SendAlive(p) ==
    /\ Running(p) /\ alivePc[p] = "loop"
    /\ ~ stopAliveMessageLoop[p]
    /\ LET reached == {q \in aliveMessageReceivers[p] : SenderFor(p, q)}
       IN  /\ udpSenders' = [udpSenders EXCEPT ![p] = @ \cup reached]
           /\ net' = net \cup {Alive(p, q) : q \in reached}
    /\ UNCHANGED <<status, alivePc, closed, aliveMessageReceivers,
                   stopAliveMessageLoop, lost, receiveVars>>

LeaveLoop(p) ==
    /\ Running(p) /\ alivePc[p] = "loop"
    /\ stopAliveMessageLoop[p]
    /\ alivePc' = [alivePc EXCEPT ![p] = "close"]
    /\ UNCHANGED <<status, closed, aliveMessageReceivers, stopAliveMessageLoop,
                   udpSenders, net, lost, receiveVars>>

\* closeConnection of one sender; the thread ends after the last one.
CloseSender(p, q) ==
    /\ Running(p) /\ alivePc[p] = "close"
    /\ q \in udpSenders[p] \ closed[p]
    /\ closed' = [closed EXCEPT ![p] = @ \cup {q}]
    /\ alivePc' = [alivePc EXCEPT ![p] =
                    IF udpSenders[p] \subseteq closed'[p] THEN "done" ELSE "close"]
    /\ UNCHANGED <<status, aliveMessageReceivers, stopAliveMessageLoop,
                   udpSenders, net, lost, receiveVars>>

----------------------------------------------------------------------------
(* The process and the network. *)

\* The script starts the container and main starts the two threads.
Start(p) ==
    /\ status[p] = "off"
    /\ status' = [status EXCEPT ![p] = "up"]
    /\ UNCHANGED <<aliveMessageReceivers, stopAliveMessageLoop, udpSenders, net,
                   lost, receiveVars, aliveVars>>

\* main joins both threads, logs READY and returns.
Ready(p) ==
    /\ Running(p)
    /\ receivePc[p] = "done" /\ alivePc[p] = "done"
    /\ status' = [status EXCEPT ![p] = "exited"]
    /\ UNCHANGED <<aliveMessageReceivers, stopAliveMessageLoop, udpSenders, net,
                   lost, receiveVars, aliveVars>>

\* A datagram is lost in transit, or arrives where no socket is open.
Lose(m) ==
    /\ m \in net
    /\ net' = net \ {m}
    /\ \/ receivePc[m.to] \in {"bind", "done"} /\ UNCHANGED lost
       \/ lost < MaxLoss /\ lost' = lost + 1
    /\ UNCHANGED <<status, aliveMessageReceivers, stopAliveMessageLoop,
                   udpSenders, receiveVars, aliveVars>>

----------------------------------------------------------------------------
Init ==
    /\ status = [p \in Host |-> "off"]
    /\ receivePc = [p \in Host |-> "bind"]
    /\ alivePc = [p \in Host |-> "add"]
    /\ validSenders = [p \in Host |-> Peers(p)]
    /\ aliveMessageReceivers = [p \in Host |-> {}]
    /\ stopAliveMessageLoop = [p \in Host |-> FALSE]
    /\ heartbeatReceiverReady = [p \in Host |-> FALSE]
    /\ udpSenders = [p \in Host |-> {}]
    /\ closed = [p \in Host |-> {}]
    /\ net = {}
    /\ lost = 0

AliveThread(p) ==
    \/ \E q \in Host : AddReceiver(p, q) \/ CloseSender(p, q)
    \/ AwaitReceiver(p) \/ SendAlive(p) \/ LeaveLoop(p)

Next ==
    \/ \E p \in Host : Start(p) \/ BindReceiver(p) \/ CheckLoop(p) \/ Ready(p)
    \/ \E p \in Host : AliveThread(p)
    \/ \E p \in Host, m \in net :
            ReceiveAlive(p, m) \/ ReceiveAck(p, m) \/ ReceiveUnnamed(p, m)
    \/ \E m \in net : Lose(m)

Spec == Init /\ [][Next]_vars

(***************************************************************************)
(* Fairness: every container is started, its threads run, and a socket is  *)
(* read in arrival order, so each datagram in it is processed while the    *)
(* thread listens.  The receive thread alternates between check and recv:  *)
(* a datagram that waits is receivable again and again.                    *)
(***************************************************************************)
FairSpec ==
    /\ Spec
    /\ \A p \in Host : /\ WF_vars(Start(p))
                       /\ WF_vars(BindReceiver(p) \/ CheckLoop(p))
                       /\ WF_vars(AliveThread(p))
                       /\ WF_vars(Ready(p))
    /\ \A p, q \in Host :
            /\ SF_vars(\E m \in net \cap {Alive(q, p)} :
                            ReceiveAlive(p, m) \/ ReceiveUnnamed(p, m))
            /\ SF_vars(\E m \in net \cap {Ack(q, p)} :
                            ReceiveAck(p, m) \/ ReceiveUnnamed(p, m))

----------------------------------------------------------------------------
(* Properties *)

\* Types of the state: no host waits for itself or sends to itself, and only
\* senders that exist are closed.
TypeOK ==
    /\ status \in [Host -> {"off", "up", "exited", "crashed"}]
    /\ receivePc \in [Host -> {"bind", "check", "recv", "done"}]
    /\ alivePc \in [Host -> {"add", "wait", "loop", "close", "done"}]
    /\ validSenders \in [Host -> SUBSET Host]
    /\ aliveMessageReceivers \in [Host -> SUBSET Host]
    /\ stopAliveMessageLoop \in [Host -> BOOLEAN]
    /\ heartbeatReceiverReady \in [Host -> BOOLEAN]
    /\ udpSenders \in [Host -> SUBSET Host]
    /\ closed \in [Host -> SUBSET Host]
    /\ net \subseteq Message
    /\ lost \in Nat
    /\ \A p \in Host : /\ p \notin validSenders[p]
                       /\ p \notin aliveMessageReceivers[p]
                       /\ closed[p] \subseteq udpSenders[p]
    /\ \A m \in net : m.from # m.to

\* READY is sound: a host logs it only after it has processed an "I am alive"
\* of every peer and every peer has processed one of its own, whatever was
\* lost, repeated or reordered.
ReadySound ==
    \A p \in Host : status[p] = "exited" =>
        \A q \in Peers(p) : q \notin validSenders[p] /\ p \notin validSenders[q]

\* sendingAckMessages never dereferences a null sender: a host whose name no
\* longer resolves because it exited is one we sent "I am alive" to before.
NoNullSender == \A p \in Host : status[p] # "crashed"

\* A host that has closed its senders, since every peer answered, goes on to
\* log READY: the Alives it still waits for keep coming, although it cannot
\* answer them any more.
ClosedBecomesReady ==
    \A p \in Host : (alivePc[p] = "done") ~> (status[p] = "exited")

\* Unless a datagram is lost in transit, some host logs READY: the hosts never
\* all wait for one another, whichever thread of a host comes first.
SomeReady == <>(lost > 0 \/ \E p \in Host : status[p] = "exited")

\* What the README promises: a host that received "I am alive" from all peers
\* logs READY and exits.
ReadyAfterAllAlive ==
    \A p \in Host : (validSenders[p] = {}) ~> (status[p] = "exited")
=============================================================================
