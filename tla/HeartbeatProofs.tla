-------------------------- MODULE HeartbeatProofs --------------------------
(***************************************************************************)
(* Proofs about Heartbeat for every set of hosts and any number of losses. *)
(***************************************************************************)
EXTENDS Heartbeat, TLAPS

\* The alive thread has filled the list and may have sent.
Sending(p) == alivePc[p] \in {"loop", "close", "done"}

\* Where the threads are, from what they left behind.
ControlInv ==
    \A p \in Host :
        /\ status[p] # "crashed"
        /\ status[p] = "off" => alivePc[p] = "add"
        /\ alivePc[p] = "wait" => aliveMessageReceivers[p] = Peers(p)
        /\ status[p] = "exited" => receivePc[p] = "done" /\ alivePc[p] = "done"
        /\ receivePc[p] = "done" => validSenders[p] = {}
        /\ alivePc[p] \in {"close", "done"} => stopAliveMessageLoop[p]
        /\ stopAliveMessageLoop[p] => aliveMessageReceivers[p] = {} /\ Sending(p)

\* What a datagram in transit says about its sender and its receiver.
NetInv ==
    \A m \in net :
        /\ m.type = "Alive" => Sending(m.from) /\ m.to \in udpSenders[m.from]
        /\ m.type = "Ack" => Sending(m.to) /\ m.to \notin validSenders[m.from]

\* A peer that is off the list has heard us; one that has heard us is a peer
\* we have a sender for.
HeardInv ==
    \A p \in Host : \A q \in Peers(p) :
        /\ Sending(p) => q \in aliveMessageReceivers[p] \/ p \notin validSenders[q]
        /\ p \notin validSenders[q] => q \in udpSenders[p] /\ Sending(p)

Inv == TypeOK /\ ControlInv /\ NetInv /\ HeardInv

\* The invariant holds before any container is started.
LEMMA InvInit == Init => Inv
<1> SUFFICES ASSUME Init PROVE Inv
  OBVIOUS
<1>1. TypeOK
  BY DEF Init, TypeOK, Peers, Message
<1>2. ControlInv
  BY DEF Init, ControlInv, Sending
<1>3. NetInv
  BY DEF Init, NetInv
<1>4. HeardInv
  BY DEF Init, HeardInv, Sending, Peers
<1> QED BY <1>1, <1>2, <1>3, <1>4 DEF Inv

\* Every step keeps the types.
LEMMA TypeStep == TypeOK /\ [Next]_vars => TypeOK'
<1> SUFFICES ASSUME TypeOK, [Next]_vars PROVE TypeOK'
  OBVIOUS
<1> USE DEF TypeOK, receiveVars, aliveVars
<1>1. ASSUME NEW p \in Host, Start(p) \/ Ready(p) PROVE TypeOK'
  BY <1>1 DEF Start, Ready
<1>2. ASSUME NEW p \in Host, BindReceiver(p) \/ CheckLoop(p) PROVE TypeOK'
  BY <1>2 DEF BindReceiver, CheckLoop
<1>3. ASSUME NEW p \in Host, NEW q \in Host, AddReceiver(p, q) PROVE TypeOK'
  BY <1>3 DEF AddReceiver, Peers
<1>4. ASSUME NEW p \in Host, NEW q \in Host, CloseSender(p, q) PROVE TypeOK'
  BY <1>4 DEF CloseSender
<1>5. ASSUME NEW p \in Host, AwaitReceiver(p) \/ LeaveLoop(p) PROVE TypeOK'
  BY <1>5 DEF AwaitReceiver, LeaveLoop
<1>6. ASSUME NEW p \in Host, SendAlive(p) PROVE TypeOK'
  BY <1>6 DEF SendAlive, Alive, Message
<1>7. ASSUME NEW p \in Host, NEW m \in net, ReceiveAlive(p, m) PROVE TypeOK'
  BY <1>7 DEF ReceiveAlive, Receives, Ack, Message
<1>8. ASSUME NEW p \in Host, NEW m \in net, ReceiveAck(p, m) PROVE TypeOK'
  BY <1>8 DEF ReceiveAck, Receives
<1>a. ASSUME NEW p \in Host, NEW m \in net, ReceiveUnnamed(p, m) PROVE TypeOK'
  BY <1>a DEF ReceiveUnnamed, Receives
<1>9. ASSUME NEW m \in net, Lose(m) PROVE TypeOK'
  BY <1>9 DEF Lose
<1>10. CASE UNCHANGED vars
  BY <1>10 DEF vars
<1> QED
  BY <1>1, <1>2, <1>3, <1>4, <1>5, <1>6, <1>7, <1>8, <1>9, <1>10, <1>a
  DEF Next, AliveThread

\* Control: the only step that could crash a host is the answer to an Alive.
LEMMA ControlStep == Inv /\ [Next]_vars => ControlInv'
<1> SUFFICES ASSUME Inv, [Next]_vars PROVE ControlInv'
  OBVIOUS
<1> USE DEF Inv, TypeOK, ControlInv, Sending, receiveVars, aliveVars, Running
<1>1. ASSUME NEW p \in Host, Start(p) \/ Ready(p) PROVE ControlInv'
  BY <1>1 DEF Start, Ready
<1>2. ASSUME NEW p \in Host, BindReceiver(p) \/ CheckLoop(p) PROVE ControlInv'
  BY <1>2 DEF BindReceiver, CheckLoop, DoneListening
<1>3. ASSUME NEW p \in Host, NEW q \in Host, AddReceiver(p, q) PROVE ControlInv'
  BY <1>3 DEF AddReceiver, Peers
<1>4. ASSUME NEW p \in Host, NEW q \in Host, CloseSender(p, q) PROVE ControlInv'
  BY <1>4 DEF CloseSender
<1>5. ASSUME NEW p \in Host, AwaitReceiver(p) \/ LeaveLoop(p) PROVE ControlInv'
  BY <1>5 DEF AwaitReceiver, LeaveLoop
<1>6. ASSUME NEW p \in Host, SendAlive(p) PROVE ControlInv'
  BY <1>6 DEF SendAlive, Alive
<1>7. ASSUME NEW p \in Host, NEW m \in net, ReceiveAlive(p, m) PROVE ControlInv'
  <2>1. m.from \in Host /\ m.to = p /\ m.type = "Alive" /\ m.from # p
    BY <1>7 DEF ReceiveAlive, Receives, Message
  <2>2. SenderFor(p, m.from)
    <3>1. status[m.from] \in {"up", "exited"}
      BY <1>7, <2>1 DEF NetInv, ControlInv
    <3>2. CASE status[m.from] = "exited"
      <4>1. p \notin validSenders[m.from] /\ m.from \in Peers(p)
        BY <2>1, <3>2 DEF ControlInv, Peers
      <4> QED BY <4>1 DEF HeardInv, SenderFor
    <3> QED BY <3>1, <3>2 DEF SenderFor
  <2>3. UNCHANGED status
    BY <1>7, <2>2 DEF ReceiveAlive
  <2> QED BY <1>7, <2>3 DEF ReceiveAlive, Receives
<1>8. ASSUME NEW p \in Host, NEW m \in net, ReceiveAck(p, m) PROVE ControlInv'
  BY <1>8 DEF ReceiveAck, Receives, Message, NetInv
<1>a. ASSUME NEW p \in Host, NEW m \in net, ReceiveUnnamed(p, m) PROVE ControlInv'
  BY <1>a DEF ReceiveUnnamed, Receives, Message, NetInv
<1>9. ASSUME NEW m \in net, Lose(m) PROVE ControlInv'
  BY <1>9 DEF Lose
<1>10. CASE UNCHANGED vars
  BY <1>10 DEF vars
<1> QED
  BY <1>1, <1>2, <1>3, <1>4, <1>5, <1>6, <1>7, <1>8, <1>9, <1>10, <1>a
  DEF Next, AliveThread

\* Datagrams: what holds of a datagram when it is sent stays true.
LEMMA NetStep == Inv /\ [Next]_vars => NetInv'
<1> SUFFICES ASSUME Inv, [Next]_vars PROVE NetInv'
  OBVIOUS
<1> USE DEF Inv, TypeOK, NetInv, Sending, receiveVars, aliveVars, Running
<1>1. ASSUME NEW p \in Host, Start(p) \/ Ready(p) PROVE NetInv'
  BY <1>1 DEF Start, Ready
<1>2. ASSUME NEW p \in Host, BindReceiver(p) \/ CheckLoop(p) PROVE NetInv'
  BY <1>2 DEF BindReceiver, CheckLoop, DoneListening
<1>3. ASSUME NEW p \in Host, NEW q \in Host, AddReceiver(p, q) PROVE NetInv'
  BY <1>3 DEF AddReceiver, Peers
<1>4. ASSUME NEW p \in Host, NEW q \in Host, CloseSender(p, q) PROVE NetInv'
  BY <1>4 DEF CloseSender
<1>5. ASSUME NEW p \in Host, AwaitReceiver(p) \/ LeaveLoop(p) PROVE NetInv'
  BY <1>5 DEF AwaitReceiver, LeaveLoop, Message
<1>6. ASSUME NEW p \in Host, SendAlive(p) PROVE NetInv'
  BY <1>6 DEF SendAlive, Alive
<1>7. ASSUME NEW p \in Host, NEW m \in net, ReceiveAlive(p, m) PROVE NetInv'
  BY <1>7 DEF ReceiveAlive, Receives, Ack, Message
<1>8. ASSUME NEW p \in Host, NEW m \in net, ReceiveAck(p, m) PROVE NetInv'
  BY <1>8 DEF ReceiveAck, Receives, Message
<1>a. ASSUME NEW p \in Host, NEW m \in net, ReceiveUnnamed(p, m) PROVE NetInv'
  BY <1>a DEF ReceiveUnnamed, Receives
<1>9. ASSUME NEW m \in net, Lose(m) PROVE NetInv'
  BY <1>9 DEF Lose
<1>10. CASE UNCHANGED vars
  BY <1>10 DEF vars
<1> QED
  BY <1>1, <1>2, <1>3, <1>4, <1>5, <1>6, <1>7, <1>8, <1>9, <1>10, <1>a
  DEF Next, AliveThread

\* Peers: the list shrinks only by an Ack, which only a peer that heard us sends.
LEMMA HeardStep == Inv /\ [Next]_vars => HeardInv'
<1> SUFFICES ASSUME Inv, [Next]_vars PROVE HeardInv'
  OBVIOUS
<1> USE DEF Inv, TypeOK, HeardInv, Sending, receiveVars, aliveVars, Running
<1>1. ASSUME NEW p \in Host, Start(p) \/ Ready(p) PROVE HeardInv'
  BY <1>1 DEF Start, Ready
<1>2. ASSUME NEW p \in Host, BindReceiver(p) \/ CheckLoop(p) PROVE HeardInv'
  BY <1>2 DEF BindReceiver, CheckLoop, DoneListening
<1>3. ASSUME NEW p \in Host, NEW q \in Host, AddReceiver(p, q) PROVE HeardInv'
  BY <1>3 DEF AddReceiver, Peers
<1>4. ASSUME NEW p \in Host, NEW q \in Host, CloseSender(p, q) PROVE HeardInv'
  BY <1>4 DEF CloseSender
<1>5. ASSUME NEW p \in Host, AwaitReceiver(p) \/ LeaveLoop(p) PROVE HeardInv'
  BY <1>5 DEF AwaitReceiver, LeaveLoop, ControlInv
<1>6. ASSUME NEW p \in Host, SendAlive(p) PROVE HeardInv'
  BY <1>6 DEF SendAlive, Alive
<1>7. ASSUME NEW p \in Host, NEW m \in net, ReceiveAlive(p, m) PROVE HeardInv'
  BY <1>7 DEF ReceiveAlive, Receives, Message, NetInv, Peers
<1>8. ASSUME NEW p \in Host, NEW m \in net, ReceiveAck(p, m) PROVE HeardInv'
  BY <1>8 DEF ReceiveAck, Receives, Message, NetInv, Peers
<1>a. ASSUME NEW p \in Host, NEW m \in net, ReceiveUnnamed(p, m) PROVE HeardInv'
  BY <1>a DEF ReceiveUnnamed, Receives
<1>9. ASSUME NEW m \in net, Lose(m) PROVE HeardInv'
  BY <1>9 DEF Lose
<1>10. CASE UNCHANGED vars
  BY <1>10 DEF vars
<1> QED
  BY <1>1, <1>2, <1>3, <1>4, <1>5, <1>6, <1>7, <1>8, <1>9, <1>10, <1>a
  DEF Next, AliveThread

\* The invariant is inductive.
THEOREM InvHolds == Spec => []Inv
<1>1. Inv /\ [Next]_vars => Inv'
  BY TypeStep, ControlStep, NetStep, HeardStep DEF Inv
<1> QED BY <1>1, InvInit, PTL DEF Spec

\* Type correctness of the lab0 hosts.
THEOREM HeartbeatTypes == Spec => []TypeOK
<1>1. Inv => TypeOK
  BY DEF Inv
<1> QED BY <1>1, InvHolds, PTL

\* READY at a host means that it heard every peer and every peer heard it.
THEOREM ReadyIsSound == Spec => []ReadySound
<1>1. Inv => ReadySound
  BY DEF Inv, TypeOK, ControlInv, HeardInv, ReadySound, Sending, Peers
<1> QED BY <1>1, InvHolds, PTL

\* The null pointer that getUDPSender may return is never dereferenced.
THEOREM SenderExists == Spec => []NoNullSender
<1>1. Inv => NoNullSender
  BY DEF Inv, ControlInv, NoNullSender
<1> QED BY <1>1, InvHolds, PTL
=============================================================================
