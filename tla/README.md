# TLA+ models of the CS7610 labs

The repository holds three small distributed systems, written in C++ and run as
one container per host of a host file:

- **lab0**: a start-up barrier over UDP heartbeats;
- **lab1**: totally ordered multicast (ISIS) over UDP, and a Chandy-Lamport
  snapshot over TCP on top of it;
- **lab2**: group membership with a leader over TCP, and a failure detector
  over UDP heartbeats.

This directory models their protocol logic in TLA+, checks small instances with
TLC, and proves the main safety properties with TLAPS for every value of the
constants. `PROJECT.json` maps each definition to the lines it stands for, and
lists runs, mutants, findings, hazards and theorems.

## Inventory

| Component | State | Operations | Hard behaviour | What makes it correct |
|---|---|---|---|---|
| `MulticastService`, `HoldBackQueue` (lab1/src/part1) | counters, cached Acks, proposals, deque and `pendingMsgSet` | multicast; the handlers of Data, Ack, Seq, SeqAck in one receiver thread | datagrams lost, repeated, reordered; delivery of several messages by one Seq | one delivery order, no gaps, at most once, everything delivered |
| `ContinuousMsgSender<T>` (same file) | `msgList`, a condition variable, a retry counter | a thread that resends; `queueMsg`, `removeRecipient` from other threads | `msgList.empty()` and `notify_all` outside the mutex | no lost wakeup; what is unanswered is sent again, what is answered is not |
| `SnapshotService` (lab1/src/part2) | a flag, channels being recorded, two mutexes | `takeSnapshot`, one ioThread per marker, `recordIncomingMessages`, the local state getter | concurrent first markers; TCP connects under both mutexes; a state read while its handlers run | one local snapshot, channels recorded without a gap and only in their window, no effect in the state of a message still to come, none missed but the one being handled, termination |
| `HeartbeatSender`, `HeartbeatReceiver` (lab0) | peers not heard, peers without Ack, shared senders | a receive and an alive thread per host | loop conditions read outside locks; one thread closes what the other uses | READY only when everyone was heard; READY in the end |
| `FailureDetector` (lab2) | a count per peer | sender, listener and monitor threads | heartbeats late or lost; callbacks under the mutex | no live peer reported, crashed peers reported in bounded time |
| `MembershipService` (lab2) | view, members, connections, pending request | join, delete, election; two threads | the leader crashes in the middle of an operation; a crashed process comes back; `recv` knows no messages | one leader, same view everywhere, pending requests completed |

Interactions: `MulticastService` owns two `ContinuousMsgSender`s and calls their
`queueMsg` and `removeRecipient`; it hands every datagram, of whatever type and
before it knows of duplicates, to `SnapshotService::recordIncomingMessages`, and
the snapshot service asks it for the local state by a callback. `FailureDetector` calls `MembershipService::handlePeerFailure` from
its monitor thread, and the membership service asks it for the peers alive.

## Modules

| Module | Models |
|---|---|
| `Multicast` | lab1 multicast of all processes and the UDP network |
| `TotalOrderBroadcast` | what it promises: logs that are prefixes of one sequence |
| `MulticastInv`, `MulticastProofs` | its inductive invariant and the proofs |
| `ContinuousMsgSender` | one retransmission thread with its callers |
| `Retransmission` | what it promises: every round sends exactly what is unanswered |
| `ContinuousMsgSenderProofs` | proofs |
| `Snapshot`, `SnapshotProofs` | lab1 snapshot of all processes, one initiator, beside the receiver thread; proofs |
| `Heartbeat`, `HeartbeatProofs` | lab0 of all hosts, proofs |
| `FailureDetector`, `FailureDetectorProofs` | one lab2 detector and its peers, proofs |
| `Membership` | lab2 membership of all processes |
| `MembershipInv` | its inductive invariant |
| `MembershipSteps`, `MembershipElection`, `MembershipProofs` | the steps of an operation, those of an election, and the theorems |
| `MC*` | small instances for TLC |

Definitions keep the names of the functions they model. Definitions named
`Bug...` are not part of a model: each is a plausible bug that the named
property detects when it replaces the definition that follows it.

### Multicast

A handler is one action, the datagram it sends included: all handlers of a
process run in its one receiver thread. The two sender threads appear as rounds
(`SendDataMsgs`, `SendSeqMsgs`), which is sound because a round holds
`msgListMutex` throughout; `ContinuousMsgSender` refines this view of a thread
to its steps, and `Retransmission` is the interface between the two. The deque
is a set ordered by `Less` (the code's `operator<`): `markDeliverable` sorts
after every change and a new entry exceeds all numbers in the deque
(`QueueBelowLatest`), so the list carries no more than the set. The network is a
set of datagrams. `Duplicates` leaves a received datagram in it, `Lose` takes
one out at most `MaxLoss` times, and any order is possible. `Fifo` restricts
only one thing: a Data(k) overtaken by Seq(k) on its link does not arrive.

The last point matters. The code tells a retransmitted Data from a new one by
`pendingMsgSet`, which forgets a message when it is delivered. If UDP delivers a
copy of Data(k) after Seq(k), the message is delivered twice or the process ends
by an uncaught exception. The run `multicast_duplicate` finds the first; the
second is the action `AckLookupFails`, which `multicast_reorder` takes. With
`Fifo`, order, at-most-once delivery and absence of crashes hold and are proved.
Without it `multicast_reorder` shows what remains.

### ContinuousMsgSender

A critical section is a step; the test of `msgList.empty()` and `notify_all`,
both outside the mutex, are steps of their own, and `std::condition_variable`
may wake spuriously. The test is a data race by the letter of C++; since the two
pointers it compares are equal only when the list is empty before or after the
concurrent change, it is modelled as an atomic read.

### Snapshot

The mutexes are not variables: who holds them follows from where the threads
are (`IoTaking` and the two `...Free` predicates). `SendMarker` is one TCP
connection, made while the mutexes are held. The repository's README excludes
two initiators, so there is one. The multicast messages that are recorded travel
over UDP, so no order between them and the markers is assumed; the report
accepts that the snapshot need not be consistent across processes, and no
property claims it.

What is claimed concerns one process. The receiver thread of the multicast
service runs beside the snapshot: the callback records a datagram under
`channelsToBeRecordedMutex`, and its handler follows without it. The local state
getter reads `latestSeqId` first and the `holdBackQueue` later, so a handler can
run between (`ReadSeqId` and `StartLocalSnapshot` are two steps).

A Data message is sent until it is acknowledged, so its datagrams may come any
number of times, and the callback runs before `addToQueue` knows a duplicate
(multicast.cpp:256). A repeated datagram changes nothing else
(`ignoreDuplicate`), but it is recorded: a message that is in the local state
already may be on a channel as well. What holds, and what the properties say:

- `NotCountedTwice`: a message that is both on a channel and in the local state
  had come before the local state was recorded. One whose first datagram is
  recorded is in no part of the state.
- `AtMostOneMissed`: of what came before, only the message in the hands of the
  handler can be torn or missed.
- `OpenUntilMarker`: a channel has no gap and is closed in the end.
- `RecordedInWindow`: a channel is opened only before its marker is accepted, so
  that the one on which the first marker came is never recorded, and nothing is
  added to it after its ioThread is done.

Of the state that the getter reads, the two ends are kept (the `holdBackQueue`,
changed first, and `latestSeqId`, changed last); the cached Acks in between are
left out. So are Acks, Seqs and SeqAcks, which pass through the same callback
and change other parts, the removal of delivered messages, and the late Data that
is taken for a new message (see `Multicast`). The datagrams of a behaviour all
go to one process, for those of different processes touch nothing in common.
`TcpClient::receive` returns a pointer into its own stack frame
(network_utils.cpp:328); the model takes the marker as intact, see the hazards.

### Heartbeat

Two threads per host; loop conditions read outside locks are steps of their
own. A name resolves while its container runs, so `getUDPSender` finds a sender
that exists or can create one while the peer runs. A closed sender sends
nothing (the error of `sendto` is logged). The address of a sender that has
exited may resolve or not: if not, `getHostnameFromSocket` gives the numeric
address, and the datagram counts for nobody (`ReceiveUnnamed`).

### FailureDetector

The map is an `unordered_map`, so the pass that stops at the first crashed peer
may have visited any of the others: `ReportCrash` chooses. `Timely` is the
assumption that sender and monitor intervals match and heartbeats that are not
lost arrive within their interval; without it everything interleaves freely.
`reports`, `silent` and `delays` are history variables.

A heartbeat that is received when its sender is gone and no longer resolves comes
with the numeric address; `getPeerId` then throws in the listener thread, which
ends the process (`ListenerAborts`). The model takes this step at any time, and
`CrashDetected` claims detection only for a process that goes on.

Without `Timely`, a
heartbeat may arrive after its sender was reported and put it back into the map,
and with four peers or more repeated false reports could keep ending the pass
before a crashed entry; so accuracy, single reports and detection are claimed
under `Timely` only. `LongestSilentFirst` says when reports can be out of
order: only if a pass ended before it reached the entry that fell silent first.
With two crashes in the run of `Membership` no third report can end a pass, and
its assumption on the order of the reports rests on that.

### Membership

One send, receive or connection attempt per step, so that the leader can crash
between any two. `modifyGroupMembership` is written once, for the main thread
(ADD) or the detector thread (DEL), and the recursive mutex is held in the
labels of `Locked`. `Abort` is an uncaught exception, a failed `CHECK` or
`LOG(FATAL)`.

Assumptions:

- one event at a time, as lab2/REPORT.md has it: `Start`, `Restart` and `Crash`
  wait for `Settled`, except that the leader may crash inside the operations of
  `LeaderMayCrash`. Two hosts that search for a leader at the same moment, or a
  join during a DEL, are outside of it (see the hazards without a property);
- a process crashes only after all live peers heard from it;
- a process that comes back (`Restart`, at most `MaxRestart` times) is a new
  process on the same host, and comes back when its crash has been dealt with;
  to bound the run, only in behaviours whose hosts were first started in the
  order of the host file, as the container tests do;
- the detector reports crashes in the order in which they happened, at a time
  when every live peer has been heard (`FirstUnreported`). `FailureDetector`
  justifies this for crashes an interval apart: a report takes two intervals
  and a heartbeat one, and `LongestSilentFirst` gives the order. Detectors of
  different processes therefore differ in the moment of a report only: none acts on a
  crash while it lacks a live process;
- a name resolves while it is looked up, and the step that ends a process by
  a late heartbeat (`FailureDetector`, `ListenerAborts`) does not occur;
- a send to a process that is gone succeeds or throws (`Sends`), as the
  connection has been reset already or not. Where the code catches nothing the
  process ends (`Abort`), and `NoAbort` shows that this pace never gets there. A
  follower's OK to a leader that is gone changes nothing in either case, since
  `LoseLeader` follows;
- `Restart` gives a process empty connections at both ends. The code would keep a
  stale one, since `tcpClientMap.insert` replaces nothing; `AgreementWhenSettled`
  shows that no process still has an entry for a process that is gone when one
  may come back;
- the retries of `sendNewLeaderMsg` outlast the difference between two
  detectors: a live peer listens in the end;
- one `recv` may return several messages that wait on a connection (`Recv`), in
  which case the `CHECK` on their size fails (`Deserialized`).
  `NoAbort` shows that the protocol never lets two wait. A message that
  arrives in parts, which is a few bytes long, is not modelled.

`ViewsAgree` allows two groups under one view id to differ in processes that are
gone, and only after a leader crash (`MayDiffer`): a new leader without a
pending request sends the smaller group under the old view id
(membership.cpp:308).

Message fields that nobody reads (`currentViewId`, the number of members) are
left out.

## Runs

| Run | Instance | Shows |
|---|---|---|
| `multicast_safety` | 3 processes, 2 senders, 1 message each, `Fifo`, unlimited duplicates | types, order, at-most-once, no crash, sorted deque, refinement of `TotalOrderBroadcast` |
| `multicast_reorder` | the same without `Fifo`, numbers up to 2 | `HeldByAll`, `OneFinalSeq` |
| `multicast_liveness` | 3 processes, 1 sender, one datagram lost | all delivered; retransmission stops |
| `multicast_duplicate` | 1 sender, without `Fifo` | finding |
| `continuous_sender` | 2 messages, 2 recipients, interval up to 4000 ms | types, no empty holder and bounded interval, no lost wakeup, retransmission, refinement |
| `snapshot` | 3 processes, 2 messages at one of them, repeated without limit | one snapshot each, no effect of what was still to come, at most one message missed, recording windows without gaps, termination |
| `heartbeat` | 2 hosts, up to 2 losses | READY sound, no null sender; some READY without losses; all Acks lead to READY with them |
| `heartbeat_ready` | 2 hosts, no loss | finding |
| `failure_detector` | 3 peers, timely, 1 loss, 2 reports | two silent intervals before a report, bounded detection, order of reports, accuracy, single reports, every crash detected unless the process itself is ended |
| `membership` | 4 processes, 2 crashes, or 1 and a restart, the leader also inside a DEL or as process 1 of test case 4 (`--leaderFailureDemo`) | one leader, agreement, no connection kept to a process that is gone, no abort and never two messages in one `recv`, monotone views, a view id stands for one group, everything settles |
| `membership_pending_add`, `membership_pending_ignored` | 4 and 3 processes, leader crash during ADD | findings |

Why the bounds are enough to be of interest:

- **Multicast.** Two concurrent senders already make proposals tie and cross, so
  messages become deliverable behind each other; three receivers let two of them
  see opposite orders. `MaxSeq` is not reached by `Fifo` runs with two messages;
  in `multicast_reorder` it bounds the numbers a repeated Data can raise.
- **Heartbeat.** Two hosts with two threads each show every order of close, Ack
  and exit between one pair, and all messages are pairwise. The three safety
  properties are proved for any number of hosts.
- **Snapshot.** Three processes let two first markers meet at a third, and two
  messages, each repeated without limit, let one wait for the mutex while the
  other is in its handler, or come again while it is in the state that is read.
  The safety properties are proved for any number of both.
- **FailureDetector.** Three peers let one crash delay the report of another and
  leave a third to be accused wrongly. The run is timely; `DetectionBounded` and
  `TwoIntervalsMissed` are proved without that assumption.
- **Membership.** Four processes and two crashes let the next leader crash in
  turn, with a follower left to disagree. Only process 1 has the demo flag in
  the run, so leaders 2 to 4 run the ordinary DEL; leader 2 with peers 1, 3
  and 4 goes through the same steps as leader 1 with 2, 3 and 4 would.
  A process that came back may be the second to crash: a restart leaves the
  count of crashes as it is. The safety properties are proved for any number of
  processes, crashes and restarts.

No run uses symmetry. Deadlock is not checked where the system stops for good:
lab0 exits; the snapshot ends; a failure detector may be ended by its listener; in
the membership runs and `multicast_duplicate`
every process may be gone or all bounds used up; `multicast_liveness` and
`multicast_reorder` run out of datagrams.

### Fairness

- Every thread of a live process runs: weak fairness per thread.
- The multicast receiver processes every datagram that waits in its socket:
  weak fairness per kind, id and link, since a socket is a queue and Data stays
  resent. Loss is bounded by `MaxLoss`, so resent datagrams get through.
- lab0's receive thread alternates between its loop condition and `recvfrom`,
  so a datagram is receivable again and again: strong fairness.
- In `ContinuousMsgSender` nothing is assumed of the network, of answers or
  of spurious wakeups.
- In the membership model heartbeats keep coming; nothing obliges a process to
  start or to crash.

## Findings

Four disagreements between code and documentation, each a `violation` run:

1. `multicast_duplicate`: a late Data is delivered again (multicast.cpp:428);
   after a Seq that delivered several messages it ends the process instead
   (multicast.cpp:464, 198).
2. `heartbeat_ready`: a host that has heard everyone may never log READY,
   because a peer closed its senders before acknowledging (heartbeat.cpp:42).
3. `membership_pending_add`: the new leader ends when it completes an ADD
   (membership.cpp:113).
4. `membership_pending_ignored`: the new leader forgets the pending request it
   has itself (membership.cpp:215).

## Proofs

All theorems hold for every value of the constants under their `ASSUME`s.

**Multicast** (`MulticastProofs`). Four theorems hold for any order of
datagrams: `TypeCorrect`; `DequeStaysSorted`, inductive as it stands;
`FinalNumberUnique`, from `SenderInv` below; and `HeldBeforeDelivery`, from
`HoldInv`: an Ack comes from a process that holds the message, what is held stays
in the deque or moves to the log, and a Seq exists only when all Acks are in. The
others assume `Fifo`. Their properties are not inductive: nothing in `PrefixAgreement`
says why a message still unknown to a process cannot overtake a delivered one.
`MulticastInv` adds three layers:

- `SenderInv`: Data goes only to processes that have not proposed, every Seq
  carries the one final number of its id, which no longer changes;
- `PhaseInv`: at each process a message is unknown, then proposed (undeliverable
  entry and cached Ack, agreeing with the Ack in transit and with the sender's
  record), then settled (deliverable or delivered, and no Data of it in
  transit); nothing deliverable remains at the front of a deque;
- `OrderInv`: everything delivered has a final number at most `latestSeqId` and
  before everything that is still queued, proposals of a process are distinct,
  and logs are in the order of final numbers (number, then proposer).

`InvNext` proves the three inductive, handler by handler. Two logs that first
differ at i would each hold the other's i-th message in the queue
(`HeldByAll`) and have delivered before it: `InvPrefix` derives the
contradiction from the order. `Implements` then maps each step to a multicast,
a delivery or a stutter of `TotalOrderBroadcast`.

**ContinuousMsgSender**. `Inv` adds to the types what the thread's position
says of the flag: when it is blocked with work in the list, the flag is set
and a notification is due. `SenderImplements` maps every step to a step of
`Retransmission`.

**Snapshot**. `Inv` has three parts. `MarkerInv` says who records: nothing happens
before the initiator has recorded, there the main thread records, elsewhere one
ioThread while the flag is down. `ChannelInv` derives what is open when.
`StateInv` follows the messages: what came before is in `latestSeqId` or in the
hands of the handler until the state is read, the mutex keeps new ones out while
it is read, and (`PastInv`) the local state holds nothing but what came before.
All five invariants and `RecordedInWindow` follow, for any host file, any number of
messages and any repetition of them.

**Heartbeat**. `Inv` follows a peer from the Alive in transit to the Ack in
transit to the removal: no Ack without an Alive processed, and an Alive only
from a host with a sender; `ReadySound` and `NoNullSender` follow.

**FailureDetector**. `CountInv` bounds the silence of a peer by its count in the
map and the delays; it yields `DetectionBounded`, `TwoIntervalsMissed` and
`LongestSilentFirst` without assumptions on time. `TimelyInv` (assuming `Timely` and `MaxLoss <= 1`)
relates counts to the losses and yields `Accurate` and `ReportedOnce`.

**Membership**. The theorems assume `"ADD" \notin LeaderMayCrash`: the leader may
crash when idle or at any step of a DEL, and so may each later leader once it
listens, for any `N`, `MaxCrash`, `MaxRestart` and demo flags; but no leader
crashes inside an ADD. There the code really fails: `NoAbort` is violated by the run
`membership_pending_add`, and `TypeOK` by a joiner that becomes leader and adds
itself to its own group (finding 3). The run `membership` satisfies the assumption.

None of the properties is inductive. `NoAbort`, for one, depends on what waits
on a connection, that on where both ends are in their code, and that on who is
alive and who leads. `Inv` in `MembershipInv` therefore describes what the whole
system may be in, one `Phase` after another:

- `Empty`, nobody is live, and `First`, one process looks for a leader alone;
- `Led(c)`, one process leads: it is `Idle`, has a process `Joining` or a follower
  that it is `Losing`, or is `Working` on an ADD or DEL, where `Exchanged` says
  what it and each follower have sent each other so far;
- `Election(l, m)`: the leader `l` is gone and `m`, the lowest live process, has not
  begun (`Vacant`), is `Calling` the others or is `Collecting` their pending
  requests; `Waiting` and `Called` say where a follower is.

Four parts carry the argument. `Replaceable` holds during a DEL and is what
an election needs if the leader goes: all have heard all, every follower has a
group that contains all live ones and a pending request that is `Harmless`.
`Descending` says that no process lower than another has an older view, because
`sendNewViewMsg` goes through the followers in order: this is why the lowest
process may take over, and why `ViewIdMonotone` holds. `Left` bounds what the
old leader may have left in a connection. `Private` and `PrivateTo` say that
nobody but the leader, the next leader and the followers has a message waiting, so
that a stream never holds two.

`MembershipSteps` shows that each step of an operation keeps `Inv`,
`MembershipElection` does so for the end of a leader and each step of the election, and
`MembershipProofs` for the rest (start, restart, crash, heartbeat, failure
report, joining, following); `InvNext` puts them together. `Connections` is
inductive beside `Inv`: a process has connections only to processes that are
live, that are gone but not reported, or that it is about to drop
(`ConnectionsAlways`); when everything is settled only the live ones are left,
which is the last part of `SettledAgree`. TLC also found `Inv`
true in every state of the `membership` instance (4 processes) before it was
proved.

**Only model-checked**: all liveness and everything that speaks of fairness,
which is out of the prover's reach. Every other property of a passing run
is stated by a theorem.

## Not modelled

- The socket wrappers and the serialisation as such: their callers see datagrams
  that are lost, repeated and reordered, streams that end, and a `recv` that
  returns several messages; the rest of them keeps no state and changes no field.
  Host file, build, containers and tests: see the components in `PROJECT.json`.
- Wrap-around of the 32-bit numbers.
- Consistency of a snapshot across processes, which UDP does not give.
- Overlapping membership events, and messages that arrive in parts (see above).

## Plan

Done: the modules above, in the order Multicast, ContinuousMsgSender,
Heartbeat, Snapshot, FailureDetector, Membership; their runs; proofs of all
safety properties; the receiver thread and the two-part reading of the state in
`Snapshot`; restarts and the framing of messages in `Membership`.

Next, in this order:

1. `OneLeader` and `ViewIdMonotone` for a leader that crashes inside an ADD, where
   `NoAbort` fails.
2. `Membership` composed with the counts of `FailureDetector` in place of
   `FirstUnreported`.
3. Overlapping membership events: a join during a DEL, a peer that crashes
   before its OK, two hosts that search for a leader at the same time.
4. Messages in parts under `TcpClient::receive`.
