# Formal models of rdma-cc

TLA+ specifications of the simulator in this repository: an ns-3 model of an
RDMA data-centre network (hosts with RoCE-style NICs, shared-buffer switches
with priority flow control, optical circuit switches, several congestion
controls and load balancers). The specifications model the network's protocols
as the C++ code implements them, TLC checks them on small instances, and TLAPS
proves, for every value of their constants, all the safety properties that the runs
check: the invariants of the buffer management unit, of the switch, of both
transports, of the NIC, of ConWeave and of the optical fabric, that the switch
implements the unit's specification, that it and its neighbours agree on every pause,
and that the transport, on one path and on two, implements its abstract one.

In what follows, `model/` is `simulation/src/point-to-point/model/`.

One fact about the simulator shapes every module: events run one at a time, and
the handler of an event makes all its calls before the next event. So an *event*
is an action, and a *call* inside a handler is an operator that maps a state to
the next one; there are no data races, and what is nondeterministic is the order
of events (timing, traffic, routing, losses).

## Inventory

| component | state | operations | interacts with |
|---|---|---|---|
| Buffer unit `SwitchMmu` (`model/switch-mmu.cc`) | bytes per ingress (port, queue) in reserve/pool and in headroom, bytes per egress queue, pool counter, pause flags | admission check, update and removal on ingress and egress, pause and resume checks | called by `SwitchNode` |
| Electric switch `SwitchNode` + `QbbNetDevice` + `BEgressQueue` | eight queues per device, round-robin position, paused queues, packet being transmitted | receive, choose queue, admit or drop, enqueue, dequeue, transmit, send PFC | unit, channel, neighbours |
| PFC between neighbours (`QbbNetDevice::Receive`, `SendPfc`, `QbbChannel`) | frames on the wire, pause flags at both ends | pause, resume, loss by the error model | switches, host NICs |
| Transport `RdmaHw`, `RdmaQueuePair`, `RdmaRxQueuePair` | `snd_nxt`, `snd_una`, window; expected byte, last NACK, NACK timer | send, receive data, ACK, NACK, go back, complete | NIC, congestion control, `qp_finish` |
| NIC scheduler `RdmaEgressQueue`, `QbbNetDevice` of a host | group of queue pairs, round-robin position, answer queue, next-send event | choose a queue pair, drop finished ones, pace, pause, resume | transport, PFC, congestion control |
| Congestion control (DCQCN, HPCC, TIMELY, DCTCP, PINT, NewCC) | rates, alpha, timers, per-round sequence marks | react to CNP/ACK, timers | transport |
| Optical switches `MemsNode`, schedule `ConfigMems` | link table, day or night, optical routes of leaf switches | reconfigure, forward | leaf switches, transport (reordering) |
| Multipath mode (`m_mp_mode`) | per-path sequence numbers and delays | choose a path, per-path ACK and NACK | transport |
| ConWeave (`conweave-routing.cc`, `conweave-voq.cc`) | per-flow epoch and phase at both ToRs, virtual output queues | tag, reroute, hold, flush, reply, notify, age | switches |
| MP-RDMA (`mp-rdma-*.cc`) | virtual paths, receive bitmap, window | send, ACK, synchronise, recover | NIC |
| Drivers (`simulation/scratch/*.cc`) | routes, flow list | start flows, compute routes, configure | all |

What is hard to test in this code, and what would make each part correct, is
listed line by line under `hazards` in `PROJECT.json` with the properties that
cover it. In short:

* *Buffer unit*: it never knows where a packet was charged, so correctness is a
  relation between counters and queued bytes over a long history; it must pause
  before it drops; it must not keep anyone paused without cause.
* *Switch*: handlers call each other across devices (a dequeue on one device
  sends a frame on another); a device must not sit idle with a sendable packet.
* *PFC*: two flags, two queues and a wire must agree; every pause must end.
* *Transport*: loss, duplication by go-back, reordering by optical switches, stale
  NACKs, and no retransmission timer.
* *NIC scheduler*: a group that is compacted while it is scanned.
* *Congestion control*: timers that outlive a queue pair.
* *Optical switches*: packets under way across a reconfiguration, and four switches
  that write the same routing tables at different times.
* *Multipath*: two sequence spaces that share one size and one window.
* *ConWeave*: two switches that agree on a flow's epoch only through packets that
  may be late, while timers flush, expire and age what they know of it.

## Modules

| module | models | builds on |
|---|---|---|
| `Sums` | finite sums of tables of naturals | |
| `Mmu` | state and operations of `SwitchMmu`, and its safety predicates | `Sums` |
| `SwitchMmu` | the unit as `SwitchNode` drives it: admit, release, forward | `Mmu` |
| `SwitchNode` | the switch with queues, devices and transmitters; implements `SwitchMmu` | `Mmu` |
| `PfcFabric` | a switch, its neighbours and the links between | `SwitchNode` |
| `Delivery` | abstract: bytes taken in order, completion only at the end | |
| `RdmaTransport` | go-back-N between two hosts; implements `Delivery` | |
| `MultipathTransport` | one flow over two paths; implements `Delivery` until a byte is asked for twice | |
| `NicScheduler` | a host's NIC over its flows | |
| `SpineLeaf` | the topology file and the numbering of devices | |
| `OpticalFabric` | optical switches, their schedule, the leaves' optical routes, a packet | `SpineLeaf` |
| `ConWeave` | one flow between two ToR switches that reroute and reorder it | |
| `MC*` | values of the constants for TLC | |
| `Library_proofs` | lemmas on sums, channels and indices | `Sums` |
| `SwitchMmu_proofs` | proofs about the unit, alone and as a switch drives it | `Library_proofs` |
| `Switch_proofs` | proofs about the switch (`SwitchNode`), and about the switch and its neighbours (`PfcFabric`) | `SwitchMmu_proofs` |
| `RdmaTransport_proofs`, `MultipathTransport_proofs` | proofs about the transports | `Library_proofs` |
| `NicScheduler_proofs` | proofs about the NIC | `Library_proofs` |
| `ConWeave_proofs` | proofs about ConWeave | `Library_proofs` |
| `OpticalFabric_proofs` | proofs about the optical switches, their routes and the packet | |

Operators marked *(mutant)* are mistaken versions of the definition below them;
no specification uses them. Each property of a passing run is known to fail when
one of them takes the place of the right definition.

### Mmu and SwitchMmu

The fields of the record `mmu` are the fields of the class, and the operators
are its methods under their own names. Subtraction of unsigned fields is `Minus`,
which wraps; that it never does is one of the results. `headroom`, `reserve`,
`buffer_size`, `pfc_a_shift` and `resume_offset` are constants because the
simulator sets them before it starts (`ConfigNPort` gives `total_hdrm`). Three
assumptions are named: `MmuAssumption` (types; the shift is 0 to 3 as the
simulator computes it), `BufferAssumption` (what is set aside fits the buffer)
and `HeadroomAssumption` (a packet fits the headroom; the simulator's headroom is
eight times the bandwidth-delay product of the link, `simulation/scratch/rdma-simulator.cc:1030`).

The unit has no packets. `SwitchMmu` records what it stands for in the variable
`resident`: bytes admitted from one device that wait in a queue of another.
`Forward` is admission and release within one event, when the egress device was
idle. ECN marking changes no state of the unit and is left out.

### SwitchNode

`node.dev[p]` is a `QbbNetDevice` with its `BEgressQueue`: `queue[0]` is the
highest priority, `queue[1..]` the lossless ones, `current` the packet being
transmitted (`READY` when there is none), `paused` the queues the neighbour
paused. The events are the arrival of a lossless packet, of a control packet
(ACK, NACK or CNP when those ride queue 0; otherwise they are lossless packets
like any other), of a PFC frame, and the end of a transmission. Each is one
operator that follows the calls in order, including the nested ones:
`ReceiveData` → `DoSwitchSend` → `CheckAndSendPfc` → `SendPfc` → `DequeueAndTransmit`
on the ingress device, then `SwitchSend` → `DequeueAndTransmit` →
`SwitchNotifyDequeue` → `CheckAndSendResume` → `SendPfc`, which may start a second
device. `Routes` is the relation the routing tables define; a route never leads
back (`RoutesAssumption`): they are computed by breadth-first search over links
that are all up, so a next hop is always nearer to the destination. `skipped` is a
history variable for `RoundRobinFair`. ECN marks and INT records written into a
packet are left out; nothing in the switch depends on them.

### PfcFabric

Each port has a station, the `QbbNetDevice` at the far end of its link, and two
FIFOs, `up` and `down` (a `QbbChannel`; an event per packet, delivered in order).
Stations send on the queues of `Traffic` that are not paused; a device of an optical switch sends
although it is paused, as `MemsSend` puts all it has on queue 0. Stations in `Pausers`
stand for devices of other switches, which pause this one and resume it. They pause a
queue only in answer to a packet of it (`StationReceive`), because a switch looks
whether to pause in `DoSwitchSend` and nowhere else, and for the queue and the device
of the packet at hand (`model/switch-node.cc:171-188`); they resume it at any time
(`StationResume`). Under ConWeave the look may be put off while a packet is held, but it
is still one look for each packet. `Corrupt` is the
receive error model: `Receive` consults it before it looks at what the frame is.

This is what `EveryQueueServed` rests on. With two lossless queues a resume of one may
arrive, and a pause follow it, while the device is busy with the other; if pauses could
come by themselves, that could go on for ever and the round robin would never reach the
queue. But the pause must follow a packet of that very queue. What remains is the strict
priority of queue 0: a device that from some time on has a packet on queue 0 whenever it
is free serves none of its lossless queues again. That alone is the exception the
property makes; TLC finds this behaviour without it, with pauses and resumes for the
data that the pausing station itself sends.

### RdmaTransport and Delivery

One flow on one path. `qp` is the sender's queue pair, `rx` the receiver's,
`data` and `answers` what is on its way. `Send` is `GetNxtPacket` under the
condition of `GetNextQindex`; `ReceiveUdp` includes `ReceiverCheckSeq` and the
answer; `ReceiveAck` includes `Acknowledge`, `IsFinished`, `QpComplete`, `qp_finish`
(both queue pairs are deleted) and `RecoverQueue`, in that order. The NACK timer
may expire at any time after it was set. Sizes are bytes in units of half an MTU
or so; only their relations matter (a short last packet, chunk and interval not
dividing the flow). `MayReorder` stands for optical reconfigurations and for
routes that change, `Lose` for corrupt frames and full buffers. `taken` is a
history variable: which bytes the receiver took.

### MultipathTransport

The same transport in multipath mode: `qp[p]`, `rx[p]`, `data[p]`, `answers[p]` are
the state of path `p`, 0 over the optical switches and 1 over the electric ones
(`path_snd_nxt[]`, `path_ReceiverNextExpectedSeq[]` and so on). What the two paths
share is `BytesLeft`, `OnTheFly` and `IsFinished`, which add them up. `GetNxtPathId`
compares delays it has measured; any path may come out, so `Send(p)` is for any. An
answer rides the path of the packet it answers. Each channel is a FIFO from which
messages are lost; on a path of `Reordering` a packet may overtake the one before
it. Three history variables name what a property excepts: `late` (a NACK timer
expired before its gap was filled, or a packet was overtaken), `cut` (a loss that
nothing behind it can reveal).

Reading the code for this module turned up more than the runs show:

* In this mode an ACK's own sequence number is always 0, as the receiver counts
  only per path. With `L2BackToZero`, which acknowledges by that number
  (`model/rdma-hw.cc:488`), nothing is ever acknowledged; and HPCC's "full update"
  per round trip (`HandleAckHp`) never comes after the first.
* The second branch of `GetNxtPathId` lacks the factor of the first
  (`model/rdma-queue-pair.cc:191`), so that any measured advantage of path 1 sends
  everything there.
* When a packet of a windowed flow overtakes another, without any loss, the NACK
  and then the ACK can leave `path_snd_una` ahead of `path_snd_nxt`; the sum of the
  differences wraps and the window stops the flow for good, as in the single-path
  mode after a second NACK. `FlowEnds` excepts this case (`late`).
* The same packet lost twice within the NACK interval is never asked for again.

### NicScheduler

`nic` is the host's device with its queue pairs: `grp` is `m_qpGrp`, in order,
`rrlast` is `m_rrlast`, `txEnd` and `nextSend` are the times to the end of the
transmission and to the `m_nextSend` event. An event is an action; each ends, as
the handlers do, with `DequeueAndTransmit`, which sends an answer, or a packet of
the queue pair `GetNextQindex` finds, or sets the next-send event. `Scan` is the
round-robin loop, `Compact` the loop that clears finished queue pairs from the
first one that was *passed* on (`Kept` is the group as that loop has rebuilt it up to
an index), `Renumber` what it does to the index it returns.
Times are whole transmission times, relative to now, so that the states stay
finitely many; sequence numbers count packets. The network and the receivers are
folded into an environment that acknowledges (`ReceiveAck`), asks again
(`ReceiveNack`), pauses and resumes.

The rate laws are a choice of the next rate with every answer. `setting` is chosen
once: whether windows are on, whether rates change by `ChangeRate` (HPCC and
HPCC-PINT), which moves the next time and the pending event, or by assignment
(the others), and whether a NACK may be about something older than the last
go-back. `skipped` and `strayed` are history: packets of others sent in a row while a flow
was ready (`RoundRobinWait` bounds their number by that of the other flows), and an index that named another queue pair than the chosen one.

What the properties show is bounded by three behaviours of the code. The event for the
next send is set for the minimum of `m_nextAvail` over queue pairs with bytes left,
*blocked ones included*: while a paused or window-bound one is past its time, no
event is set for any other, which waits for the next answer or resume
(`StallsOnlyBehindABlockedFlow` says that this is the only way to stall with nothing
scheduled). While an event *is* pending no earlier one is set: with a slow flow
waiting for its time, a packet of a faster flow may be due, and sendable, before the
event comes, and waits for it; only `UpdateNextAvail`, on a change of rate, pulls the
event forward. A delay of this kind is at most one gap of the slow flow (`NicTypeOK`
bounds the event by `Longest`) and so no stall; it shows when the gaps of two flows
differ by three transmission times or more (those of the run do not), and came to light
in the attempt to prove an earlier form of `StallsOnlyBehindABlockedFlow` that did not
allow for it. And
`Renumber` misses a chosen queue pair that is finished but, after a late NACK, has
bytes to send: the NIC then serves another or reads past the end of the vector.
`ServesItsChoice` and `CompletedIsSilent` say that this takes a late NACK *and* no window.

### SpineLeaf and OpticalFabric

`SpineLeaf` writes the topology down as `spine_leaf.py` does, because device numbers
follow the order of its lines, and the switch decides by a device number what is
optical (`idx <= 4`). That this is right on every leaf is the assumption
`OpticalIsUrgent`, which TLC evaluates; that it is wrong on a spine is the run
`switch_spine`.

`OpticalFabric` is not a small instance: it has the program's four switches, fifteen
matrices, sixteen leaves and its schedule, in units of 10 microseconds (a day of 18,
a night of 2, staggered by 5). `NightFalls` and `DayBreaks` are the two branches of
`ConfigMems`; `optical` and `multi` are the tables `m_rtOpticalTable` and
`m_rtMpOpticalTable` of all leaves. One packet travels: routed at a leaf by the tables
of that moment, queued at an optical device, turned by the table of the optical
switch at the moment it leaves. `Tick` lets a hop take less than a night, but for one
hop of the packets in `Late`. A packet on an electric path is as good as delivered.
There is no liveness to check: as a packet takes at most three hops
(`HopsBounded`) and each takes less than a night, it is delivered.

### ConWeave

One flow between its two ToR switches; `tx` and `rx` are the flow's entries in
`m_conweaveTxTable` and `m_conweaveRxTable`, `voq` the queue that holds packets of the
new path. `RouteInput` is one function of some seven hundred lines, in the style of
a switch pipeline; `SendData`, `ReceiveData` and `ReceiveReply` are its three roles,
and the operators before them are its stages, each a function of the entry before
the packet. Time is discrete. `FlushVOQ` is the timer of the queue, `AgingEventTx` and
`AgingEventRx` the periodic clean-up of the two tables. NOTIFY packets (ECN) and the
table of paths they pause only decide which path is found, if any; that is the
choice `good`. A REPLY takes any time up to `ReplyDelay` and may be overtaken. The
network loses nothing (the switches' PFC) and keeps the order of each path; the
delay of a path varies by `Jitter`. When nothing is under way `Tick` goes on to the
next time that matters. `failed` records an assertion that would have failed or a
call of `exit(1)`; `outlived` that the sender's entry was aged away while the receiver's
was not.

Two limits were found on the way. With a jitter *equal* to `ExtraVOQFlushTime` the
flush and the TAIL fall on one instant, and `InOrder` fails if the flush runs first.
And when TxToR forgets a flow that RxToR remembers, the flow begins anew with epoch
1, which RxToR takes for an epoch gone by: it sends no reply and reorders nothing
until the epochs have caught up; `InOrder` excepts these flows.

## Runs

| run | question | instance and why it is enough | result |
|---|---|---|---|
| `mmu` | are the counters exact, does the unit pause before it drops, how much is the buffer overcommitted? | 2 ports with 2 lossless queues, sizes 1 and 2, reserve 1, headroom 2, pool 2, shifts 1 and 0: each regime, both thresholds and every boundary between them is crossed by packets of both sizes, and the occupancy does exceed `buffer_size` | holds |
| `switch` | does the switch drive the unit as specified, is dequeuing work-conserving and fair? | a leaf: packets from device 1 to device 2 are lossless, those from 2 to the optical device 1 ride queue 0; 2 lossless queues, paused and resumed freely; pool of 2, so pauses, headroom and drops all happen, and a resume starts device 1 in the middle of a dequeue on device 2 | holds |
| `switch_spine` | does only optical traffic bypass the unit? | no optical device | **violated** |
| `pfc` | do both ends agree on every pause, does every pause end, is every lossless queue served, whatever the other one of its device does? | two stations that send to each other, one on 2 lossless queues and the other on one of them, so that the port of the pausing station carries data, this switch's pauses and resumes for it, and two queues that compete; headroom 1 for each queue and no pool, so this switch pauses after every packet; pauses answer packets, resumes come at any time, under fairness; one data packet lost; one frame per link direction besides those queued. With a pool of one packet (`buffer_size` 3) all five properties hold as well, which takes too long to repeat often | holds |
| `pfc_lost_pause` | "Must be PAUSEd"? | one pause frame lost | **violated** |
| `transport` | is delivery in order, complete and reported truly? | 2 chunks of 2 packets with L2BackToZero, any 2 messages lost, any order, 3 messages per channel: enough for a gap, its NACK, a resend, and stale copies of each | holds |
| `transport_live` | does a flow survive a loss? | 4 packets (the last one short), no L2BackToZero, one loss not at the tail, ordered path, no window | holds |
| `transport_stale_nack` | does the window hold back only what is in flight? | `transport_live` with a window | **violated** |
| `nic` | does the NIC serve everyone, in turn, and when it can? | 3 flows of 2, 1 and 1 packets in two priority groups, one of them with two rates; the answer queue shares a group; one answer, one pause and one NACK; DCQCN without windows and HPCC with them, each with late NACKs and without (`FlowsComplete` is about the latter). A group of three is the least in which a compaction moves one queue pair past another | holds |
| `optical` | do routes, circuits and packets agree over the whole schedule? | the program's own schedule, every phase of it; a packet from leaf 0 to every leaf, in every mode; some of them late | holds |
| `conweave` | does the host get the packets in order, in bounded time, and does no assertion fail? | 5 packets at any times: enough for INIT, data, TAIL, held packets and a second rerouting; a path four times as slow as the other; times in the proportions of the driver's; expiry and aging both happen | holds |
| `multipath` | do the two paths agree, do they together deliver what one promises, is completion true, does the flow end? | 4 packets, the last one short, a window of three, one loss on either path, one overtaking on the optical one, late NACKs | holds |

The violated runs each check what a comment or an assertion says; `findings` in
`PROJECT.json` quotes them. The one that matters most is `transport_stale_nack`: a
flow with a window hangs after a single loss when a second NACK for the gap
arrives late, because `snd_nxt` falls behind `snd_una` and their unsigned
difference wraps. The same loss without a window is survived (`transport_live`).

Three more disagreements were met that no run of the project covers; they are
listed under `hazards` (those met in the multipath mode, the NIC and ConWeave stand
above, with their modules). A lost *resume* frame pauses a queue for good, although every pause frame
carries a pause time, which the receiver only tests for being non-zero. An
`L2AckInterval` of 0, documented as disabling ACKs, acknowledges every packet. An
`L2ChunkSize` of 0, the default, documented as disabling chunk mode, is divided by
(`model/rdma-hw.cc:546`); `TransportAssumption` excludes it.

Deadlock is checked in all runs of the switch and the unit. The transport really
stops: when a flow is complete, or when its tail is lost. So do the flows of the NIC
and of ConWeave when they have sent everything, and the packet of `OpticalFabric` when
it could only be late.

### Bounds

`MaxHighPrio` stops arrivals, not the switch's own frames, when a queue 0 that
they may add to is that long; queue 0 is otherwise unbounded in the code. The
lossless queues are bounded by the buffer. `WireLength` bounds a link; the code
schedules any number of packets on it, but order and loss are all that the
properties see. `MaxCorrupt`, `MaxLost` and `MaxInFlight` bound losses and
messages under way. `UintRange` and `Uint64` stand for 2^32 and 2^64 and are far
above any count of the instance, so that a wrap is visible as a huge number.

`MaxAnswers`, `MaxPauses`, `MaxNacks` and `MaxOvertakes` bound what the environment may do
to the NIC and the two paths. `MaxPackets` bounds a ConWeave flow and `Phases` the
choice of the first aging event. `Late` and `Sources` bound the packets of
`OpticalFabric`; the schedule itself has no bound. The run `conweave` identifies
states that differ only by a shift of all times (`VIEW MCView`), which is sound
because every action and every property compares times with each other and with
`now` only; times more than three aging periods past count as one.

### Fairness

*PfcFabric.* A frame on the wire arrives and a transmission ends, because both
are scheduled events; the station beyond a paused queue resumes it, which is what
`EveryPauseEnds` shows of this switch, so the assumption and the result support
each other along a path without cycles. Nobody is obliged to send or to pause.
The conditions are stated with what waits, not with the guards: a link has nothing on it
again and again, or a frame arrives again and again, also where a *bound* of the model
(`WireLength`, `MaxHighPrio`) keeps an event waiting, since the code has none. Every
pause ends, but nothing says when: the device may be busy with another queue whenever
one does.

*RdmaTransport.* The NIC takes a packet when one may be sent: `TriggerTransmit`
follows every answer, the next-send event follows the rate, and a paused queue is
resumed (`pfc`). What the network does not lose arrives. The NACK timer need
not expire for `Completes`.

*MultipathTransport.* The same, of the two paths together for sending and of each for
arrival: `Send` is one condition, as the code and not the schedule picks the path.

*NicScheduler.* One weak fairness of `Progress`: time passes or a due event runs, flows
start, a peer acknowledges what it was sent, a pause ends. Nothing is assumed of the
NIC itself; in particular no action exists that would make an idle NIC look again.

*ConWeave* and *OpticalFabric* have no fairness: what must happen in time is bounded by
invariants over clocks (`HoldBounded`, `HopsBounded`), as time cannot pass a due event.

## Proofs

All theorems are for every value of the constants within the named assumptions; TLC
evaluates those on every run. `NoPacketAssumption`, `NoQpAssumption`, `NoEntryAssumption`,
`NoTimeAssumption` and the last line of `OpticalAssumption` only say that the value
which stands for *no packet*, *no queue pair*, *no entry of a table*, *nothing
scheduled* or *no device* is not one. Where a theorem needs
more than the assumptions, the hypothesis is a named definition in its statement
(`FramesSafe`, `ChunksOfPackets`, `AcksCount`, `TimesFit`), and is discussed below.

### The buffer unit

`SwitchMmu_proofs` proves `Spec => []P` for `TypeOK`, `AccountingExact`,
`SharedPoolExact`, `HeadroomOnlyWhilePaused`, `DropOnlyAfterPause`, `PausedHasTraffic`
and `OccupancyBounded`, for every number of ports and queues, every set of packet
sizes and every configuration within the three assumptions of `Mmu`.

None of the first six is inductive alone. That the pool counter is exact needs the
ingress counters to be those of the table it sums; that a removal does not wrap
needs a queued packet to be covered by its queue's charge, which is
`AccountingExact`; that headroom is used only while paused needs the pool not to
be overdrawn. The inductive invariant is their conjunction without
`DropOnlyAfterPause`, which follows from it: a packet is refused only if it does not
fit the headroom, so some headroom is in use (by `HeadroomAssumption`), so the
port is paused. It is stated as a predicate `IInv(m, r)` of a unit and a table of
resident bytes, so that the switch can use it too, with a lemma per kind of call:

* `UpdateIngress`, `RemoveIngress`, `SetEgress`, `SetFlag` say what one call does to one
  entry of each table and to the pool, and that nothing wraps;
* `AccountStep` turns a change of one entry into a change of the sums, by the
  lemmas of `Library_proofs` (`SumTo` and `SumTable` of a table changed at one place);
* `AdmittedInv` and `ReleasedInv` combine them for the two call sequences of
  `SwitchNode`, and `Forward` is one after the other.

`OccupancyBounded` follows: each entry is at most its reserve, what it draws from
the pool, and its headroom; the draws add up to no more than the pool, and the
rest is summed by `SumToSlack` and `SumToSlacks`.

### The switch

`Switch_proofs` follows the calls. A first group of lemmas says what one call does
to the device it is made on (`EnqueueEffect`, `StartEffect`, `HighPrioEffect`,
`RoundRobinEffect`) and that a PFC frame sent from inside another handler changes no
lossless queue and leaves its device busy (`Kept`). A second composes them along
`DoSwitchSend`, `SwitchNotifyDequeue` and `DequeueAndTransmit`. The result is
`NextOutcome`: whatever the event, what a step does is one of four things, an
`Outcome`: no lossless queue changes; one packet is queued; the arriving packet is
sent on at once; or the queue whose turn it is loses its first packet, with the unit
told so. The theorems are then about outcomes only:

* `SwitchInvariant`: the unit's own `IInv`, with the bytes that the queues hold as its table,
  and work conservation. The second is needed for the first: that a packet which
  finds its device idle is the very packet that leaves (`Forward`) holds because an
  idle device has nothing else it may send.
* `AlwaysConserving`: a device that could transmit transmits (`WorkConserving`).
* `ImplementsUnit`: the refinement `DrivesUnit`. Every outcome is `Admit`, `Release`,
  `Forward` or a stutter of `SwitchMmu`, whose theorems so hold of the unit inside the
  switch; `SwitchDropsOnlyPaused` spells one out.
* `NoStarvation`: `RoundRobinFair`. The measure is the distance from the queue served
  last to the one that waits: whenever another is served it gets shorter
  (`Nearer`), so how often a queue was skipped, plus its distance, stays below `NumPrios`.

### The switch and its neighbours

Its second half proves `PfcAgreement` and `MustBePaused` under the hypothesis
`FramesSafe`: the error model may drop packets, but no pause and no resume (the run
`pfc_lost_pause` shows that it is needed). `Tells(s, q, x, y)` says that receiving the
frames `s` in order takes a queue from state x to state y and that each frame about
it is news. It composes (`TellsConcat`) and can be read from the front (`TellsTail`),
and with that the argument is:

* the frames towards a station are those on the link, the one being transmitted and
  queue 0 of the device (`Frames`). A call inside the switch adds frames at the end of
  this line, and they say exactly how the unit's flags change (`Follows`). That holds
  for each call (`FlagFollows`, `CheckResumeFollows`, ...) and is transitive
  (`FollowsTwice`), hence for an event, however deeply its calls nest; a transmission that
  ends moves one frame from the device to the link (`CompleteFollows`);
* a station takes the first of the frames, so the others go on from its new flag. The
  other direction, from a station that pauses the switch, is the same with the link
  alone (`AgreeInv` has both);
* a resume sent while a packet is dequeued must never go out on the device that is
  dequeuing, which is about to transmit. It does not, because no packet waits on the
  device it came in by (`Onward`, from `RoutesAssumption`). This and the invariant of the
  switch make `FabricInv`, which needs no hypothesis on losses and gives `FabricTypes`.

### The transports

`RdmaTransport_proofs` proves `TransportTypeOK`, `AckedIsDelivered` and the refinement of
`Delivery` for any flow, packet, chunk and window size, interval, loss and
reordering. The inductive invariant has four parts: a packet under way lies within
the flow; the sender's mark is a chunk boundary when it goes back by chunks; every
answer under way, like the mark, is covered by the receiver *even if the receiver
goes back to the start of its chunk*; and the bytes taken are 0 to h - 1 without a
gap, where the next one expected is at most h, and h is the size of the flow once
completion is reported. The third part is what makes the second property true: a
receiver in `L2BackToZero` mode un-takes bytes, and must not un-take acknowledged ones.

`NoStraddling`, that no packet under way is partly old and partly new, is proved from
`ChunksOfPackets`: a receiver that goes back by chunks has chunks of a whole number of
packets. The program's settings satisfy it (`L2_CHUNK_SIZE` 4000 and
`PACKET_PAYLOAD_SIZE` 1000, `simulation/run.py:33` and `:9`; `L2_BACK_TO_ZERO` is 0
there besides); with chunks of 3 and packets of 2 TLC finds a packet that straddles. The
invariant (`BoundaryInv`) says that every offset in the system, at either end or under
way, is a multiple of the packet size or the end of the flow, and that a packet goes
from one such offset to the next.

`MultipathTransport_proofs` proves `MultipathTypeOK`, `PathsAgree` and `CompletedIsTaken`
in the same way, with the answers of each path covered by the receiver's counter of
that path. That the two paths together take the flow's bytes only once
(`NothingTakenTwice`) is a property of what was *sent*: `BytesLeft` adds up both
paths' `snd_nxt`, so they never send more than the size, unless one of them is set
back behind what its receiver has. `SentOnce` says that it is not: on each path the
packets under way fall into those that come too late for a gap already asked for, and
behind them those sent, in order, since the sender last went back (`Split`); and a NACK
that is still to come is the only one and names what the receiver expects. This needs
answers to count (`AcksCount`: an interval, and no `L2BackToZero`, under which nothing
is ever acknowledged in this mode; the settings are `L2_ACK_INTERVAL` 1 and
`L2_BACK_TO_ZERO` 0, `simulation/run.py:34-35`) and, like what it is for, holds until a
NACK timer asks for a byte again or a packet is overtaken (`late`). Three theorems draw on it: `MultipathTakesOnce`, `MultipathWindow`
(the difference that the window bounds does not wrap) and `MultipathDelivers`, that until
then the two paths together implement `Delivery`, the specification of the single-path
transport: what `ExpectedGrows` and `CompletesTaken` say of each step is, with
`NothingTakenTwice` before and after it, a `Take`, a `Report` or a stutter.

### The NIC

`NicScheduler_proofs` proves `NicTypeOK`, `ServesItsChoice`, `RoundRobinWait`,
`StallsOnlyBehindABlockedFlow` and `CompletedIsSilent`, for any number of flows, sizes,
windows, priority groups and rates. The argument:

* `FinishedIsNotSendable`: with windows on, or NACKs in order, a finished queue pair
  cannot send. Either all of it is sent, or `snd_nxt` lies behind `snd_una`, and then the
  unsigned difference is so large that any window is full (`NicAssumption`: sizes and
  windows are small against 2^64).
* The group keeps the order in which flows started (`Rising`), so it names no queue pair
  twice and is no longer than the number of flows. `KeptIsWell` follows the compaction
  loop index by index: what it has rebuilt still rises, and holds every unfinished
  queue pair at the place the loop put it. With the first point, the renumbered index
  therefore names the chosen one (`RenumberedWell`), which is `ServesItsChoice`.
* A flow passed over has a place, and the number of times it was passed over plus its
  distance from the one served last stays within the length of the group (`Nearer`):
  `Scan` takes the nearest that is ready, and whoever is behind it gets nearer
  (`SendKeeps`). This is `RoundRobinWait`.
* `DequeueOutcome` says what `DequeueAndTransmit` makes of any device with these
  properties: one with these properties again, which stalls only behind a blocked flow,
  and in which no finished queue pair has sent. Each handler is then a change of the
  device, shown to keep the properties, followed by `DequeueAndTransmit`; only `PauseQueue`
  and `Tick` do not end with it, and they make no one wait who did not.

### ConWeave

`ConWeave_proofs` proves all five invariants of the run `conweave`, for any paths and any
number of packets, reroutings and epochs. What they need of time is `TimesFit`, five
inequalities between the code's constants and the delays of the network: the variation
of a path's delay is less than the extra time of the queue; the default waiting time
covers the difference of two paths; a packet, its hold and the extra time pass
within the expiry time; expiry and a packet, and a packet and a reply, within the
aging time. The driver's values (4, 8, 32, 500 and 1000 microseconds,
`simulation/scratch/rdma-simulator.cc:112-116`, and an aging time of 2 ms,
`model/conweave-routing.cc:183`) satisfy them for paths of up to 468 microseconds
whose delay varies by less than 32, and so do the values of the run. The inequalities
are what protects the flow, and no code checks them.

The second hypothesis, `[]BeforeMaxTime`, is that the simulation does not reach
`CW_MAX_TIME` (100 s, `model/conweave-routing.h:47`), the time that stands for *never*
in a timer (the program stops after 4 s, `simulation/run.py:17`). Every state before that time lies on a behaviour that never gets there, as a
behaviour may stutter, so the theorems hold of all of them.

The inductive invariant relates both switches' entries, the queue, and every packet and
REPLY under way. Its parts, in the order of the argument:

* `TxInv`, `FlightInv`, `PairInv`: a packet under way carries what the sender's entry was
  when it was tagged. Of the current epoch, packets before the rerouting are all on
  one path, and TAIL follows them; earlier epochs are over on the wire before the
  flow can be rerouted again.
* `ReplyInv`, `SettledInv`: a CLEAR for the current epoch means that no packet from
  before the rerouting is under way and that the receiver is in phase 1 or about to flush. This is
  why a stable flow has packets on one path only (`StableOnOnePath`).
* `RxInv`, `HoldInv`, `FreshInv`: what the receiver remembers is not older than what the
  network and the aging allow, the flush is never far, and while it holds packets the sender stays in the
  epoch. `HoldBounded` counts from the time `since` at which the first packet of the queue
  was held (a history field), and the flush may be rescheduled by every packet of phase 0
  that comes later. That it stays within the bound is due to how the code estimates: it
  adds to the arrival of the last packet of phase 0 the gap to the TAIL *as sent*, so that a
  later packet has a smaller gap. What makes this an invariant is that a held packet
  was sent after the TAIL, hence the TAIL `MinDelay` before `since`.
* `EpochInv`, `WaitInv`, `DeliveredInv`, `HeldInv`, all of them only as long as the
  sender's entry has not been aged away under the receiver's (`outlived`): the receiver is
  never ahead of the sender, the flush comes after the last packet of the old path, and
  what was delivered, is held and is under way is in the order of sending (`InOrder`).

`AssertionsHold` is part of the invariant: each assertion of the code is a consequence of
the others in the state in which it is evaluated.

### The optical fabric

`OpticalFabric_proofs` proves all three invariants of the run `optical` from any leaf
to any other, in every mode, and for any set `Late` of packets that may be late once,
on the two-hop path as well (the run starts at leaf 0 and has three late packets, of
the one-hop path). `OpticalInv` is the inductive invariant, in three layers:

* `ScheduleInv`. What two switches have to do with each other can only be said of the
  time until their *circuits* change, `ToChange`, which is the timer, and a night more by
  day. For any two of them it differs by 5 for each place between them, and their
  matrices by 1 for each, or the one is a period behind the other (`Staggered`). Hence
  `Apart`: no two have the same matrix, and no two change theirs within a stagger.
* `RouteInv`. The matrices pair the leaves, and no two have a pair in common
  (`MatrixPairs`, `MatricesDiffer`, about the fifteen matrices themselves). With `Apart`,
  entering or clearing the routes of one switch touches no route of another
  (`RouteAdded`, `RouteCleared`), so the one-hop tables are those of the circuits by day.
  A two-hop entry names the first of two switches that have their day (`TwoHops`); as
  every event computes these tables anew, they never hold an entry of an earlier night.
* `PacketWell`. A packet that left its leaf less than a night after it was routed
  finds the circuit it was routed over: a route is entered only by day, and its
  circuit stays for the night. On the two-hop path this has to be said of the route
  *beyond* the hop too. `FirstHop`: if the second switch still has its day, it keeps
  it for the hop should a day break meanwhile that joins the packet's start with its
  destination; if its night has fallen, no such day has broken. (Such a day would let
  the packet be routed back to where it started.) `SecondHop`: the route beyond was gone and a second detour found, whose own
  second switch is then a stagger away from its change, so that the third hop is to the
  destination (`LastHop`).

The numbers of devices enter as `DeviceNumbers`, an assumption of `SpineLeaf` about the
topology file: what it says is computed by functions on sequences which are beyond the
prover, and TLC evaluates it for the topology as the file is.

### The library

`Library_proofs` has the lemmas about sums of tables, about channels that lose or overtake
messages, and `IndexInduction` and `LeastNatural`, induction over the indices of one given
sequence by way of a least counterexample.

### Only model-checked

* All liveness (`EveryPauseEnds`, `EveryQueueServed`, `Completes`, `FlowEnds`,
  `FlowsComplete`), which is beyond the prover.
* The runs that expect a violation.

## What could follow

* The rest of the switch's routing (`GetOutDev`): modes and hashes, of which
  `OpticalFabric` has those for optical leaves.
* MP-RDMA with its own queue pair, bitmap and synchronisation, against `Delivery`.
* The timers of DCQCN with completed queue pairs, once their arithmetic is given a
  bounded form.
* How much headroom losslessness needs, in a model with link times.

## Not modelled

* The rate laws of the congestion controls: floating-point arithmetic on measured
  times and INT records. `NicScheduler` lets them choose any of a few rates.
* MP-RDMA (`mp-rdma-*.cc`): listed as a component, read, not modelled.
* Propagation times and the headroom arithmetic of the drivers (`HeadroomAssumption` is
  what is used of it); ECN marking, which changes no state of the switch.
* Branches that the program's settings or sizes never take: the drop of a packet when the
  queues of a device hold `m_maxBytes` (`network/utils/broadcom-egress-queue.cc:76`),
  far above the unit's buffer; `QbbEnabled` false, which makes a device ignore PFC; and
  `m_var_win`, which shrinks a window with the rate and so only forbids sends.
* Answers that come behind `snd_una`, in `NicScheduler`: they change the rate and make
  the NIC look again. In `MultipathTransport` answers never overtake each other,
  also on the path where data may.
* Optical packets that come late and leave a leaf by the device they came in by
  (`RoutesAssumption`): they ride queue 0, of which the unit and PFC know nothing.
* What a leaf drops because its optical links cannot be paused: pauses sent there are
  taken by the optical switch.
* Packet formats and serialisation; NOTIFY packets of ConWeave but for the choice `good`.
* Link failures: `TakeDown` has no caller, and the drivers parse but never use a
  link-down time.
* The upstream ns-3 libraries, and the Python files: nearly all are generated ns-3
  bindings or upstream build scripts. The topology generator `spine_leaf.py`, which
  decides the device numbers the switch tests, is modelled (`SpineLeaf`); traffic
  generators and trace analysis are scripts that run before and after.
