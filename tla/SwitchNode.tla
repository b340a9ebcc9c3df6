----------------------------- MODULE SwitchNode -----------------------------
(***************************************************************************)
(* An electric switch (SwitchNode) with its devices (QbbNetDevice, each    *)
(* with a BEgressQueue): admission of arriving packets, priority and       *)
(* round-robin dequeuing, and the PFC frames the switch sends upstream.    *)
(*                                                                         *)
(* The simulator runs one event at a time, and the handler of an event     *)
(* makes all its calls before the next event: here an event is an action   *)
(* and a call is an operator that maps a state of the switch to the next.  *)
(***************************************************************************)
EXTENDS Mmu, Sequences

CONSTANTS
    Routes,         \* the pairs <<in, out>> of devices the routing tables connect
    BypassLimit,    \* packets to devices 1..BypassLimit ride queue 0 (4 in the code)
    OpticalPorts,   \* the devices whose link leads to an optical switch
    MaxHighPrio,    \* bound: no arrival while queue 0 of a device it may add to is this long
    NoPacket        \* m_currentPkt of a device that is READY

(* A next hop is nearer to the destination, so no route leads back. (The   *)
(* optical tables, which GetOutDev consults first, may send a packet that  *)
(* comes late out of an optical switch back by the device it came in by:   *)
(* on queue 0, which neither the unit nor PFC knows of.)                   *)
ASSUME RoutesAssumption ==
    /\ Routes \subseteq {r \in Ports \X Ports : r[1] # r[2]}
    /\ OpticalPorts \subseteq Ports
    /\ BypassLimit \in Nat /\ MaxHighPrio \in Nat \ {0}

VARIABLES
    node,       \* the switch: its unit and its devices
    skipped     \* history: skipped[p][q], dequeues on p since q was ready and not served

nodeVars == <<node, skipped>>

Queues == 0 .. NumPrios

(* The tag in is the device a packet came in by (FlowIdTag).  Packets of   *)
(* queue 0 are PFC frames, other control packets (ACK, NACK, CNP) or data  *)
(* for an optical device.                                                  *)
DataPacket(in, q, psize) == [kind |-> "data", in |-> in, q |-> q, size |-> psize]
Control                  == [kind |-> "control"]
PfcFrame(type, q)        == [kind |-> type, q |-> q]      \* type: "pause" or "resume"

Packet == [kind : {"data"}, in : Ports, q : Prios, size : Sizes]
              \cup {Control} \cup [kind : {"pause", "resume"}, q : Prios]

Device == [queue   : [Queues -> Seq(Packet)],
           rrlast  : Queues,
           paused  : [Prios -> BOOLEAN],
           current : Packet \cup {NoPacket}]

(* READY is told from every transmission.                                  *)
ASSUME NoPacketAssumption == NoPacket \notin Packet

NodeTypeOK == /\ node.mmu \in MmuState
              /\ node.dev \in [Ports -> Device]
              /\ skipped \in [Ports -> [Prios -> Nat]]

-----------------------------------------------------------------------------
(* The egress queues of a device.  An operator marked (mutant) is a        *)
(* mistaken version of the one below it, which a run must tell apart.      *)

(* TransmitStart's assertion "Must be READY to transmit" is current being  *)
(* NoPacket.                                                               *)
Busy(n, p) == n.dev[p].current # NoPacket

(* DoEnqueue also drops a packet when all queues of a device hold          *)
(* m_maxBytes; that is far above the unit's buffer, and left out.          *)
Enqueue(n, p, q, pkt) == [n EXCEPT !.dev[p].queue[q] = Append(@, pkt)]

TransmitStart(n, p, pkt) == [n EXCEPT !.dev[p].current = pkt]

(* The lossless queues DequeueRR may serve, and how far each is from the   *)
(* one served last.                                                        *)
Ready(d)    == {q \in Prios : ~ d.paused[q] /\ d.queue[q] # <<>>}
Turn(d, q)  == (q - d.rrlast - 1) % (NumPrios + 1)
NextQueue(d) == CHOOSE q \in Ready(d) : \A r \in Ready(d) : Turn(d, q) <= Turn(d, r)

(* Queue 0 is served first, and nothing but the transmission follows.      *)
TransmitHighPrio(n, p) ==
    LET d == n.dev[p]
    IN  IF Busy(n, p) \/ d.queue[0] = <<>> THEN n
        ELSE TransmitStart([n EXCEPT !.dev[p].queue[0] = Tail(@)], p, Head(d.queue[0]))

(* A device whose queue 0 holds the new frame serves queue 0.              *)
SendPfc(n, p, type, q) == TransmitHighPrio(Enqueue(n, p, 0, PfcFrame(type, q)), p)

CheckAndSendPfc(n, in, q) ==
    IF CheckShouldPause(n.mmu, in, q)
    THEN [SendPfc(n, in, "pause", q) EXCEPT !.mmu = SetPause(n.mmu, in, q)]
    ELSE n

(* (mutant) The flag is reset and no frame is sent.                        *)
ResumeWithoutFrame(n, in, q) ==
    IF CheckShouldResume(n.mmu, in, q) THEN [n EXCEPT !.mmu = SetResume(n.mmu, in, q)] ELSE n

(* (mutant) The frame is sent and the flag stays.                          *)
ResumeKeepsFlag(n, in, q) ==
    IF CheckShouldResume(n.mmu, in, q) THEN SendPfc(n, in, "resume", q) ELSE n

CheckAndSendResume(n, in, q) ==
    IF CheckShouldResume(n.mmu, in, q)
    THEN [SendPfc(n, in, "resume", q) EXCEPT !.mmu = SetResume(n.mmu, in, q)]
    ELSE n

(* (mutant) The bytes are refunded to the egress device.                   *)
NotifyRefundsEgress(n, p, q, pkt) ==
    LET m == RemoveFromEgressAdmission(
                 RemoveFromIngressAdmission(n.mmu, p, q, pkt.size), p, q, pkt.size)
    IN  CheckAndSendResume([n EXCEPT !.mmu = m], p, q)

SwitchNotifyDequeue(n, p, q, pkt) ==
    LET m == RemoveFromEgressAdmission(
                 RemoveFromIngressAdmission(n.mmu, pkt.in, q, pkt.size), p, q, pkt.size)
    IN  CheckAndSendResume([n EXCEPT !.mmu = m], pkt.in, q)

(* (mutant) rrlast is the queue to look at next, not the one served.       *)
RoundRobinPastTheEnd(n, p) ==
    LET d == n.dev[p]
        q == NextQueue(d)
        popped == [n EXCEPT !.dev[p].queue[q] = Tail(@), !.dev[p].rrlast = q + 1]
    IN  IF Busy(n, p) \/ Ready(d) = {} THEN n
        ELSE TransmitStart(SwitchNotifyDequeue(popped, p, q, Head(d.queue[q])), p, Head(d.queue[q]))

(* (mutant) rrlast is never moved.                                         *)
RoundRobinFromStart(n, p) ==
    LET d == n.dev[p]
        q == NextQueue(d)
        popped == [n EXCEPT !.dev[p].queue[q] = Tail(@)]
    IN  IF Busy(n, p) \/ Ready(d) = {} THEN n
        ELSE TransmitStart(SwitchNotifyDequeue(popped, p, q, Head(d.queue[q])), p, Head(d.queue[q]))

TransmitRoundRobin(n, p) ==
    LET d == n.dev[p]
        q == NextQueue(d)
        popped == [n EXCEPT !.dev[p].queue[q] = Tail(@), !.dev[p].rrlast = q]
    IN  IF Busy(n, p) \/ Ready(d) = {} THEN n
        ELSE TransmitStart(SwitchNotifyDequeue(popped, p, q, Head(d.queue[q])), p, Head(d.queue[q]))

DequeueAndTransmit(n, p) ==
    IF n.dev[p].queue[0] # <<>> THEN TransmitHighPrio(n, p) ELSE TransmitRoundRobin(n, p)

SwitchSend(n, p, q, pkt) == DequeueAndTransmit(Enqueue(n, p, q, pkt), p)

(* A lossless packet is admitted, or dropped.                              *)
DoSwitchSend(n, out, q, pkt) ==
    IF q = 0 THEN SwitchSend(n, out, 0, pkt)
    ELSE IF ~ CheckIngressAdmission(n.mmu, pkt.in, q, pkt.size) THEN n
    ELSE LET m == UpdateEgressAdmission(
                      UpdateIngressAdmission(n.mmu, pkt.in, q, pkt.size), out, q, pkt.size)
         IN  SwitchSend(CheckAndSendPfc([n EXCEPT !.mmu = m], pkt.in, q), out, q, pkt)

(* SendToDevContinue: the queue a data packet takes.                       *)
QueueOf(out, q) == IF out <= BypassLimit THEN 0 ELSE q

-----------------------------------------------------------------------------
(* The events.  Each is an operator on the state, and an action below.     *)

ReceiveData(n, in, out, q, psize) == DoSwitchSend(n, out, QueueOf(out, q), DataPacket(in, q, psize))

ReceiveControl(n, out) == DoSwitchSend(n, out, 0, Control)

(* (mutant) Resume does not start a transmission.                          *)
ReceivePfcQuietly(n, p, type, q) == [n EXCEPT !.dev[p].paused[q] = (type = "pause")]

(* The QbbEnabled attribute, without which every frame is ignored, is on,  *)
(* as it is by default.                                                    *)
ReceivePfc(n, p, type, q) ==
    IF type = "pause" THEN [n EXCEPT !.dev[p].paused[q] = TRUE]
    ELSE DequeueAndTransmit([n EXCEPT !.dev[p].paused[q] = FALSE], p)

TransmitComplete(n, p) == DequeueAndTransmit([n EXCEPT !.dev[p].current = NoPacket], p)

InitNode ==
    [mmu |-> EmptyMmu,
     dev |-> [p \in Ports |-> [queue   |-> [q \in Queues |-> <<>>],
                               rrlast  |-> 0,
                               paused  |-> [q \in Prios |-> FALSE],
                               current |-> NoPacket]]]

NodeInit == node = InitNode /\ skipped = [p \in Ports |-> [q \in Prios |-> 0]]

(* When a step lets device p serve a lossless queue, every other queue     *)
(* that was ready has been skipped once more.                              *)
Skips(n, m) ==
    [p \in Ports |-> [q \in Prios |->
        LET served == {r \in Prios : Len(m.dev[p].queue[r]) < Len(n.dev[p].queue[r])}
        IN  IF q \in served \/ q \notin Ready(m.dev[p]) THEN 0
            ELSE IF served # {} /\ q \in Ready(n.dev[p]) THEN skipped[p][q] + 1
            ELSE skipped[p][q]]]

Step(m) == node' = m /\ skipped' = Skips(node, m)

(* The environment: packets arrive on any route; the device at the far end *)
(* of a link pauses and resumes in turn, as this switch does (PfcFabric).  *)
RoomFor(ports) == \A p \in ports : Len(node.dev[p].queue[0]) < MaxHighPrio

ArriveData(in, out, q, psize) ==
    /\ RoomFor({in, out})
    /\ Step(ReceiveData(node, in, out, q, psize))

ArriveControl(in, out) ==
    /\ RoomFor({out})
    /\ Step(ReceiveControl(node, out))

ArrivePfc(p, q) ==
    Step(ReceivePfc(node, p, IF node.dev[p].paused[q] THEN "resume" ELSE "pause", q))

Complete(p) == Busy(node, p) /\ Step(TransmitComplete(node, p))

NodeNext ==
    \/ \E r \in Routes, q \in Prios, psize \in Sizes : ArriveData(r[1], r[2], q, psize)
    \/ \E r \in Routes : ArriveControl(r[1], r[2])
    \/ \E p \in Ports, q \in Prios : ArrivePfc(p, q)
    \/ \E p \in Ports : Complete(p)

NodeSpec == NodeInit /\ [][NodeNext]_nodeVars

-----------------------------------------------------------------------------
(* The bytes from in that wait in queue q of out.                          *)
Waiting(n, in, out, q) ==
    LET s == n.dev[out].queue[q]
    IN  SumTo([k \in 1 .. Len(s) |-> IF s[k].in = in THEN s[k].size ELSE 0], Len(s))

Resident(n) == [i \in Ports |-> [o \in Ports |-> [q \in Prios |-> Waiting(n, i, o, q)]]]

Unit == INSTANCE SwitchMmu WITH mmu <- node.mmu, resident <- Resident(node)

(* The switch drives its unit as SwitchMmu assumes: every call of          *)
(* DoSwitchSend and SwitchNotifyDequeue is for a packet that is, or stops  *)
(* being, in the queue it is charged to.                                   *)
DrivesUnit == Unit!Spec

(* A device that could transmit is transmitting: whenever an event makes a *)
(* packet sendable, the handler ends with DequeueAndTransmit.              *)
WorkConserving ==
    \A p \in Ports : ~ Busy(node, p) => node.dev[p].queue[0] = <<>> /\ Ready(node.dev[p]) = {}

(* DequeueRR serves a lossless queue that stays ready before it serves any *)
(* other queue of the device twice: no queue starves another.              *)
RoundRobinFair == \A p \in Ports, q \in Prios : skipped[p][q] < NumPrios

(* The comment at the choice of the queue: "QCN or PFC or NACK or Optical, *)
(* go highest priority".  Data on queue 0 waits for an optical device.     *)
DataBypassIsOptical ==
    \A p \in Ports : \A k \in 1 .. Len(node.dev[p].queue[0]) :
        node.dev[p].queue[0][k].kind = "data" => p \in OpticalPorts
=============================================================================
