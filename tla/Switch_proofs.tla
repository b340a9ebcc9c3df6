---------------------------- MODULE Switch_proofs ----------------------------
(* Proofs about a switch with its devices, and then about the switch and   *)
(* its neighbours, for every number of ports and queues, every routing and *)
(* every configuration of the unit that the assumptions allow.             *)
EXTENDS PfcFabric, SwitchMmu_proofs, SequenceTheorems

Lossless == [kind : {"data"}, in : Ports, q : Prios, size : Sizes]

QueueSet == {f \in [Queues -> Seq(Packet)] : \A q \in Prios : f[q] \in Seq(Lossless)}

SwitchDevice == [queue   : QueueSet,
                 rrlast  : Queues,
                 paused  : [Prios -> BOOLEAN],
                 current : Packet \cup {NoPacket}]

(* A switch whose devices have their types; its unit's type is part of the *)
(* unit's own invariant.                                                   *)
NodeShape(n) == /\ n = [mmu |-> n.mmu, dev |-> n.dev]
                /\ n.dev \in [Ports -> SwitchDevice]

LEMMA PacketFacts ==
    /\ Lossless \subseteq Packet /\ Prios \subseteq Queues /\ 0 \in Queues
    /\ 0 \notin Prios /\ Prios \subseteq Nat \ {0}
    /\ Control \in Packet
    /\ \A q \in Prios : PfcFrame("pause", q) \in Packet /\ PfcFrame("resume", q) \in Packet
    /\ \A in \in Ports, q \in Prios, s \in Sizes :
           DataPacket(in, q, s) \in Lossless
<1>1. Prios \subseteq Queues /\ 0 \in Queues /\ 0 \notin Prios /\ Prios \subseteq Nat \ {0}
  BY MmuAssumption DEF Prios, Queues
<1>2. Lossless \subseteq Packet /\ Control \in Packet
  BY DEF Lossless, Packet
<1>3. \A q \in Prios : PfcFrame("pause", q) \in Packet /\ PfcFrame("resume", q) \in Packet
  BY DEF PfcFrame, Packet
<1>4. \A in \in Ports, q \in Prios, s \in Sizes : DataPacket(in, q, s) \in Lossless
  BY DEF DataPacket, Lossless
<1>. QED  BY <1>1, <1>2, <1>3, <1>4

LEMMA DeviceFacts ==
    ASSUME NEW n, NodeShape(n), NEW p \in Ports
    PROVE  /\ n.dev[p] \in SwitchDevice
           /\ n.dev[p].rrlast \in Queues /\ n.dev[p].paused \in [Prios -> BOOLEAN]
           /\ n.dev[p].current \in Packet \cup {NoPacket}
           /\ n.dev[p].queue \in [Queues -> Seq(Packet)]
           /\ \A q \in Queues : n.dev[p].queue[q] \in Seq(Packet)
           /\ \A q \in Prios : n.dev[p].queue[q] \in Seq(Lossless)
<1>1. n.dev[p] \in SwitchDevice
  BY DEF NodeShape
<1>. QED  BY <1>1 DEF SwitchDevice, QueueSet

(* u is n with e for the device p.                                         *)
DeviceSet(n, u, p, e) ==
    /\ NodeShape(u) /\ u.mmu = n.mmu
    /\ u.dev[p] = e
    /\ \A r \in Ports : r # p => u.dev[r] = n.dev[r]

LEMMA SetDevice ==
    ASSUME NEW n, NodeShape(n), NEW p \in Ports, NEW e \in SwitchDevice
    PROVE  DeviceSet(n, [n EXCEPT !.dev[p] = e], p, e)
<1>. DEFINE d == [n.dev EXCEPT ![p] = e]
            u == [mmu |-> n.mmu, dev |-> d]
<1>1. [n EXCEPT !.dev[p] = e] = u
  BY DEF NodeShape
<1>2. d \in [Ports -> SwitchDevice] /\ d[p] = e /\ \A r \in Ports : r # p => d[r] = n.dev[r]
  BY DEF NodeShape
<1>. HIDE DEF d
<1>3. u.mmu = n.mmu /\ u.dev = d
  OBVIOUS
<1>4. DeviceSet(n, u, p, e)
  BY <1>2, <1>3 DEF DeviceSet, NodeShape
<1>. QED  BY <1>1, <1>4

LEMMA EnqueueEffect ==
    ASSUME NEW n, NodeShape(n), NEW p \in Ports, NEW q \in Queues, NEW pkt \in Packet,
           q \in Prios => pkt \in Lossless
    PROVE  LET u == Enqueue(n, p, q, pkt)
               d == n.dev[p]
           IN  /\ DeviceSet(n, u, p, u.dev[p])
               /\ u.dev[p].rrlast = d.rrlast /\ u.dev[p].paused = d.paused
               /\ u.dev[p].current = d.current
               /\ \A j \in Queues : u.dev[p].queue[j] = IF j = q THEN Append(d.queue[q], pkt)
                                                        ELSE d.queue[j]
<1>. DEFINE d == n.dev[p]
            s == Append(d.queue[q], pkt)
            f == [d.queue EXCEPT ![q] = s]
            e == [d EXCEPT !.queue = f]
<1>1. Enqueue(n, p, q, pkt) = [n EXCEPT !.dev[p] = e]
  BY DEF Enqueue
<1>2. d \in SwitchDevice /\ d.queue \in [Queues -> Seq(Packet)]
      /\ \A j \in Prios : d.queue[j] \in Seq(Lossless)
  BY DeviceFacts
<1>. HIDE DEF d
<1>3. s \in Seq(Packet) /\ (q \in Prios => s \in Seq(Lossless))
  BY <1>2
<1>. HIDE DEF s
<1>4. f \in QueueSet /\ \A j \in Queues : f[j] = IF j = q THEN s ELSE d.queue[j]
  BY <1>2, <1>3, PacketFacts DEF QueueSet
<1>. HIDE DEF f
<1>5. e \in SwitchDevice /\ e.queue = f /\ e.rrlast = d.rrlast /\ e.paused = d.paused
      /\ e.current = d.current
  BY <1>2, <1>4 DEF SwitchDevice
<1>. HIDE DEF e
<1>6. DeviceSet(n, [n EXCEPT !.dev[p] = e], p, e)
  BY <1>5, SetDevice
<1>. QED  BY <1>1, <1>4, <1>5, <1>6 DEF DeviceSet, d, s

LEMMA StartEffect ==
    ASSUME NEW n, NodeShape(n), NEW p \in Ports, NEW pkt \in Packet
    PROVE  LET u == TransmitStart(n, p, pkt)
               d == n.dev[p]
           IN  /\ DeviceSet(n, u, p, u.dev[p])
               /\ u.dev[p].rrlast = d.rrlast /\ u.dev[p].paused = d.paused
               /\ u.dev[p].queue = d.queue /\ u.dev[p].current = pkt /\ Busy(u, p)
<1>. DEFINE d == n.dev[p]
            e == [d EXCEPT !.current = pkt]
<1>1. TransmitStart(n, p, pkt) = [n EXCEPT !.dev[p] = e]
  BY DEF TransmitStart
<1>2. d \in SwitchDevice
  BY DeviceFacts
<1>. HIDE DEF d
<1>3. e \in SwitchDevice /\ e.queue = d.queue /\ e.rrlast = d.rrlast /\ e.paused = d.paused
      /\ e.current = pkt
  BY <1>2 DEF SwitchDevice
<1>. HIDE DEF e
<1>4. DeviceSet(n, [n EXCEPT !.dev[p] = e], p, e)
  BY <1>3, SetDevice
<1>. QED  BY <1>1, <1>3, <1>4, NoPacketAssumption DEF DeviceSet, d, Busy

(* A device's lossless queues and what decides which of them is served.    *)
LosslessSame(d, e) == /\ e.rrlast = d.rrlast /\ e.paused = d.paused
                      /\ \A q \in Prios : e.queue[q] = d.queue[q]

(* From n to u no lossless queue changes, and a device that changes at all *)
(* ends up transmitting.                                                   *)
Kept(n, u) ==
    /\ NodeShape(u)
    /\ \A r \in Ports : /\ LosslessSame(n.dev[r], u.dev[r])
                        /\ u.dev[r] = n.dev[r] \/ Busy(u, r)

LEMMA KeptTwice ==
    ASSUME NEW n, NEW u, NEW v, Kept(n, u), Kept(u, v)
    PROVE  Kept(n, v)
BY DEF Kept, LosslessSame, Busy

LEMMA SetMmu ==
    ASSUME NEW n, NodeShape(n), NEW m
    PROVE  LET u == [n EXCEPT !.mmu = m]
           IN  NodeShape(u) /\ u.mmu = m /\ u.dev = n.dev
<1>1. [n EXCEPT !.mmu = m] = [mmu |-> m, dev |-> n.dev]
  BY DEF NodeShape
<1>. QED  BY <1>1 DEF NodeShape

LEMMA HighPrioEffect ==
    ASSUME NEW n, NodeShape(n), NEW p \in Ports
    PROVE  LET u == TransmitHighPrio(n, p)
           IN  /\ NodeShape(u) /\ u.mmu = n.mmu
               /\ LosslessSame(n.dev[p], u.dev[p])
               /\ \A r \in Ports : r # p => u.dev[r] = n.dev[r]
               /\ n.dev[p].queue[0] # <<>> => Busy(u, p)
               /\ IF n.dev[p].queue[0] = <<>> \/ Busy(n, p) THEN u = n
                  ELSE /\ u.dev[p].current = Head(n.dev[p].queue[0])
                       /\ u.dev[p].queue[0] = Tail(n.dev[p].queue[0])
<1>. DEFINE d == n.dev[p]
            u == TransmitHighPrio(n, p)
<1>1. CASE Busy(n, p) \/ d.queue[0] = <<>>
  <2>1. u = n
    BY <1>1 DEF TransmitHighPrio
  <2>. QED  BY <1>1, <2>1 DEF LosslessSame
<1>2. CASE ~ (Busy(n, p) \/ d.queue[0] = <<>>)
  <2>. DEFINE f == [d.queue EXCEPT ![0] = Tail(d.queue[0])]
              e == [d EXCEPT !.queue = f]
              v == [n EXCEPT !.dev[p] = e]
              pkt == Head(d.queue[0])
  <2>1. u = TransmitStart(v, p, pkt)
    BY <1>2 DEF TransmitHighPrio
  <2>2. /\ d \in SwitchDevice /\ d.queue \in [Queues -> Seq(Packet)]
        /\ \A j \in Prios : d.queue[j] \in Seq(Lossless)
        /\ d.queue[0] \in Seq(Packet)
    BY DeviceFacts, PacketFacts
  <2>. HIDE DEF d
  <2>3. pkt \in Packet /\ Tail(d.queue[0]) \in Seq(Packet)
    BY <1>2, <2>2, HeadTailProperties
  <2>. HIDE DEF pkt
  <2>4. f \in QueueSet /\ f[0] = Tail(d.queue[0]) /\ \A j \in Prios : f[j] = d.queue[j]
    BY <2>2, <2>3, PacketFacts DEF QueueSet
  <2>. HIDE DEF f
  <2>5. e \in SwitchDevice /\ e.queue = f /\ e.rrlast = d.rrlast /\ e.paused = d.paused
    BY <2>2, <2>4 DEF SwitchDevice
  <2>. HIDE DEF e
  <2>6. DeviceSet(n, v, p, e)
    BY <2>5, SetDevice
  <2>. HIDE DEF v, u
  <2>7. /\ DeviceSet(v, u, p, u.dev[p])
        /\ u.dev[p].rrlast = v.dev[p].rrlast /\ u.dev[p].paused = v.dev[p].paused
        /\ u.dev[p].queue = v.dev[p].queue /\ u.dev[p].current = pkt /\ Busy(u, p)
    BY <2>1, <2>3, <2>6, StartEffect DEF DeviceSet
  <2>8. LosslessSame(n.dev[p], u.dev[p])
    BY <2>4, <2>5, <2>6, <2>7 DEF DeviceSet, LosslessSame, d
  <2>9. u.dev[p].queue[0] = Tail(d.queue[0])
    BY <2>4, <2>5, <2>6, <2>7 DEF DeviceSet
  <2>. QED  BY <1>2, <2>6, <2>7, <2>8, <2>9 DEF DeviceSet, u, d, pkt
<1>. QED  BY <1>1, <1>2

LEMMA SendPfcEffect ==
    ASSUME NEW n, NodeShape(n), NEW p \in Ports, NEW q \in Prios, NEW type \in {"pause", "resume"}
    PROVE  LET u == SendPfc(n, p, type, q) IN Kept(n, u) /\ u.mmu = n.mmu
<1>. DEFINE frame == PfcFrame(type, q)
            v == Enqueue(n, p, 0, frame)
            u == SendPfc(n, p, type, q)
<1>1. frame \in Packet /\ 0 \in Queues /\ 0 \notin Prios /\ Prios \subseteq Queues
  BY PacketFacts
<1>. HIDE DEF frame
<1>2. /\ DeviceSet(n, v, p, v.dev[p])
      /\ v.dev[p].rrlast = n.dev[p].rrlast /\ v.dev[p].paused = n.dev[p].paused
      /\ \A j \in Queues : v.dev[p].queue[j] = IF j = 0
                               THEN Append(n.dev[p].queue[0], frame)
                               ELSE n.dev[p].queue[j]
  BY <1>1, EnqueueEffect
<1>3. u = TransmitHighPrio(v, p)
  BY DEF SendPfc, frame
<1>. HIDE DEF v, u
<1>4. v.dev[p].queue[0] # <<>>
  <2>1. n.dev[p].queue[0] \in Seq(Packet)
    BY <1>1, DeviceFacts
  <2>2. ASSUME NEW s \in Seq(Packet) PROVE Append(s, frame) # <<>>
    <3>1. Len(Append(s, frame)) = Len(s) + 1 /\ Len(s) \in Nat
      BY <1>1
    <3>. QED  BY <3>1
  <2>. QED  BY <1>1, <1>2, <2>1, <2>2
<1>5. /\ NodeShape(u) /\ u.mmu = v.mmu /\ LosslessSame(v.dev[p], u.dev[p])
      /\ \A r \in Ports : r # p => u.dev[r] = v.dev[r]
      /\ Busy(u, p)
  BY <1>2, <1>3, <1>4, HighPrioEffect DEF DeviceSet
<1>6. LosslessSame(n.dev[p], u.dev[p])
  BY <1>1, <1>2, <1>5 DEF LosslessSame
<1>7. \A r \in Ports : LosslessSame(n.dev[r], u.dev[r]) /\ (u.dev[r] = n.dev[r] \/ Busy(u, r))
  BY <1>2, <1>5, <1>6 DEF LosslessSame, DeviceSet
<1>. QED  BY <1>2, <1>5, <1>7 DEF Kept, DeviceSet, u, frame

LEMMA KeptSelf ==
    ASSUME NEW n, NodeShape(n)
    PROVE  Kept(n, n)
BY DEF Kept, LosslessSame

(* What CheckAndSendPfc and CheckAndSendResume do: the unit's flag, and a  *)
(* frame that disturbs no lossless queue.                                  *)
LEMMA CheckPfcEffect ==
    ASSUME NEW n, NodeShape(n), NEW in \in Ports, NEW q \in Prios
    PROVE  LET u == CheckAndSendPfc(n, in, q)
           IN  /\ Kept(n, u)
               /\ u.mmu = IF CheckShouldPause(n.mmu, in, q) THEN SetPause(n.mmu, in, q) ELSE n.mmu
<1>. DEFINE u == CheckAndSendPfc(n, in, q)
            v == SendPfc(n, in, "pause", q)
<1>1. CASE CheckShouldPause(n.mmu, in, q)
  <2>1. Kept(n, v)
    BY SendPfcEffect
  <2>2. u = [v EXCEPT !.mmu = SetPause(n.mmu, in, q)]
    BY <1>1 DEF CheckAndSendPfc
  <2>. HIDE DEF u, v
  <2>3. NodeShape(u) /\ u.mmu = SetPause(n.mmu, in, q) /\ u.dev = v.dev
    BY <2>1, <2>2, SetMmu DEF Kept
  <2>4. Kept(n, u)
    BY <2>1, <2>3 DEF Kept, Busy
  <2>. QED  BY <1>1, <2>3, <2>4 DEF u
<1>2. CASE ~ CheckShouldPause(n.mmu, in, q)
  <2>1. u = n
    BY <1>2 DEF CheckAndSendPfc
  <2>. QED  BY <1>2, <2>1, KeptSelf
<1>. QED  BY <1>1, <1>2

LEMMA CheckResumeEffect ==
    ASSUME NEW n, NodeShape(n), NEW in \in Ports, NEW q \in Prios
    PROVE  LET u == CheckAndSendResume(n, in, q)
           IN  /\ Kept(n, u)
               /\ u.mmu = IF CheckShouldResume(n.mmu, in, q) THEN SetResume(n.mmu, in, q) ELSE n.mmu
<1>. DEFINE u == CheckAndSendResume(n, in, q)
            v == SendPfc(n, in, "resume", q)
<1>1. CASE CheckShouldResume(n.mmu, in, q)
  <2>1. Kept(n, v)
    BY SendPfcEffect
  <2>2. u = [v EXCEPT !.mmu = SetResume(n.mmu, in, q)]
    BY <1>1 DEF CheckAndSendResume
  <2>. HIDE DEF u, v
  <2>3. NodeShape(u) /\ u.mmu = SetResume(n.mmu, in, q) /\ u.dev = v.dev
    BY <2>1, <2>2, SetMmu DEF Kept
  <2>4. Kept(n, u)
    BY <2>1, <2>3 DEF Kept, Busy
  <2>. QED  BY <1>1, <2>3, <2>4 DEF u
<1>2. CASE ~ CheckShouldResume(n.mmu, in, q)
  <2>1. u = n
    BY <1>2 DEF CheckAndSendResume
  <2>. QED  BY <1>2, <2>1, KeptSelf
<1>. QED  BY <1>1, <1>2

(* The round robin finds a queue whenever one is ready, the next in turn.  *)
LEMMA TurnNat ==
    ASSUME NEW d, d.rrlast \in Queues, NEW q \in Prios
    PROVE  Turn(d, q) \in 0 .. NumPrios
<1>. NumPrios \in Nat \ {0} /\ q \in Int /\ d.rrlast \in Int
  BY MmuAssumption DEF Queues, Prios
<1>. QED  BY DEF Turn

InTurn(d, q) == q \in Ready(d) /\ \A r \in Ready(d) : Turn(d, q) <= Turn(d, r)

LEMMA NextQueueInTurn ==
    ASSUME NEW d, d.rrlast \in Queues, Ready(d) # {}
    PROVE  InTurn(d, NextQueue(d))
<1>. DEFINE T == {Turn(d, q) : q \in Ready(d)}
<1>1. Ready(d) \subseteq Prios
  BY DEF Ready
<1>2. T \subseteq Nat /\ T # {}
  BY <1>1, TurnNat
<1>3. PICK k \in T : \A j \in T : ~ (j < k)
  BY <1>2, LeastNatural
<1>4. PICK q \in Ready(d) : k = Turn(d, q)
  BY <1>3
<1>5. \A r \in Ready(d) : Turn(d, r) \in Nat /\ ~ (Turn(d, r) < Turn(d, q))
  BY <1>2, <1>3, <1>4
<1>6. \A r \in Ready(d) : Turn(d, q) <= Turn(d, r)
  BY <1>5
<1>. QED  BY <1>6 DEF InTurn, NextQueue

(* From n to u device p has served its lossless queue q.                   *)
Served(n, u, p, q) ==
    /\ InTurn(n.dev[p], q)
    /\ NodeShape(u)
    /\ LET pkt == Head(n.dev[p].queue[q])
       IN  u.mmu = Released(n.mmu, pkt.in, p, q, pkt.size)
    /\ \A r \in Ports : r # p => /\ LosslessSame(n.dev[r], u.dev[r])
                                 /\ u.dev[r] = n.dev[r] \/ Busy(u, r)
    /\ Busy(u, p)
    /\ u.dev[p].rrlast = q /\ u.dev[p].paused = n.dev[p].paused
    /\ \A j \in Prios : u.dev[p].queue[j] = IF j = q THEN Tail(n.dev[p].queue[j])
                                            ELSE n.dev[p].queue[j]

LEMMA NotifyEffect ==
    ASSUME NEW n, NodeShape(n), NEW p \in Ports, NEW q \in Prios, NEW pkt \in Lossless
    PROVE  LET u == SwitchNotifyDequeue(n, p, q, pkt)
           IN  Kept(n, u) /\ u.mmu = Released(n.mmu, pkt.in, p, q, pkt.size)
<1>. DEFINE m == RemoveFromEgressAdmission(
                     RemoveFromIngressAdmission(n.mmu, pkt.in, q, pkt.size), p, q, pkt.size)
            v == [n EXCEPT !.mmu = m]
            u == SwitchNotifyDequeue(n, p, q, pkt)
<1>1. pkt.in \in Ports
  BY DEF Lossless
<1>2. u = CheckAndSendResume(v, pkt.in, q)
  BY DEF SwitchNotifyDequeue
<1>3. Released(n.mmu, pkt.in, p, q, pkt.size)
          = IF CheckShouldResume(m, pkt.in, q) THEN SetResume(m, pkt.in, q) ELSE m
  BY DEF Released
<1>. HIDE DEF m
<1>4. NodeShape(v) /\ v.mmu = m /\ v.dev = n.dev
  BY SetMmu
<1>. HIDE DEF u, v
<1>5. /\ Kept(v, u)
      /\ u.mmu = IF CheckShouldResume(m, pkt.in, q) THEN SetResume(m, pkt.in, q) ELSE m
  BY <1>1, <1>2, <1>4, CheckResumeEffect
<1>6. Kept(n, u)
  BY <1>4, <1>5 DEF Kept
<1>. QED  BY <1>3, <1>5, <1>6 DEF u

LEMMA RoundRobinEffect ==
    ASSUME NEW n, NodeShape(n), NEW p \in Ports, ~ Busy(n, p), Ready(n.dev[p]) # {}
    PROVE  \E q \in Prios : Served(n, TransmitRoundRobin(n, p), p, q)
<1>. DEFINE d == n.dev[p]
            q == NextQueue(d)
            s == d.queue[q]
            f == [d.queue EXCEPT ![q] = Tail(s)]
            e == [d EXCEPT !.queue = f, !.rrlast = q]
            v == [n EXCEPT !.dev[p] = e]
            w == SwitchNotifyDequeue(v, p, q, Head(s))
            u == TransmitRoundRobin(n, p)
<1>1. /\ d \in SwitchDevice /\ d.rrlast \in Queues /\ d.queue \in [Queues -> Seq(Packet)]
      /\ \A j \in Prios : d.queue[j] \in Seq(Lossless)
      /\ \A j \in Queues : d.queue[j] \in Seq(Packet)
  BY DeviceFacts
<1>2. InTurn(d, q) /\ q \in Prios /\ s # <<>>
  BY <1>1, NextQueueInTurn DEF InTurn, Ready
<1>3. u = TransmitStart(w, p, Head(s))
  BY DEF TransmitRoundRobin
<1>. HIDE DEF d, q
<1>4. /\ Head(s) \in Lossless /\ Tail(s) \in Seq(Lossless) /\ Tail(s) \in Seq(Packet)
      /\ Head(s) \in Packet /\ q \in Queues
  BY <1>1, <1>2, HeadTailProperties, PacketFacts
<1>. HIDE DEF s
<1>5. f \in QueueSet /\ \A j \in Queues : f[j] = IF j = q THEN Tail(s) ELSE d.queue[j]
  BY <1>1, <1>2, <1>4, PacketFacts DEF QueueSet
<1>. HIDE DEF f
<1>6. e \in SwitchDevice /\ e.queue = f /\ e.rrlast = q /\ e.paused = d.paused
  BY <1>1, <1>4, <1>5 DEF SwitchDevice
<1>. HIDE DEF e
<1>7. DeviceSet(n, v, p, e)
  BY <1>6, SetDevice
<1>. HIDE DEF v
<1>8. /\ Kept(v, w)
      /\ w.mmu = Released(v.mmu, Head(s).in, p, q, Head(s).size)
  BY <1>2, <1>4, <1>7, NotifyEffect DEF DeviceSet
<1>. HIDE DEF w, u
<1>9. /\ DeviceSet(w, u, p, u.dev[p])
      /\ u.dev[p].rrlast = w.dev[p].rrlast /\ u.dev[p].paused = w.dev[p].paused
      /\ u.dev[p].queue = w.dev[p].queue /\ Busy(u, p)
  BY <1>3, <1>4, <1>8, StartEffect DEF Kept
<1>10. /\ u.dev[p].rrlast = q /\ u.dev[p].paused = d.paused
       /\ \A j \in Prios : u.dev[p].queue[j] = IF j = q THEN Tail(s) ELSE d.queue[j]
  <2>1. LosslessSame(e, w.dev[p]) /\ Prios \subseteq Queues
    BY <1>7, <1>8, PacketFacts DEF Kept, DeviceSet
  <2>2. w.dev[p].rrlast = q /\ w.dev[p].paused = d.paused /\ \A j \in Prios : w.dev[p].queue[j] = f[j]
    BY <1>6, <2>1 DEF LosslessSame
  <2>. QED  BY <1>5, <1>9, <2>1, <2>2
<1>11. ASSUME NEW r \in Ports, r # p
       PROVE  LosslessSame(n.dev[r], u.dev[r]) /\ (u.dev[r] = n.dev[r] \/ Busy(u, r))
  <2>1. v.dev[r] = n.dev[r] /\ u.dev[r] = w.dev[r]
    BY <1>7, <1>9, <1>11 DEF DeviceSet
  <2>2. LosslessSame(v.dev[r], w.dev[r]) /\ (w.dev[r] = v.dev[r] \/ Busy(w, r))
    BY <1>8 DEF Kept
  <2>. QED  BY <2>1, <2>2 DEF Busy
<1>12. NodeShape(u) /\ u.mmu = Released(n.mmu, Head(s).in, p, q, Head(s).size)
  BY <1>7, <1>8, <1>9 DEF DeviceSet
<1>13. Served(n, u, p, q)
  BY <1>2, <1>9, <1>10, <1>11, <1>12 DEF Served, d, s
<1>. QED  BY <1>2, <1>13 DEF u

(* A device that could transmit is transmitting.                           *)
Settled(n, p) == ~ Busy(n, p) => n.dev[p].queue[0] = <<>> /\ Ready(n.dev[p]) = {}

(* DequeueAndTransmit settles its device: it was busy, transmits from      *)
(* queue 0, serves a lossless queue, or finds nothing to transmit.         *)
LEMMA DequeueEffect ==
    ASSUME NEW n, NodeShape(n), NEW p \in Ports
    PROVE  LET u == DequeueAndTransmit(n, p)
           IN  /\ NodeShape(u) /\ Settled(u, p)
               /\ \/ Kept(n, u) /\ u.mmu = n.mmu
                  \/ /\ ~ Busy(n, p)
                     /\ \E q \in Prios : Served(n, u, p, q)
<1>. DEFINE u == DequeueAndTransmit(n, p)
<1>1. CASE n.dev[p].queue[0] # <<>>
  <2>1. u = TransmitHighPrio(n, p)
    BY <1>1 DEF DequeueAndTransmit
  <2>. HIDE DEF u
  <2>2. /\ NodeShape(u) /\ u.mmu = n.mmu /\ LosslessSame(n.dev[p], u.dev[p])
        /\ \A r \in Ports : r # p => u.dev[r] = n.dev[r]
        /\ Busy(u, p)
    BY <1>1, <2>1, HighPrioEffect
  <2>3. Kept(n, u)
    BY <2>2 DEF Kept, LosslessSame
  <2>. QED  BY <2>2, <2>3 DEF Settled, u
<1>2. CASE n.dev[p].queue[0] = <<>>
  <2>1. u = TransmitRoundRobin(n, p)
    BY <1>2 DEF DequeueAndTransmit
  <2>2. CASE Busy(n, p) \/ Ready(n.dev[p]) = {}
    <3>1. u = n
      BY <2>1, <2>2 DEF TransmitRoundRobin
    <3>. QED  BY <1>2, <2>2, <3>1, KeptSelf DEF Settled
  <2>3. CASE ~ Busy(n, p) /\ Ready(n.dev[p]) # {}
    <3>1. PICK q \in Prios : Served(n, u, p, q)
      BY <2>1, <2>3, RoundRobinEffect
    <3>2. NodeShape(u) /\ Settled(u, p)
      BY <3>1 DEF Served, Settled
    <3>. QED  BY <2>3, <3>1, <3>2
  <2>. QED  BY <2>2, <2>3
<1>. QED  BY <1>1, <1>2

(* The bytes from a device among the packets of a queue.                   *)
Share(pkt, in) == IF pkt.in = in THEN pkt.size ELSE 0
Bytes(s, in)   == SumTo([k \in 1 .. Len(s) |-> IF s[k].in = in THEN s[k].size ELSE 0], Len(s))

LEMMA ShareNat ==
    ASSUME NEW pkt \in Lossless, NEW in
    PROVE  Share(pkt, in) \in Nat /\ pkt.in \in Ports /\ pkt.size \in Sizes /\ pkt.size \in Nat
BY MmuAssumption DEF Share, Lossless

LEMMA BytesNat ==
    ASSUME NEW s \in Seq(Lossless), NEW in
    PROVE  Bytes(s, in) \in Nat
<1>. DEFINE f == [k \in 1 .. Len(s) |-> IF s[k].in = in THEN s[k].size ELSE 0]
<1>1. \A k \in 1 .. Len(s) : f[k] = Share(s[k], in) /\ s[k] \in Lossless
  BY ElementOfSeq DEF Share
<1>2. Len(s) \in Nat /\ \A k \in 1 .. Len(s) : f[k] \in Nat
  BY <1>1, ShareNat
<1>. HIDE DEF f
<1>3. SumTo(f, Len(s)) \in Nat
  BY <1>2, SumToBounds
<1>. QED  BY <1>3 DEF f, Bytes

LEMMA BytesAppend ==
    ASSUME NEW s \in Seq(Lossless), NEW pkt \in Lossless, NEW in
    PROVE  Bytes(Append(s, pkt), in) = Bytes(s, in) + Share(pkt, in)
<1>. DEFINE t == Append(s, pkt)
            n == Len(s)
            f == [k \in 1 .. Len(s) |-> IF s[k].in = in THEN s[k].size ELSE 0]
            g == [k \in 1 .. Len(t) |-> IF t[k].in = in THEN t[k].size ELSE 0]
<1>1. n \in Nat /\ Len(t) = n + 1 /\ t[n + 1] = pkt /\ \A k \in 1 .. n : t[k] = s[k]
  OBVIOUS
<1>2. Bytes(t, in) = SumTo(g, n + 1) /\ Bytes(s, in) = SumTo(f, n)
  BY <1>1 DEF Bytes
<1>. HIDE DEF t, n
<1>3. (\A k \in 1 .. n : g[k] = f[k]) /\ g[n + 1] = Share(pkt, in)
  BY <1>1 DEF Share, n
<1>. HIDE DEF f, g
<1>4. SumTo(g, n + 1) = SumTo(f, n) + g[n + 1]
  BY <1>1, <1>3, SumToAppend
<1>. QED  BY <1>2, <1>3, <1>4 DEF t

LEMMA BytesTail ==
    ASSUME NEW s \in Seq(Lossless), s # <<>>, NEW in
    PROVE  Bytes(s, in) = Bytes(Tail(s), in) + Share(Head(s), in)
<1>. DEFINE t == Tail(s)
            n == Len(t)
            f == [k \in 1 .. Len(s) |-> IF s[k].in = in THEN s[k].size ELSE 0]
            g == [k \in 1 .. Len(t) |-> IF t[k].in = in THEN t[k].size ELSE 0]
<1>1. /\ t \in Seq(Lossless) /\ Len(t) = Len(s) - 1 /\ \A k \in 1 .. Len(t) : t[k] = s[k + 1]
      /\ Head(s) = s[1]
  BY HeadTailProperties
<1>2. n \in Nat /\ Len(s) = n + 1
  BY <1>1
<1>3. Bytes(s, in) = SumTo(f, n + 1) /\ Bytes(t, in) = SumTo(g, n)
  BY <1>2 DEF Bytes
<1>4. \A k \in 1 .. n + 1 : f[k] = Share(s[k], in) /\ f[k] \in Nat
  <2>1. \A k \in 1 .. n + 1 : f[k] = Share(s[k], in) /\ s[k] \in Lossless
    BY <1>2, ElementOfSeq DEF Share
  <2>. QED  BY <2>1, ShareNat
<1>. HIDE DEF t
<1>5. \A k \in 1 .. n : g[k] = f[k + 1]
  BY <1>1, <1>2
<1>6. f[1] = Share(Head(s), in)
  BY <1>1, <1>2, <1>4
<1>. HIDE DEF f, g, n
<1>7. SumTo(f, n + 1) = SumTo(g, n) + f[1]
  <2>1. \A k \in 1 .. n + 1 : f[k] \in Int
    BY <1>4
  <2>. QED  BY ONLY <1>2, <1>5, <2>1, SumToPrepend, ZenonT(30)
<1>. QED  BY <1>3, <1>6, <1>7 DEF t

(* What waits in the lossless queues is what is resident for the unit.     *)
LEMMA ResidentBytes ==
    ASSUME NEW n, NodeShape(n)
    PROVE  /\ Resident(n) \in [Ports -> PerQueue(Nat)]
           /\ \A i, o \in Ports, q \in Prios :
                  Resident(n)[i][o][q] = Bytes(n.dev[o].queue[q], i)
<1>1. \A i, o \in Ports, q \in Prios : Waiting(n, i, o, q) = Bytes(n.dev[o].queue[q], i)
  BY DEF Waiting, Bytes
<1>2. \A i, o \in Ports, q \in Prios : Waiting(n, i, o, q) \in Nat
  <2>1. \A o \in Ports, q \in Prios : n.dev[o].queue[q] \in Seq(Lossless)
    BY DeviceFacts
  <2>. QED  BY <1>1, <2>1, BytesNat
<1>. QED  BY <1>1, <1>2 DEF Resident, PerQueue

LEMMA ResidentSame ==
    ASSUME NEW n, NEW u,
           \A o \in Ports, q \in Prios : u.dev[o].queue[q] = n.dev[o].queue[q]
    PROVE  Resident(u) = Resident(n)
<1>1. \A i, o \in Ports, q \in Prios : Waiting(u, i, o, q) = Waiting(n, i, o, q)
  BY DEF Waiting
<1>. QED  BY <1>1 DEF Resident

LEMMA ResidentMoved ==
    ASSUME NEW n, NodeShape(n), NEW u, NodeShape(u),
           NEW in \in Ports, NEW out \in Ports, NEW q \in Prios, NEW d \in Int,
           \A o \in Ports, j \in Prios :
               <<o, j>> # <<out, q>> => u.dev[o].queue[j] = n.dev[o].queue[j],
           \A i \in Ports : Bytes(u.dev[out].queue[q], i)
                                = Bytes(n.dev[out].queue[q], i) + IF i = in THEN d ELSE 0
    PROVE  /\ Resident(u) = Moved(Resident(n), in, out, q, d)
           /\ Resident(n)[in][out][q] + d \in Nat
<1>. DEFINE r == Resident(n)
            w == Resident(u)
<1>1. /\ r \in [Ports -> PerQueue(Nat)]
      /\ \A i, o \in Ports, j \in Prios : r[i][o][j] = Bytes(n.dev[o].queue[j], i)
  BY ResidentBytes
<1>2. /\ w \in [Ports -> PerQueue(Nat)]
      /\ \A i, o \in Ports, j \in Prios : w[i][o][j] = Bytes(u.dev[o].queue[j], i)
  BY ResidentBytes
<1>. HIDE DEF r, w
<1>3. /\ \A i, o \in Ports, j \in Prios : r[i][o][j] \in Nat /\ w[i][o][j] \in Nat
      /\ r \in [Ports -> [Ports -> [Prios -> Nat]]] /\ w \in [Ports -> [Ports -> [Prios -> Nat]]]
  BY <1>1, <1>2 DEF PerQueue
<1>4. ASSUME NEW i \in Ports, NEW o \in Ports, NEW j \in Prios
      PROVE  w[i][o][j] = IF i = in /\ o = out /\ j = q THEN r[i][o][j] + d ELSE r[i][o][j]
  <2>1. CASE <<o, j>> = <<out, q>>
    <3>1. o = out /\ j = q
      BY <2>1
    <3>2. w[i][out][q] = Bytes(u.dev[out].queue[q], i) /\ r[i][out][q] = Bytes(n.dev[out].queue[q], i)
      BY <1>1, <1>2
    <3>3. Bytes(u.dev[out].queue[q], i) = Bytes(n.dev[out].queue[q], i) + IF i = in THEN d ELSE 0
      OBVIOUS
    <3>4. r[i][out][q] \in Nat
      BY <1>3
    <3>. QED  BY <3>1, <3>2, <3>3, <3>4
  <2>2. CASE <<o, j>> # <<out, q>>
    BY <1>1, <1>2, <2>2
  <2>. QED  BY <2>1, <2>2
<1>5. r[in][out][q] + d \in Nat
  BY <1>3, <1>4
<1>6. /\ Moved(r, in, out, q, d) \in [Ports -> PerQueue(Nat)]
      /\ \A i, o \in Ports, j \in Prios :
             Moved(r, in, out, q, d)[i][o][j]
                 = IF i = in /\ o = out /\ j = q THEN r[i][o][j] + d ELSE r[i][o][j]
  BY <1>1, <1>5, MovedEntries
<1>. DEFINE v == Moved(r, in, out, q, d)
<1>. HIDE DEF v
<1>7. v \in [Ports -> [Ports -> [Prios -> Nat]]] /\ \A i, o \in Ports, j \in Prios : v[i][o][j] = w[i][o][j]
  BY <1>4, <1>6 DEF v, PerQueue
<1>8. v = w
  BY <1>3, <1>7
<1>. QED  BY <1>5, <1>8 DEF v, r, w

Conserving(n) == \A p \in Ports : Settled(n, p)

LEMMA KeptConserving ==
    ASSUME NEW n, Conserving(n), NEW u, Kept(n, u)
    PROVE  Conserving(u)
BY DEF Conserving, Kept, Settled, Busy

(* A packet for queue 0 disturbs no lossless queue.                        *)
LEMMA BypassEffect ==
    ASSUME NEW n, NodeShape(n), NEW out \in Ports, NEW pkt \in Packet
    PROVE  LET u == DoSwitchSend(n, out, 0, pkt) IN Kept(n, u) /\ u.mmu = n.mmu
<1>. DEFINE v == Enqueue(n, out, 0, pkt)
            u == DoSwitchSend(n, out, 0, pkt)
<1>1. 0 \in Queues /\ 0 \notin Prios /\ Prios \subseteq Queues
  BY PacketFacts
<1>2. /\ DeviceSet(n, v, out, v.dev[out])
      /\ v.dev[out].rrlast = n.dev[out].rrlast /\ v.dev[out].paused = n.dev[out].paused
      /\ \A j \in Queues : v.dev[out].queue[j] = IF j = 0 THEN Append(n.dev[out].queue[0], pkt)
                                                 ELSE n.dev[out].queue[j]
  BY <1>1, EnqueueEffect
<1>3. v.dev[out].queue[0] # <<>>
  <2>1. n.dev[out].queue[0] \in Seq(Packet)
    BY <1>1, DeviceFacts
  <2>2. Append(n.dev[out].queue[0], pkt) # <<>>
    BY <2>1
  <2>. QED  BY <1>1, <1>2, <2>2
<1>4. u = TransmitHighPrio(v, out)
  BY <1>3 DEF DoSwitchSend, SwitchSend, DequeueAndTransmit
<1>. HIDE DEF v, u
<1>5. /\ NodeShape(u) /\ u.mmu = v.mmu /\ LosslessSame(v.dev[out], u.dev[out])
      /\ \A r \in Ports : r # out => u.dev[r] = v.dev[r]
      /\ Busy(u, out)
  BY <1>2, <1>3, <1>4, HighPrioEffect DEF DeviceSet
<1>6. LosslessSame(n.dev[out], u.dev[out])
  BY <1>1, <1>2, <1>5 DEF LosslessSame
<1>7. \A r \in Ports : LosslessSame(n.dev[r], u.dev[r]) /\ (u.dev[r] = n.dev[r] \/ Busy(u, r))
  BY <1>2, <1>5, <1>6 DEF LosslessSame, DeviceSet
<1>. QED  BY <1>2, <1>5, <1>7 DEF Kept, DeviceSet, u

(* An admitted packet waits, or leaves at once when its device is idle;    *)
(* nothing else was waiting then.                                          *)
Queued(n, u, in, out, q, s) ==
    /\ u.mmu = Admitted(n.mmu, in, out, q, s)
    /\ \A r \in Ports : r # out => LosslessSame(n.dev[r], u.dev[r])
    /\ u.dev[out].rrlast = n.dev[out].rrlast /\ u.dev[out].paused = n.dev[out].paused
    /\ \A j \in Prios : u.dev[out].queue[j]
                            = IF j = q THEN Append(n.dev[out].queue[j], DataPacket(in, q, s))
                              ELSE n.dev[out].queue[j]

Forwarded(n, u, in, out, q, s) ==
    /\ u.mmu = Released(Admitted(n.mmu, in, out, q, s), in, out, q, s)
    /\ \A r \in Ports : r # out => LosslessSame(n.dev[r], u.dev[r])
    /\ u.dev[out].rrlast = q /\ u.dev[out].paused = n.dev[out].paused
    /\ \A j \in Prios : u.dev[out].queue[j] = n.dev[out].queue[j]
    /\ Ready(n.dev[out]) = {} /\ n.dev[out].queue[q] = <<>>

LEMMA SendEffect ==
    ASSUME NEW n, NodeShape(n), Conserving(n), NEW in \in Ports, NEW out \in Ports,
           NEW q \in Prios, NEW s \in Sizes, CheckIngressAdmission(n.mmu, in, q, s)
    PROVE  LET u == DoSwitchSend(n, out, q, DataPacket(in, q, s))
           IN  /\ NodeShape(u) /\ Conserving(u)
               /\ Queued(n, u, in, out, q, s) \/ Forwarded(n, u, in, out, q, s)
<1>. DEFINE pkt == DataPacket(in, q, s)
            m == UpdateEgressAdmission(UpdateIngressAdmission(n.mmu, in, q, s), out, q, s)
            a == [n EXCEPT !.mmu = m]
            b == CheckAndSendPfc(a, in, q)
            c == Enqueue(b, out, q, pkt)
            u == DoSwitchSend(n, out, q, pkt)
<1>1. q \in Queues /\ pkt \in Lossless /\ pkt \in Packet /\ q # 0 /\ Prios \subseteq Queues
      /\ 0 \in Queues /\ 0 \notin Prios
  BY PacketFacts
<1>2. pkt.in = in /\ pkt.size = s
  BY DEF DataPacket
<1>3. u = DequeueAndTransmit(c, out)
  BY <1>1, <1>2 DEF DoSwitchSend, SwitchSend
<1>4. Admitted(n.mmu, in, out, q, s) = IF CheckShouldPause(m, in, q) THEN SetPause(m, in, q) ELSE m
  BY DEF Admitted
<1>. HIDE DEF m, pkt, u
<1>5. NodeShape(a) /\ a.mmu = m /\ a.dev = n.dev
  BY SetMmu
<1>. HIDE DEF a
<1>6. Kept(a, b) /\ b.mmu = Admitted(n.mmu, in, out, q, s)
  BY <1>4, <1>5, CheckPfcEffect
<1>7. Kept(n, b)
  BY <1>5, <1>6 DEF Kept
<1>8. Conserving(b)
  BY <1>7, KeptConserving
<1>. HIDE DEF b
<1>9. /\ DeviceSet(b, c, out, c.dev[out])
      /\ c.dev[out].rrlast = b.dev[out].rrlast /\ c.dev[out].paused = b.dev[out].paused
      /\ c.dev[out].current = b.dev[out].current
      /\ \A j \in Queues : c.dev[out].queue[j] = IF j = q THEN Append(b.dev[out].queue[q], pkt)
                                                 ELSE b.dev[out].queue[j]
  BY <1>1, <1>7, EnqueueEffect DEF Kept
<1>. HIDE DEF c
<1>10. LosslessSame(n.dev[out], b.dev[out])
  BY <1>7 DEF Kept
<1>11. /\ NodeShape(u) /\ Settled(u, out)
       /\ \/ Kept(c, u) /\ u.mmu = c.mmu
          \/ /\ ~ Busy(c, out)
             /\ \E x \in Prios : Served(c, u, out, x)
  BY <1>3, <1>9, DequeueEffect DEF DeviceSet
<1>12. ASSUME NEW r \in Ports, r # out
       PROVE  LosslessSame(n.dev[r], u.dev[r]) /\ Settled(u, r)
  <2>1. LosslessSame(c.dev[r], u.dev[r]) /\ (u.dev[r] = c.dev[r] \/ Busy(u, r))
    BY <1>11, <1>12 DEF Kept, Served
  <2>2. LosslessSame(n.dev[r], b.dev[r]) /\ c.dev[r] = b.dev[r]
    BY <1>7, <1>9, <1>12 DEF Kept, DeviceSet
  <2>3. LosslessSame(n.dev[r], u.dev[r])
    BY <2>1, <2>2 DEF LosslessSame
  <2>4. Settled(b, r)
    BY <1>8 DEF Conserving
  <2>. QED  BY <2>1, <2>2, <2>3, <2>4 DEF Settled, Busy
<1>13. Conserving(u)
  BY <1>11, <1>12 DEF Conserving
<1>14. CASE Kept(c, u) /\ u.mmu = c.mmu
  <2>1. u.mmu = Admitted(n.mmu, in, out, q, s)
    BY <1>6, <1>9, <1>14 DEF DeviceSet
  <2>2. LosslessSame(c.dev[out], u.dev[out])
    BY <1>14 DEF Kept
  <2>3. /\ u.dev[out].rrlast = n.dev[out].rrlast /\ u.dev[out].paused = n.dev[out].paused
        /\ \A j \in Prios : u.dev[out].queue[j]
                                = IF j = q THEN Append(n.dev[out].queue[j], pkt)
                                  ELSE n.dev[out].queue[j]
    BY <1>1, <1>9, <1>10, <2>2 DEF LosslessSame
  <2>4. Queued(n, u, in, out, q, s)
    BY <1>12, <2>1, <2>3 DEF Queued, pkt
  <2>. QED  BY <1>11, <1>13, <2>4 DEF u, pkt
<1>15. CASE ~ Busy(c, out) /\ \E x \in Prios : Served(c, u, out, x)
  <2>1. PICK x \in Prios : Served(c, u, out, x)
    BY <1>15
  <2>2. ~ Busy(b, out)
    BY <1>9, <1>15 DEF Busy
  <2>3. Ready(b.dev[out]) = {}
    BY <1>8, <2>2 DEF Conserving, Settled
  <2>4. x \in Ready(c.dev[out])
    BY <2>1 DEF Served, InTurn
  <2>5. x = q /\ b.dev[out].queue[q] = <<>>
    <3>1. ~ c.dev[out].paused[x] /\ c.dev[out].queue[x] # <<>>
      BY <2>4 DEF Ready
    <3>2. ~ b.dev[out].paused[x]
      BY <1>9, <3>1
    <3>3. b.dev[out].queue[x] = <<>>
      BY <2>3, <3>2 DEF Ready
    <3>. QED  BY <1>1, <1>9, <3>1, <3>3
  <2>6. c.dev[out].queue[q] = Append(<<>>, pkt)
    BY <1>1, <1>9, <2>5
  <2>7. Head(c.dev[out].queue[q]) = pkt /\ Tail(c.dev[out].queue[q]) = <<>>
    <3>1. Append(<<>>, pkt) = <<pkt>>
      OBVIOUS
    <3>. QED  BY <2>6, <3>1
  <2>8. u.mmu = Released(Admitted(n.mmu, in, out, q, s), in, out, q, s)
    BY <1>2, <1>6, <1>9, <2>1, <2>5, <2>7 DEF Served, DeviceSet
  <2>9. Ready(n.dev[out]) = {} /\ n.dev[out].queue[q] = <<>>
    BY <1>10, <2>3, <2>5 DEF LosslessSame, Ready
  <2>10. u.dev[out].rrlast = q /\ u.dev[out].paused = c.dev[out].paused
         /\ \A j \in Prios : u.dev[out].queue[j] = IF j = q THEN Tail(c.dev[out].queue[j])
                                                   ELSE c.dev[out].queue[j]
    BY <2>1, <2>5 DEF Served
  <2>11. \A j \in Prios : u.dev[out].queue[j] = n.dev[out].queue[j]
    BY <1>1, <1>9, <1>10, <2>7, <2>9, <2>10 DEF LosslessSame
  <2>12. u.dev[out].paused = n.dev[out].paused
    BY <1>9, <1>10, <2>10 DEF LosslessSame
  <2>13. Forwarded(n, u, in, out, q, s)
    BY <1>12, <2>8, <2>9, <2>10, <2>11, <2>12 DEF Forwarded
  <2>. QED  BY <1>11, <1>13, <2>13 DEF u, pkt
<1>. QED  BY <1>11, <1>14, <1>15

(* A device whose transmission or pause ends, with its queues as they      *)
(* were, serves what it can; a device that is not given that chance has no *)
(* more to serve than before.                                              *)
Offered(n, v, p) ==
    /\ DeviceSet(n, v, p, v.dev[p])
    /\ v.dev[p].queue = n.dev[p].queue /\ v.dev[p].rrlast = n.dev[p].rrlast
    /\ Ready(n.dev[p]) \subseteq Ready(v.dev[p])

SameQueues(n, u) ==
    /\ u.mmu = n.mmu
    /\ \A r \in Ports : /\ u.dev[r].rrlast = n.dev[r].rrlast
                        /\ \A q \in Prios : u.dev[r].queue[q] = n.dev[r].queue[q]

LEMMA OfferedEffect ==
    ASSUME NEW n, NodeShape(n), Conserving(n), NEW p \in Ports, NEW v, Offered(n, v, p)
    PROVE  LET u == DequeueAndTransmit(v, p)
           IN  /\ NodeShape(u) /\ Conserving(u)
               /\ SameQueues(n, u) \/ \E q \in Prios : Served(v, u, p, q)
<1>. DEFINE u == DequeueAndTransmit(v, p)
<1>1. /\ NodeShape(u) /\ Settled(u, p)
      /\ (Kept(v, u) /\ u.mmu = v.mmu) \/ \E q \in Prios : Served(v, u, p, q)
  BY DequeueEffect DEF Offered, DeviceSet
<1>. HIDE DEF u
<1>2. ASSUME NEW r \in Ports, r # p PROVE Settled(u, r)
  <2>1. u.dev[r] = v.dev[r] \/ Busy(u, r)
    BY <1>1, <1>2 DEF Kept, Served
  <2>2. v.dev[r] = n.dev[r] /\ Settled(n, r)
    BY <1>2 DEF Offered, DeviceSet, Conserving
  <2>. QED  BY <2>1, <2>2 DEF Settled, Busy
<1>3. Conserving(u)
  BY <1>1, <1>2 DEF Conserving
<1>4. Kept(v, u) /\ u.mmu = v.mmu => SameQueues(n, u)
  BY DEF Kept, LosslessSame, Offered, DeviceSet, SameQueues
<1>. QED  BY <1>1, <1>3, <1>4 DEF u

(* u is n with f for the pause flags of device p.                          *)
PausesSet(n, u, p, f) ==
    /\ DeviceSet(n, u, p, u.dev[p])
    /\ u.dev[p].queue = n.dev[p].queue /\ u.dev[p].rrlast = n.dev[p].rrlast
    /\ u.dev[p].current = n.dev[p].current /\ u.dev[p].paused = f

LEMMA PausedEffect ==
    ASSUME NEW n, NodeShape(n), NEW p \in Ports, NEW f \in [Prios -> BOOLEAN]
    PROVE  PausesSet(n, [n EXCEPT !.dev[p] = [n.dev[p] EXCEPT !.paused = f]], p, f)
<1>. DEFINE d == n.dev[p]
            e == [d EXCEPT !.paused = f]
<1>1. d \in SwitchDevice
  BY DeviceFacts
<1>. HIDE DEF d
<1>2. e \in SwitchDevice /\ e.queue = d.queue /\ e.rrlast = d.rrlast /\ e.current = d.current
      /\ e.paused = f
  BY <1>1 DEF SwitchDevice
<1>. HIDE DEF e
<1>3. DeviceSet(n, [n EXCEPT !.dev[p] = e], p, e)
  BY <1>2, SetDevice
<1>. QED  BY <1>2, <1>3 DEF DeviceSet, PausesSet, e, d

LEMMA CompletedEffect ==
    ASSUME NEW n, NodeShape(n), NEW p \in Ports
    PROVE  Offered(n, [n EXCEPT !.dev[p].current = NoPacket], p)
<1>. DEFINE d == n.dev[p]
            e == [d EXCEPT !.current = NoPacket]
            v == [n EXCEPT !.dev[p].current = NoPacket]
<1>1. v = [n EXCEPT !.dev[p] = e]
  OBVIOUS
<1>2. d \in SwitchDevice
  BY DeviceFacts
<1>. HIDE DEF d, v
<1>3. e \in SwitchDevice /\ e.queue = d.queue /\ e.rrlast = d.rrlast /\ e.paused = d.paused
  BY <1>2 DEF SwitchDevice
<1>. HIDE DEF e
<1>4. DeviceSet(n, v, p, e)
  BY <1>1, <1>3, SetDevice
<1>. QED  BY <1>3, <1>4 DEF DeviceSet, v, d, Offered, Ready

(* What an event can come to, for the unit and for the lossless queues.    *)
Outcome(n, u) ==
    /\ NodeShape(u) /\ Conserving(u)
    /\ \/ SameQueues(n, u)
       \/ \E in, out \in Ports, q \in Prios, s \in Sizes :
              /\ in # out
              /\ CheckIngressAdmission(n.mmu, in, q, s)
              /\ Queued(n, u, in, out, q, s) \/ Forwarded(n, u, in, out, q, s)
       \/ \E p \in Ports, q \in Prios : \E v : Offered(n, v, p) /\ Served(v, u, p, q)

LEMMA KeptOutcome ==
    ASSUME NEW n, Conserving(n), NEW u, Kept(n, u), u.mmu = n.mmu
    PROVE  Outcome(n, u)
<1>1. SameQueues(n, u) /\ NodeShape(u)
  BY DEF Kept, SameQueues, LosslessSame
<1>. QED  BY <1>1, KeptConserving DEF Outcome

LEMMA DataOutcome ==
    ASSUME NEW n, NodeShape(n), Conserving(n), NEW in \in Ports, NEW out \in Ports, in # out,
           NEW q \in Prios, NEW s \in Sizes
    PROVE  Outcome(n, ReceiveData(n, in, out, q, s))
<1>. DEFINE u == ReceiveData(n, in, out, q, s)
            pkt == DataPacket(in, q, s)
<1>1. pkt \in Packet /\ pkt.in = in /\ pkt.size = s /\ q # 0
  BY PacketFacts DEF DataPacket
<1>2. CASE QueueOf(out, q) = 0
  <2>1. u = DoSwitchSend(n, out, 0, pkt)
    BY <1>2 DEF ReceiveData
  <2>. QED  BY <1>1, <2>1, BypassEffect, KeptOutcome
<1>3. CASE QueueOf(out, q) = q
  <2>1. u = DoSwitchSend(n, out, q, pkt)
    BY <1>3 DEF ReceiveData
  <2>2. CASE CheckIngressAdmission(n.mmu, in, q, s)
    <3>1. /\ NodeShape(u) /\ Conserving(u)
          /\ Queued(n, u, in, out, q, s) \/ Forwarded(n, u, in, out, q, s)
      BY <2>1, <2>2, SendEffect
    <3>. QED  BY <2>2, <3>1 DEF Outcome
  <2>3. CASE ~ CheckIngressAdmission(n.mmu, in, q, s)
    <3>1. u = n
      BY <1>1, <2>1, <2>3 DEF DoSwitchSend
    <3>. QED  BY <3>1, KeptSelf, KeptOutcome
  <2>. QED  BY <2>2, <2>3
<1>. QED  BY <1>2, <1>3 DEF QueueOf

LEMMA OfferedOutcome ==
    ASSUME NEW n, NodeShape(n), Conserving(n), NEW p \in Ports, NEW v, Offered(n, v, p)
    PROVE  Outcome(n, DequeueAndTransmit(v, p))
BY OfferedEffect DEF Outcome

LEMMA PfcOutcome ==
    ASSUME NEW n, NodeShape(n), Conserving(n), NEW p \in Ports, NEW q \in Prios,
           NEW type \in {"pause", "resume"}
    PROVE  Outcome(n, ReceivePfc(n, p, type, q))
<1>. DEFINE u == ReceivePfc(n, p, type, q)
<1>1. n.dev[p].paused \in [Prios -> BOOLEAN]
  BY DeviceFacts
<1>2. CASE type = "pause"
  <2>. DEFINE f == [n.dev[p].paused EXCEPT ![q] = TRUE]
  <2>1. u = [n EXCEPT !.dev[p] = [n.dev[p] EXCEPT !.paused = f]] /\ f \in [Prios -> BOOLEAN]
    BY <1>1, <1>2 DEF ReceivePfc
  <2>. HIDE DEF u, f
  <2>10. PausesSet(n, u, p, f)
    BY <2>1, PausedEffect
  <2>2. /\ DeviceSet(n, u, p, u.dev[p])
        /\ u.dev[p].queue = n.dev[p].queue /\ u.dev[p].rrlast = n.dev[p].rrlast
        /\ u.dev[p].current = n.dev[p].current
        /\ u.dev[p].paused = [n.dev[p].paused EXCEPT ![q] = TRUE]
    BY <2>10 DEF PausesSet, f
  <2>3. SameQueues(n, u)
    BY <2>2 DEF SameQueues, DeviceSet
  <2>4. Ready(u.dev[p]) \subseteq Ready(n.dev[p])
    BY <1>1, <2>2 DEF Ready
  <2>5. Conserving(u)
    BY <2>2, <2>4 DEF Conserving, Settled, Busy, DeviceSet
  <2>. QED  BY <2>2, <2>3, <2>5 DEF Outcome, DeviceSet, u
<1>3. CASE type = "resume"
  <2>. DEFINE v == [n EXCEPT !.dev[p].paused[q] = FALSE]
  <2>1. u = DequeueAndTransmit(v, p)
    BY <1>3 DEF ReceivePfc
  <2>. DEFINE f == [n.dev[p].paused EXCEPT ![q] = FALSE]
  <2>10. v = [n EXCEPT !.dev[p] = [n.dev[p] EXCEPT !.paused = f]] /\ f \in [Prios -> BOOLEAN]
    BY <1>1
  <2>. HIDE DEF v, u, f
  <2>11. PausesSet(n, v, p, f)
    BY <2>10, PausedEffect
  <2>2. /\ DeviceSet(n, v, p, v.dev[p])
        /\ v.dev[p].queue = n.dev[p].queue /\ v.dev[p].rrlast = n.dev[p].rrlast
        /\ v.dev[p].paused = [n.dev[p].paused EXCEPT ![q] = FALSE]
    BY <2>11 DEF PausesSet, f
  <2>3. Ready(n.dev[p]) \subseteq Ready(v.dev[p])
    BY <1>1, <2>2 DEF Ready
  <2>4. Offered(n, v, p)
    BY <2>2, <2>3 DEF Offered
  <2>. QED  BY <2>1, <2>4, OfferedOutcome DEF u
<1>. QED  BY <1>2, <1>3

LEMMA NextOutcome ==
    ASSUME NodeShape(node), Conserving(node), NodeNext
    PROVE  Outcome(node, node') /\ skipped' = Skips(node, node')
<1>1. ASSUME NEW r \in Routes, NEW q \in Prios, NEW s \in Sizes, ArriveData(r[1], r[2], q, s)
      PROVE  Outcome(node, node') /\ skipped' = Skips(node, node')
  <2>1. r[1] \in Ports /\ r[2] \in Ports /\ r[1] # r[2]
    BY RoutesAssumption
  <2>2. node' = ReceiveData(node, r[1], r[2], q, s) /\ skipped' = Skips(node, node')
    BY <1>1 DEF ArriveData, Step
  <2>. QED  BY <2>1, <2>2, DataOutcome
<1>2. ASSUME NEW r \in Routes, ArriveControl(r[1], r[2])
      PROVE  Outcome(node, node') /\ skipped' = Skips(node, node')
  <2>1. r[2] \in Ports /\ Control \in Packet
    BY RoutesAssumption, PacketFacts
  <2>2. node' = DoSwitchSend(node, r[2], 0, Control) /\ skipped' = Skips(node, node')
    BY <1>2 DEF ArriveControl, ReceiveControl, Step
  <2>. QED  BY <2>1, <2>2, BypassEffect, KeptOutcome
<1>3. ASSUME NEW p \in Ports, NEW q \in Prios, ArrivePfc(p, q)
      PROVE  Outcome(node, node') /\ skipped' = Skips(node, node')
  <2>. DEFINE type == IF node.dev[p].paused[q] THEN "resume" ELSE "pause"
  <2>1. type \in {"pause", "resume"}
    OBVIOUS
  <2>2. node' = ReceivePfc(node, p, type, q) /\ skipped' = Skips(node, node')
    BY <1>3 DEF ArrivePfc, Step
  <2>. HIDE DEF type
  <2>. QED  BY <2>1, <2>2, PfcOutcome
<1>4. ASSUME NEW p \in Ports, Complete(p)
      PROVE  Outcome(node, node') /\ skipped' = Skips(node, node')
  <2>. DEFINE v == [node EXCEPT !.dev[p].current = NoPacket]
  <2>1. node' = DequeueAndTransmit(v, p) /\ skipped' = Skips(node, node')
    BY <1>4 DEF Complete, TransmitComplete, Step
  <2>2. Offered(node, v, p)
    BY CompletedEffect
  <2>. QED  BY <2>1, <2>2, OfferedOutcome
<1>. QED  BY <1>1, <1>2, <1>3, <1>4 DEF NodeNext

(* What an event means for the unit: a step of SwitchMmu, or nothing.      *)
UnitStep(n, u) ==
    \/ u.mmu = n.mmu /\ Resident(u) = Resident(n)
    \/ \E in, out \in Ports, q \in Prios, s \in Sizes :
           \/ /\ CheckIngressAdmission(n.mmu, in, q, s)
              /\ u.mmu = Admitted(n.mmu, in, out, q, s)
              /\ Resident(u) = Moved(Resident(n), in, out, q, s)
           \/ /\ s <= Resident(n)[in][out][q]
              /\ u.mmu = Released(n.mmu, in, out, q, s)
              /\ Resident(u) = Moved(Resident(n), in, out, q, -s)
           \/ /\ CheckIngressAdmission(n.mmu, in, q, s)
              /\ u.mmu = Released(Admitted(n.mmu, in, out, q, s), in, out, q, s)
              /\ Resident(u) = Resident(n)

(* Admitting and releasing the same packet leaves what is resident.        *)
LEMMA MovedBack ==
    ASSUME NEW r \in [Ports -> PerQueue(Nat)], NEW in \in Ports, NEW out \in Ports,
           NEW q \in Prios, NEW s \in Nat
    PROVE  /\ Moved(Moved(r, in, out, q, s), in, out, q, -s) = r
           /\ Moved(r, in, out, q, s)[in][out][q] = r[in][out][q] + s
           /\ r[in][out][q] \in Nat
<1>. DEFINE a == Moved(r, in, out, q, s)
            b == Moved(a, in, out, q, -s)
<1>1. /\ \A i, o \in Ports, j \in Prios : r[i][o][j] \in Nat
      /\ r[in][out][q] + s \in Nat
  BY DEF PerQueue
<1>2. /\ a \in [Ports -> PerQueue(Nat)]
      /\ \A i, o \in Ports, j \in Prios :
             a[i][o][j] = IF i = in /\ o = out /\ j = q THEN r[i][o][j] + s ELSE r[i][o][j]
  BY <1>1, MovedEntries
<1>. HIDE DEF a
<1>3. a[in][out][q] = r[in][out][q] + s /\ a[in][out][q] + (-s) = r[in][out][q]
  BY <1>1, <1>2
<1>4. a[in][out][q] + (-s) \in Nat /\ -s \in Int
  BY <1>1, <1>3
<1>5. /\ b \in [Ports -> PerQueue(Nat)]
      /\ \A i, o \in Ports, j \in Prios :
             b[i][o][j] = IF i = in /\ o = out /\ j = q THEN a[i][o][j] + (-s) ELSE a[i][o][j]
  BY <1>2, <1>4, MovedEntries
<1>. HIDE DEF b
<1>6. \A i, o \in Ports, j \in Prios : b[i][o][j] = r[i][o][j]
  BY <1>2, <1>3, <1>5
<1>7. b = r
  BY <1>5, <1>6 DEF PerQueue
<1>. QED  BY <1>1, <1>3, <1>7 DEF a, b

LEMMA UnitKept ==
    ASSUME NEW n, NodeShape(n), IInv(n.mmu, Resident(n)), NEW u, Outcome(n, u)
    PROVE  UnitStep(n, u) /\ IInv(u.mmu, Resident(u))
<1>0. NodeShape(u) /\ Sizes \subseteq Nat \ {0}
  BY MmuAssumption DEF Outcome
<1>1. CASE SameQueues(n, u)
  <2>1. u.mmu = n.mmu /\ Resident(u) = Resident(n)
    BY <1>1, ResidentSame DEF SameQueues
  <2>. QED  BY <2>1 DEF UnitStep
<1>2. ASSUME NEW in \in Ports, NEW out \in Ports, NEW q \in Prios, NEW s \in Sizes,
             CheckIngressAdmission(n.mmu, in, q, s), Queued(n, u, in, out, q, s)
      PROVE  UnitStep(n, u) /\ IInv(u.mmu, Resident(u))
  <2>. DEFINE pkt == DataPacket(in, q, s)
  <2>1. pkt \in Lossless /\ pkt.in = in /\ pkt.size = s
    BY PacketFacts DEF DataPacket
  <2>2. n.dev[out].queue[q] \in Seq(Lossless)
    BY DeviceFacts
  <2>3. u.dev[out].queue[q] = Append(n.dev[out].queue[q], pkt)
    BY <1>2 DEF Queued
  <2>. HIDE DEF pkt
  <2>4. \A i \in Ports : Bytes(u.dev[out].queue[q], i)
                             = Bytes(n.dev[out].queue[q], i) + IF i = in THEN s ELSE 0
    BY <2>1, <2>2, <2>3, BytesAppend DEF Share
  <2>5. \A o \in Ports, j \in Prios :
            <<o, j>> # <<out, q>> => u.dev[o].queue[j] = n.dev[o].queue[j]
    BY <1>2 DEF Queued, LosslessSame
  <2>6. s \in Int
    BY <1>0
  <2>7. Resident(u) = Moved(Resident(n), in, out, q, s)
    BY <1>0, <2>4, <2>5, <2>6, ResidentMoved
  <2>8. u.mmu = Admitted(n.mmu, in, out, q, s)
    BY <1>2 DEF Queued
  <2>9. IInv(u.mmu, Resident(u))
    BY <1>2, <2>7, <2>8, AdmittedInv
  <2>. QED  BY <1>2, <2>7, <2>8, <2>9 DEF UnitStep
<1>3. ASSUME NEW in \in Ports, NEW out \in Ports, NEW q \in Prios, NEW s \in Sizes,
             CheckIngressAdmission(n.mmu, in, q, s), Forwarded(n, u, in, out, q, s)
      PROVE  UnitStep(n, u) /\ IInv(u.mmu, Resident(u))
  <2>. DEFINE r == Resident(n)
  <2>1. r \in [Ports -> PerQueue(Nat)] /\ s \in Nat
    BY <1>0, ResidentBytes
  <2>2. Resident(u) = r
    <3>1. \A o \in Ports, j \in Prios : u.dev[o].queue[j] = n.dev[o].queue[j]
      BY <1>3 DEF Forwarded, LosslessSame
    <3>. QED  BY <3>1, ResidentSame
  <2>3. u.mmu = Released(Admitted(n.mmu, in, out, q, s), in, out, q, s)
    BY <1>3 DEF Forwarded
  <2>. HIDE DEF r
  <2>4. IInv(Admitted(n.mmu, in, out, q, s), Moved(r, in, out, q, s))
    BY <1>3, AdmittedInv DEF r
  <2>5. /\ Moved(Moved(r, in, out, q, s), in, out, q, -s) = r
        /\ s <= Moved(r, in, out, q, s)[in][out][q]
    BY <2>1, MovedBack
  <2>6. IInv(u.mmu, r)
    BY <2>3, <2>4, <2>5, ReleasedInv
  <2>. QED  BY <1>3, <2>2, <2>3, <2>6 DEF UnitStep, r
<1>4. ASSUME NEW p \in Ports, NEW q \in Prios, NEW v, Offered(n, v, p), Served(v, u, p, q)
      PROVE  UnitStep(n, u) /\ IInv(u.mmu, Resident(u))
  <2>. DEFINE s == n.dev[p].queue[q]
              pkt == Head(s)
  <2>1. s \in Seq(Lossless) /\ v.dev[p].queue[q] = s /\ v.mmu = n.mmu
    BY <1>4, DeviceFacts DEF Offered, DeviceSet
  <2>2. s # <<>>
    BY <1>4, <2>1 DEF Served, InTurn, Ready
  <2>3. /\ u.mmu = Released(n.mmu, pkt.in, p, q, pkt.size)
        /\ u.dev[p].queue[q] = Tail(s)
    BY <1>4, <2>1 DEF Served
  <2>4. \A o \in Ports, j \in Prios :
            <<o, j>> # <<p, q>> => u.dev[o].queue[j] = n.dev[o].queue[j]
    <3>. SUFFICES ASSUME NEW o \in Ports, NEW j \in Prios, <<o, j>> # <<p, q>>
                  PROVE  u.dev[o].queue[j] = n.dev[o].queue[j]
      OBVIOUS
    <3>1. CASE o = p
      <4>1. j # q /\ v.dev[p].queue = n.dev[p].queue
        BY <1>4, <3>1 DEF Offered
      <4>. QED  BY <1>4, <3>1, <4>1 DEF Served
    <3>2. CASE o # p
      <4>1. v.dev[o] = n.dev[o] /\ LosslessSame(v.dev[o], u.dev[o])
        BY <1>4, <3>2 DEF Offered, DeviceSet, Served
      <4>. QED  BY <4>1 DEF LosslessSame
    <3>. QED  BY <3>1, <3>2
  <2>5. pkt \in Lossless /\ Tail(s) \in Seq(Lossless)
    BY <2>1, <2>2, HeadTailProperties
  <2>6. \A i \in Ports : Bytes(s, i) = Bytes(Tail(s), i) + Share(pkt, i)
    BY <2>1, <2>2, BytesTail
  <2>. HIDE DEF pkt
  <2>. DEFINE in == pkt.in
              z == pkt.size
  <2>7. in \in Ports /\ z \in Sizes /\ z \in Nat /\ -z \in Int
    BY <2>5, ShareNat
  <2>8. \A i \in Ports : Bytes(u.dev[p].queue[q], i) = Bytes(s, i) + IF i = in THEN -z ELSE 0
    <3>. SUFFICES ASSUME NEW i \in Ports
                  PROVE  Bytes(Tail(s), i) = Bytes(s, i) + IF i = in THEN -z ELSE 0
      BY <2>3
    <3>1. Bytes(Tail(s), i) \in Nat /\ Bytes(s, i) \in Nat
      BY <2>1, <2>5, BytesNat
    <3>2. Bytes(s, i) = Bytes(Tail(s), i) + IF i = in THEN z ELSE 0
      BY <2>6 DEF Share
    <3>. QED  BY <2>7, <3>1, <3>2
  <2>. HIDE DEF in, z, s
  <2>9. \A i \in Ports : Bytes(u.dev[p].queue[q], i)
                             = Bytes(n.dev[p].queue[q], i) + IF i = in THEN -z ELSE 0
    BY <2>8 DEF s
  <2>10. /\ Resident(u) = Moved(Resident(n), in, p, q, -z)
         /\ Resident(n)[in][p][q] + (-z) \in Nat
    <3>. DEFINE d == -z
    <3>1. d \in Int /\ \A i \in Ports : Bytes(u.dev[p].queue[q], i)
                             = Bytes(n.dev[p].queue[q], i) + IF i = in THEN d ELSE 0
      BY <2>7, <2>9
    <3>2. in \in Ports
      BY <2>7
    <3>. HIDE DEF d
    <3>3. /\ Resident(u) = Moved(Resident(n), in, p, q, d)
          /\ Resident(n)[in][p][q] + d \in Nat
      BY <1>0, <2>4, <3>1, <3>2, ResidentMoved
    <3>. QED  BY <3>3 DEF d
  <2>11. z <= Resident(n)[in][p][q]
    <3>1. Resident(n)[in][p][q] \in Nat
      <4>1. Resident(n) \in [Ports -> PerQueue(Nat)]
        BY ResidentBytes
      <4>. QED  BY <2>7, <4>1 DEF PerQueue
    <3>. QED  BY <2>7, <2>10, <3>1
  <2>12. u.mmu = Released(n.mmu, in, p, q, z)
    BY <2>3 DEF in, z
  <2>13. IInv(u.mmu, Resident(u))
    BY <2>7, <2>10, <2>11, <2>12, ReleasedInv
  <2>. QED  BY <2>7, <2>10, <2>11, <2>12, <2>13 DEF UnitStep
<1>. QED  BY <1>1, <1>2, <1>3, <1>4 DEF Outcome

(* The operators of the unit as module SwitchMmu has them are those of     *)
(* module Mmu: nothing they depend on is renamed.                          *)
LEMMA SameUnit ==
    /\ Unit!Ports = Ports /\ Unit!Prios = Prios /\ Unit!EmptyMmu = EmptyMmu
    /\ \A m, p, q, s :
           Unit!CheckIngressAdmission(m, p, q, s) = CheckIngressAdmission(m, p, q, s)
    /\ \A m, in, out, q, s : Unit!Admitted(m, in, out, q, s) = Admitted(m, in, out, q, s)
    /\ \A m, in, out, q, s : Unit!Released(m, in, out, q, s) = Released(m, in, out, q, s)
<1>1. Unit!Ports = Ports /\ Unit!Prios = Prios
  BY DEF Unit!Ports, Unit!Prios, Ports, Prios
<1>2. Unit!EmptyMmu = EmptyMmu
  BY <1>1 DEF Unit!EmptyMmu, EmptyMmu
<1>3. \A f, n : Unit!SumTo(f, n) = SumTo(f, n)
  BY DEF Unit!SumTo, Unit!PartialSums, SumTo, PartialSums
<1>4. Unit!total_hdrm = total_hdrm /\ Unit!total_rsrv = total_rsrv
  BY <1>3 DEF Unit!total_hdrm, Unit!total_rsrv, total_hdrm, total_rsrv
<1>5. \A x, y : Unit!Minus(x, y) = Minus(x, y) /\ Unit!MinOf(x, y) = MinOf(x, y)
  BY DEF Unit!Minus, Minus, Unit!MinOf, MinOf
<1>6. \A m, p : Unit!GetPfcThreshold(m, p) = GetPfcThreshold(m, p)
  BY <1>4, <1>5 DEF Unit!GetPfcThreshold, GetPfcThreshold, Unit!SharedPool, SharedPool
<1>7. \A m, p, q : Unit!GetSharedUsed(m, p, q) = GetSharedUsed(m, p, q)
  BY DEF Unit!GetSharedUsed, GetSharedUsed
<1>8. \A m, p, q, s : Unit!CheckIngressAdmission(m, p, q, s) = CheckIngressAdmission(m, p, q, s)
  BY <1>6, <1>7 DEF Unit!CheckIngressAdmission, CheckIngressAdmission
<1>9. \A m, p, q, s : Unit!UpdateIngressAdmission(m, p, q, s) = UpdateIngressAdmission(m, p, q, s)
  <2>. SUFFICES ASSUME NEW m, NEW p, NEW q, NEW s
                PROVE  Unit!UpdateIngressAdmission(m, p, q, s) = UpdateIngressAdmission(m, p, q, s)
    OBVIOUS
  <2>. DEFINE n == m.ingress_bytes[p][q] + s
  <2>1. /\ Unit!GetPfcThreshold(m, p) = GetPfcThreshold(m, p)
        /\ Unit!MinOf(s, n - reserve) = MinOf(s, n - reserve)
    BY <1>5, <1>6
  <2>. QED  BY <2>1, Zenon DEF Unit!UpdateIngressAdmission, UpdateIngressAdmission
<1>10. \A m, p, q, s : Unit!UpdateEgressAdmission(m, p, q, s) = UpdateEgressAdmission(m, p, q, s)
  BY DEF Unit!UpdateEgressAdmission, UpdateEgressAdmission
<1>11. \A m, p, q, s : Unit!RemoveFromIngressAdmission(m, p, q, s) = RemoveFromIngressAdmission(m, p, q, s)
  <2>. SUFFICES ASSUME NEW m, NEW p, NEW q, NEW s
                PROVE  Unit!RemoveFromIngressAdmission(m, p, q, s) = RemoveFromIngressAdmission(m, p, q, s)
    OBVIOUS
  <2>. DEFINE fh == MinOf(m.hdrm_bytes[p][q], s)
              fs == MinOf(s - fh, GetSharedUsed(m, p, q))
  <2>1. /\ Unit!GetSharedUsed(m, p, q) = GetSharedUsed(m, p, q)
        /\ Unit!MinOf(m.hdrm_bytes[p][q], s) = fh
        /\ Unit!MinOf(s - fh, GetSharedUsed(m, p, q)) = fs
        /\ Unit!Minus(m.ingress_bytes[p][q], s - fh) = Minus(m.ingress_bytes[p][q], s - fh)
        /\ Unit!Minus(m.shared_used_bytes, fs) = Minus(m.shared_used_bytes, fs)
    BY <1>5, <1>7
  <2>2. Unit!RemoveFromIngressAdmission(m, p, q, s)
            = [m EXCEPT !.hdrm_bytes[p][q] = @ - fh,
                        !.ingress_bytes[p][q] = Unit!Minus(@, s - fh),
                        !.shared_used_bytes = Unit!Minus(@, fs)]
    BY <2>1, Zenon DEF Unit!RemoveFromIngressAdmission
  <2>. QED  BY <2>1, <2>2, Zenon DEF RemoveFromIngressAdmission
<1>12. \A m, p, q, s : Unit!RemoveFromEgressAdmission(m, p, q, s) = RemoveFromEgressAdmission(m, p, q, s)
  <2>. SUFFICES ASSUME NEW m, NEW p, NEW q, NEW s
                PROVE  Unit!RemoveFromEgressAdmission(m, p, q, s) = RemoveFromEgressAdmission(m, p, q, s)
    OBVIOUS
  <2>1. Unit!Minus(m.egress_bytes[p][q], s) = Minus(m.egress_bytes[p][q], s)
    BY <1>5
  <2>. QED  BY <2>1, Zenon DEF Unit!RemoveFromEgressAdmission, RemoveFromEgressAdmission
<1>13. \A m, p, q : /\ Unit!CheckShouldPause(m, p, q) = CheckShouldPause(m, p, q)
                    /\ Unit!CheckShouldResume(m, p, q) = CheckShouldResume(m, p, q)
                    /\ Unit!SetPause(m, p, q) = SetPause(m, p, q)
                    /\ Unit!SetResume(m, p, q) = SetResume(m, p, q)
  BY <1>6, <1>7 DEF Unit!CheckShouldPause, CheckShouldPause, Unit!CheckShouldResume, CheckShouldResume,
                    Unit!SetPause, SetPause, Unit!SetResume, SetResume
<1>14. \A m, in, out, q, s : Unit!Admitted(m, in, out, q, s) = Admitted(m, in, out, q, s)
  BY <1>9, <1>10, <1>13 DEF Unit!Admitted, Admitted
<1>15. \A m, in, out, q, s : Unit!Released(m, in, out, q, s) = Released(m, in, out, q, s)
  BY <1>11, <1>12, <1>13 DEF Unit!Released, Released
<1>. QED  BY <1>1, <1>2, <1>8, <1>14, <1>15

(* The inductive invariant of the switch.                                  *)
SwitchInv(n) == NodeShape(n) /\ Conserving(n) /\ IInv(n.mmu, Resident(n))

LEMMA SwitchInit == NodeInit => SwitchInv(node) /\ Resident(node) = NothingResident
<1>. SUFFICES ASSUME NodeInit PROVE SwitchInv(node) /\ Resident(node) = NothingResident
  OBVIOUS
<1>1. /\ node = [mmu |-> EmptyMmu, dev |-> node.dev]
      /\ node.mmu = EmptyMmu
      /\ node.dev = [p \in Ports |-> [queue   |-> [q \in Queues |-> <<>>],
                                      rrlast  |-> 0,
                                      paused  |-> [q \in Prios |-> FALSE],
                                      current |-> NoPacket]]
  BY DEF NodeInit, InitNode
<1>2. [q \in Queues |-> <<>>] \in QueueSet
  BY PacketFacts DEF QueueSet
<1>3. NodeShape(node)
  BY <1>1, <1>2, PacketFacts DEF NodeShape, SwitchDevice
<1>4. \A p \in Ports : \A q \in Queues : node.dev[p].queue[q] = <<>>
  BY <1>1
<1>5. Conserving(node)
  BY <1>4, PacketFacts DEF Conserving, Settled, Ready
<1>6. \A o \in Ports, q \in Prios, i \in Ports : Waiting(node, i, o, q) = 0
  <2>. SUFFICES ASSUME NEW o \in Ports, NEW q \in Prios, NEW i \in Ports
                PROVE  Waiting(node, i, o, q) = 0
    OBVIOUS
  <2>. DEFINE s == node.dev[o].queue[q]
              f == [k \in 1 .. Len(s) |-> IF s[k].in = i THEN s[k].size ELSE 0]
  <2>1. s = <<>> /\ Len(s) = 0
    BY <1>4, PacketFacts
  <2>2. Waiting(node, i, o, q) = SumTo(f, 0)
    BY <2>1 DEF Waiting
  <2>. HIDE DEF f
  <2>. QED  BY <2>2, SumToZero
<1>7. Resident(node) = NothingResident
  BY <1>6 DEF Resident, NothingResident
<1>. QED  BY <1>1, <1>3, <1>5, <1>7, EmptyInv DEF SwitchInv

LEMMA SwitchNext == SwitchInv(node) /\ [NodeNext]_nodeVars => SwitchInv(node)'
<1>. SUFFICES ASSUME SwitchInv(node), [NodeNext]_nodeVars PROVE SwitchInv(node')
  BY DEF SwitchInv
<1>1. CASE NodeNext
  <2>1. Outcome(node, node')
    BY <1>1, NextOutcome DEF SwitchInv
  <2>2. IInv(node.mmu', Resident(node'))
    BY <2>1, UnitKept DEF SwitchInv
  <2>. QED  BY <2>1, <2>2 DEF SwitchInv, Outcome
<1>2. CASE UNCHANGED nodeVars
  BY <1>2 DEF nodeVars
<1>. QED  BY <1>1, <1>2

THEOREM SwitchInvariant == NodeSpec => []SwitchInv(node)
<1>1. NodeInit => SwitchInv(node)
  BY SwitchInit
<1>. QED  BY <1>1, SwitchNext, PTL DEF NodeSpec

(* A device that could transmit is transmitting, whatever the traffic, the *)
(* pauses and the configuration.                                           *)
THEOREM AlwaysConserving == NodeSpec => []WorkConserving
<1>1. SwitchInv(node) => WorkConserving
  BY DEF SwitchInv, Conserving, Settled, WorkConserving
<1>. QED  BY <1>1, SwitchInvariant, PTL

(* The switch drives its unit as module SwitchMmu assumes, so everything   *)
(* proved of the unit on its own holds of the unit inside the switch.      *)
THEOREM ImplementsUnit == NodeSpec => DrivesUnit
<1>1. NodeInit => Unit!Init
  <2>1. NodeInit => node.mmu = EmptyMmu
    BY DEF NodeInit, InitNode
  <2>. QED  BY <2>1, SwitchInit, SameUnit DEF Unit!Init, NothingResident
<1>2. SwitchInv(node) /\ [NodeNext]_nodeVars => [Unit!Next]_(Unit!vars)
  <2>. SUFFICES ASSUME SwitchInv(node), [NodeNext]_nodeVars PROVE [Unit!Next]_(Unit!vars)
    OBVIOUS
  <2>1. CASE UNCHANGED nodeVars
    BY <2>1 DEF nodeVars, Unit!vars, Resident, Waiting
  <2>2. CASE NodeNext
    <3>1. UnitStep(node, node')
      BY <2>2, NextOutcome, UnitKept DEF SwitchInv
    <3>2. Resident(node)' = Resident(node')
      BY DEF Resident, Waiting
    <3>3. \A i, o \in Ports, q \in Prios : Resident(node)[i][o][q] \in Nat
      <4>1. Resident(node) \in [Ports -> PerQueue(Nat)]
        BY ResidentBytes DEF SwitchInv
      <4>. QED  BY <4>1 DEF PerQueue
    <3>4. CASE node.mmu' = node.mmu /\ Resident(node') = Resident(node)
      BY <3>2, <3>4 DEF Unit!vars
    <3>5. ASSUME NEW in \in Ports, NEW out \in Ports, NEW q \in Prios, NEW s \in Sizes,
                 CheckIngressAdmission(node.mmu, in, q, s),
                 node'.mmu = Admitted(node.mmu, in, out, q, s),
                 Resident(node') = Moved(Resident(node), in, out, q, s)
          PROVE  Unit!Admit(in, out, q, s)
      BY <3>2, <3>5, SameUnit DEF Unit!Admit, Moved
    <3>6. ASSUME NEW in \in Ports, NEW out \in Ports, NEW q \in Prios, NEW s \in Sizes,
                 s <= Resident(node)[in][out][q],
                 node'.mmu = Released(node.mmu, in, out, q, s),
                 Resident(node') = Moved(Resident(node), in, out, q, -s)
          PROVE  Unit!Release(in, out, q, s)
      <4>1. Resident(node)[in][out][q] + (-s) = Resident(node)[in][out][q] - s
        BY <3>3, MmuAssumption
      <4>. QED  BY <3>2, <3>6, <4>1, SameUnit DEF Unit!Release, Moved
    <3>7. ASSUME NEW in \in Ports, NEW out \in Ports, NEW q \in Prios, NEW s \in Sizes,
                 CheckIngressAdmission(node.mmu, in, q, s),
                 node'.mmu = Released(Admitted(node.mmu, in, out, q, s), in, out, q, s),
                 Resident(node') = Resident(node)
          PROVE  Unit!Forward(in, out, q, s)
      BY <3>2, <3>7, SameUnit DEF Unit!Forward
    <3>. QED  BY <3>1, <3>4, <3>5, <3>6, <3>7, SameUnit DEF UnitStep, Unit!Next
  <2>. QED  BY <2>1, <2>2
<1>. QED  BY <1>1, <1>2, SwitchInvariant, PTL DEF NodeSpec, DrivesUnit, Unit!Spec

(* Inside the switch as on its own, the unit refuses a packet only after   *)
(* DoSwitchSend has paused the device it came from.                        *)
THEOREM SwitchDropsOnlyPaused ==
    NodeSpec => [](\A p \in Ports, q \in Prios, s \in Sizes :
                       ~ CheckIngressAdmission(node.mmu, p, q, s) => node.mmu.paused[p][q])
<1>1. SwitchInv(node) => \A p \in Ports, q \in Prios, s \in Sizes :
                             ~ CheckIngressAdmission(node.mmu, p, q, s) => node.mmu.paused[p][q]
  BY RefusedIsPaused DEF SwitchInv
<1>. QED  BY <1>1, SwitchInvariant, PTL

(* How many lossless queues the round robin looks at before q, when it has *)
(* served l last.                                                          *)
Dist(l, q) == IF l < q THEN q - l - 1 ELSE q - l - 1 + NumPrios

LEMMA DistBounds ==
    ASSUME NEW l \in Queues, NEW q \in Prios
    PROVE  Dist(l, q) \in 0 .. NumPrios - 1
BY MmuAssumption DEF Dist, Queues, Prios

LEMMA SmallModulo ==
    ASSUME NEW m \in Nat \ {0}, NEW a \in Int, -m <= a, a < m
    PROVE  a % m = IF a < 0 THEN a + m ELSE a
<1>. DEFINE k == a \div m
<1>1. k \in Int /\ a = m * k + (a % m) /\ a % m \in 0 .. m - 1
  OBVIOUS
<1>. HIDE DEF k
<1>2. CASE k >= 1
  <2>1. m * k >= m
    BY <1>1, <1>2
  <2>. QED  BY <1>1, <2>1
<1>3. CASE k = 0
  BY <1>1, <1>3
<1>4. CASE k = -1
  BY <1>1, <1>4
<1>5. CASE k <= -2
  <2>1. m * k <= m * (-2)
    BY <1>1, <1>5
  <2>. QED  BY <1>1, <2>1
<1>. QED  BY <1>1, <1>2, <1>3, <1>4, <1>5

(* Serving another queue first brings q nearer.                            *)
LEMMA Nearer ==
    ASSUME NEW d, d.rrlast \in Queues, NEW x \in Prios, NEW q \in Prios, x # q,
           Turn(d, x) <= Turn(d, q)
    PROVE  Dist(x, q) < Dist(d.rrlast, q)
<1>. DEFINE l == d.rrlast
<1>1. /\ NumPrios \in Nat \ {0} /\ l \in Int /\ 0 <= l /\ l <= NumPrios
      /\ x \in Int /\ 1 <= x /\ x <= NumPrios
      /\ q \in Int /\ 1 <= q /\ q <= NumPrios
  BY MmuAssumption DEF Queues, Prios
<1>. HIDE DEF l
<1>2. ASSUME NEW j \in Int, 1 <= j, j <= NumPrios
      PROVE  (j - l - 1) % (NumPrios + 1) = IF l < j THEN j - l - 1 ELSE j - l + NumPrios
  <2>. DEFINE m == NumPrios + 1
              a == j - l - 1
  <2>1. m \in Nat \ {0} /\ a \in Int /\ -m <= a /\ a < m
    BY <1>1, <1>2
  <2>2. (a < 0 <=> ~ (l < j)) /\ a + m = j - l + NumPrios
    BY <1>1, <1>2
  <2>3. a % m = IF a < 0 THEN a + m ELSE a
    <3>. HIDE DEF a, m
    <3>. QED  BY <2>1, SmallModulo
  <2>. QED  BY <2>2, <2>3
<1>3. /\ Turn(d, x) = IF l < x THEN x - l - 1 ELSE x - l + NumPrios
      /\ Turn(d, q) = IF l < q THEN q - l - 1 ELSE q - l + NumPrios
  BY <1>1, <1>2 DEF Turn, l
<1>4. (IF l < x THEN x - l - 1 ELSE x - l + NumPrios)
          <= (IF l < q THEN q - l - 1 ELSE q - l + NumPrios)
  BY <1>3
<1>5. Dist(x, q) < Dist(l, q)
  BY <1>1, <1>4 DEF Dist
<1>. QED  BY <1>5 DEF l

(* A queue that is ready has been skipped less often than the round robin  *)
(* has come nearer to it.                                                  *)
FairDevice(d, sk) ==
    \A q \in Prios : /\ sk[q] \in Nat
                     /\ q \notin Ready(d) => sk[q] = 0
                     /\ sk[q] + Dist(d.rrlast, q) <= NumPrios - 1

(* A step of a device from d to e either serves no lossless queue, or the  *)
(* one whose turn it is.                                                   *)
Shorter(d, e, q) == Len(e.queue[q]) < Len(d.queue[q])

NoneServed(d, e) == e.rrlast = d.rrlast /\ \A q \in Prios : ~ Shorter(d, e, q)

OneServed(d, e, x) ==
    /\ e.rrlast = x
    /\ \A r \in Ready(d) : Turn(d, x) <= Turn(d, r)
    /\ \A q \in Prios : q # x => ~ Shorter(d, e, q)
    /\ Shorter(d, e, x) \/ x \notin Ready(e)

LEMMA FairStep ==
    ASSUME NEW n, NodeShape(n), NEW u, NodeShape(u), NEW p \in Ports,
           FairDevice(n.dev[p], skipped[p]),
           \/ NoneServed(n.dev[p], u.dev[p])
           \/ \E x \in Prios : OneServed(n.dev[p], u.dev[p], x)
    PROVE  FairDevice(u.dev[p], Skips(n, u)[p])
<1>. DEFINE d == n.dev[p]
            e == u.dev[p]
            served == {r \in Prios : Shorter(d, e, r)}
            sk == Skips(n, u)[p]
<1>1. \A q \in Prios :
          sk[q] = IF q \in served \/ q \notin Ready(e) THEN 0
                  ELSE IF served # {} /\ q \in Ready(d) THEN skipped[p][q] + 1
                  ELSE skipped[p][q]
  BY DEF Skips, Shorter
<1>2. d.rrlast \in Queues /\ e.rrlast \in Queues /\ NumPrios \in Nat
  BY DeviceFacts, MmuAssumption
<1>. SUFFICES ASSUME NEW q \in Prios
              PROVE  /\ sk[q] \in Nat
                     /\ q \notin Ready(e) => sk[q] = 0
                     /\ sk[q] + Dist(e.rrlast, q) <= NumPrios - 1
  BY DEF FairDevice
<1>3. /\ skipped[p][q] \in Nat
      /\ q \notin Ready(d) => skipped[p][q] = 0
      /\ skipped[p][q] + Dist(d.rrlast, q) <= NumPrios - 1
  BY DEF FairDevice
<1>. HIDE DEF d, e, sk
<1>4. /\ Dist(d.rrlast, q) \in 0 .. NumPrios - 1
      /\ Dist(e.rrlast, q) \in 0 .. NumPrios - 1
  BY <1>2, DistBounds
<1>5. CASE q \in served \/ q \notin Ready(e)
  BY <1>1, <1>2, <1>4, <1>5
<1>6. CASE q \notin served /\ q \in Ready(e) /\ NoneServed(d, e)
  <2>1. served = {} /\ e.rrlast = d.rrlast
    BY <1>6 DEF NoneServed
  <2>2. sk[q] = skipped[p][q]
    BY <1>1, <1>6, <2>1
  <2>. QED  BY <1>3, <1>6, <2>1, <2>2
<1>7. ASSUME q \notin served, q \in Ready(e), NEW x \in Prios, OneServed(d, e, x)
      PROVE  /\ sk[q] \in Nat
             /\ q \notin Ready(e) => sk[q] = 0
             /\ sk[q] + Dist(e.rrlast, q) <= NumPrios - 1
  <2>1. q # x /\ e.rrlast = x
    BY <1>7 DEF OneServed
  <2>2. CASE q \in Ready(d)
    <3>1. Dist(e.rrlast, q) < Dist(d.rrlast, q)
      <4>1. Turn(d, x) <= Turn(d, q)
        BY <1>7, <2>2 DEF OneServed
      <4>. QED  BY <1>2, <2>1, <4>1, Nearer
    <3>2. sk[q] = skipped[p][q] + 1 \/ sk[q] = skipped[p][q]
      BY <1>1, <1>7, <2>2
    <3>. QED  BY <1>2, <1>3, <1>4, <1>7, <3>1, <3>2
  <2>3. CASE q \notin Ready(d)
    <3>1. sk[q] = 0
      BY <1>1, <1>3, <1>7, <2>3
    <3>. QED  BY <1>2, <1>4, <1>7, <3>1
  <2>. QED  BY <2>2, <2>3
<1>. QED  BY <1>5, <1>6, <1>7 DEF d, e

LEMMA OutcomeServes ==
    ASSUME NEW n, NodeShape(n), NEW u, Outcome(n, u), NEW p \in Ports
    PROVE  \/ NoneServed(n.dev[p], u.dev[p])
           \/ \E x \in Prios : OneServed(n.dev[p], u.dev[p], x)
<1>. DEFINE d == n.dev[p]
            e == u.dev[p]
<1>0. \A j \in Prios : d.queue[j] \in Seq(Lossless) /\ Len(d.queue[j]) \in Nat
  BY DeviceFacts
<1>10. ASSUME e.rrlast = d.rrlast, \A j \in Prios : e.queue[j] = d.queue[j]
      PROVE  NoneServed(d, e)
  BY <1>0, <1>10 DEF NoneServed, Shorter
<1>1. CASE SameQueues(n, u)
  BY <1>1, <1>10 DEF SameQueues
<1>2. ASSUME NEW in \in Ports, NEW out \in Ports, NEW q \in Prios, NEW s \in Sizes,
             Queued(n, u, in, out, q, s)
      PROVE  NoneServed(d, e)
  <2>1. CASE p # out
    BY <1>2, <1>10, <2>1 DEF Queued, LosslessSame
  <2>2. CASE p = out
    <3>. DEFINE pkt == DataPacket(in, q, s)
    <3>1. pkt \in Lossless
      BY PacketFacts
    <3>2. e.rrlast = d.rrlast
          /\ \A j \in Prios : e.queue[j] = IF j = q THEN Append(d.queue[j], pkt) ELSE d.queue[j]
      BY <1>2, <2>2 DEF Queued
    <3>. HIDE DEF pkt, d, e
    <3>3. \A j \in Prios : Len(e.queue[j]) = Len(d.queue[j]) \/ Len(e.queue[j]) = Len(d.queue[j]) + 1
      <4>. SUFFICES ASSUME NEW j \in Prios
                    PROVE  Len(e.queue[j]) = Len(d.queue[j]) \/ Len(e.queue[j]) = Len(d.queue[j]) + 1
        OBVIOUS
      <4>1. Len(Append(d.queue[j], pkt)) = Len(d.queue[j]) + 1
        BY <1>0, <3>1
      <4>. QED  BY <3>2, <4>1
    <3>. QED  BY <1>0, <3>2, <3>3 DEF NoneServed, Shorter
  <2>. QED  BY <2>1, <2>2
<1>3. ASSUME NEW in \in Ports, NEW out \in Ports, NEW q \in Prios, NEW s \in Sizes,
             Forwarded(n, u, in, out, q, s)
      PROVE  NoneServed(d, e) \/ OneServed(d, e, q)
  <2>1. CASE p # out
    BY <1>3, <1>10, <2>1 DEF Forwarded, LosslessSame
  <2>2. CASE p = out
    <3>1. /\ e.rrlast = q /\ Ready(d) = {} /\ d.queue[q] = <<>>
          /\ \A j \in Prios : e.queue[j] = d.queue[j]
      BY <1>3, <2>2 DEF Forwarded
    <3>2. q \notin Ready(e)
      BY <3>1 DEF Ready
    <3>3. \A j \in Prios : ~ Shorter(d, e, j)
      BY <1>0, <3>1 DEF Shorter
    <3>. QED  BY <3>1, <3>2, <3>3 DEF OneServed
  <2>. QED  BY <2>1, <2>2
<1>4. ASSUME NEW o \in Ports, NEW q \in Prios, NEW v, Offered(n, v, o), Served(v, u, o, q)
      PROVE  NoneServed(d, e) \/ OneServed(d, e, q)
  <2>1. CASE p # o
    <3>1. v.dev[p] = d /\ LosslessSame(v.dev[p], e)
      BY <1>4, <2>1 DEF Offered, DeviceSet, Served
    <3>. QED  BY <1>10, <3>1 DEF LosslessSame
  <2>2. CASE p = o
    <3>1. /\ v.dev[p].queue = d.queue /\ v.dev[p].rrlast = d.rrlast
          /\ Ready(d) \subseteq Ready(v.dev[p])
      BY <1>4, <2>2 DEF Offered
    <3>2. /\ q \in Ready(v.dev[p]) /\ \A r \in Ready(v.dev[p]) : Turn(v.dev[p], q) <= Turn(v.dev[p], r)
          /\ e.rrlast = q
          /\ \A j \in Prios : e.queue[j] = IF j = q THEN Tail(v.dev[p].queue[j])
                                           ELSE v.dev[p].queue[j]
      BY <1>4, <2>2 DEF Served, InTurn
    <3>. HIDE DEF d, e
    <3>3. \A r \in Ready(d) : Turn(d, q) <= Turn(d, r)
      BY <3>1, <3>2 DEF Turn
    <3>4. \A j \in Prios : j # q => ~ Shorter(d, e, j)
      BY <1>0, <3>1, <3>2 DEF Shorter
    <3>5. d.queue[q] # <<>> /\ e.queue[q] = Tail(d.queue[q])
      BY <3>1, <3>2 DEF Ready
    <3>6. Len(e.queue[q]) = Len(d.queue[q]) - 1
      BY <1>0, <3>5, HeadTailProperties
    <3>7. Shorter(d, e, q)
      BY <1>0, <3>6 DEF Shorter
    <3>. QED  BY <3>2, <3>3, <3>4, <3>7 DEF OneServed
  <2>. QED  BY <2>1, <2>2
<1>. QED  BY <1>1, <1>2, <1>3, <1>4 DEF Outcome

(* The invariant that bounds how often a ready queue is skipped.           *)
FairInv == /\ SwitchInv(node)
           /\ skipped \in [Ports -> [Prios -> Nat]]
           /\ \A p \in Ports : FairDevice(node.dev[p], skipped[p])

LEMMA FairKept ==
    ASSUME FairInv, Outcome(node, node'), skipped' = Skips(node, node')
    PROVE  FairInv'
<1>1. SwitchInv(node)'
  <2>1. IInv(node.mmu', Resident(node'))
    BY UnitKept DEF FairInv, SwitchInv
  <2>. QED  BY <2>1 DEF SwitchInv, Outcome
<1>2. ASSUME NEW p \in Ports PROVE FairDevice(node'.dev[p], Skips(node, node')[p])
  <2>1. NodeShape(node) /\ NodeShape(node') /\ FairDevice(node.dev[p], skipped[p])
    BY DEF Outcome, FairInv, SwitchInv
  <2>. QED  BY <2>1, OutcomeServes, FairStep
<1>3. \A p \in Ports, q \in Prios : Skips(node, node')[p][q] \in Nat
  BY <1>2 DEF FairDevice
<1>4. Skips(node, node') \in [Ports -> [Prios -> Nat]]
  BY <1>3 DEF Skips
<1>5. \A p \in Ports : FairDevice(node.dev[p], skipped[p])'
  BY <1>2
<1>. QED  BY <1>1, <1>4, <1>5 DEF FairInv

LEMMA FairInit == NodeInit => FairInv
<1>. SUFFICES ASSUME NodeInit PROVE FairInv
  OBVIOUS
<1>1. /\ skipped \in [Ports -> [Prios -> Nat]]
      /\ \A p \in Ports, q \in Prios : skipped[p][q] = 0
      /\ \A p \in Ports : node.dev[p].rrlast = 0
  BY DEF NodeInit, InitNode
<1>2. \A q \in Prios : Dist(0, q) \in 0 .. NumPrios - 1
  BY DistBounds, PacketFacts
<1>3. \A p \in Ports : FairDevice(node.dev[p], skipped[p])
  BY <1>1, <1>2 DEF FairDevice
<1>. QED  BY <1>1, <1>3, SwitchInit DEF FairInv

THEOREM FairInvariant == NodeSpec => []FairInv
<1>1. FairInv /\ [NodeNext]_nodeVars => FairInv'
  <2>. SUFFICES ASSUME FairInv, [NodeNext]_nodeVars PROVE FairInv'
    OBVIOUS
  <2>1. CASE UNCHANGED nodeVars
    BY <2>1 DEF nodeVars, FairInv
  <2>2. CASE NodeNext
    <3>1. Outcome(node, node') /\ skipped' = Skips(node, node')
      BY <2>2, NextOutcome DEF FairInv, SwitchInv
    <3>. QED  BY <3>1, FairKept
  <2>. QED  BY <2>1, <2>2
<1>. QED  BY <1>1, FairInit, PTL DEF NodeSpec

(* Queues, round-robin places, pause flags, transmissions and the unit     *)
(* have their types.                                                       *)
THEOREM NodeTypes == NodeSpec => []NodeTypeOK
<1>1. FairInv => NodeTypeOK
  <2>. SUFFICES ASSUME FairInv PROVE NodeTypeOK
    OBVIOUS
  <2>1. SwitchDevice \subseteq Device
    BY DEF SwitchDevice, Device, QueueSet
  <2>. QED  BY <2>1 DEF FairInv, SwitchInv, IInv, AccountInv, NodeShape, NodeTypeOK
<1>. QED  BY <1>1, FairInvariant, PTL

(* No queue that stays ready is passed over as often as there are queues.  *)
THEOREM NoStarvation == NodeSpec => []RoundRobinFair
<1>1. FairInv => RoundRobinFair
  <2>. SUFFICES ASSUME FairInv, NEW p \in Ports, NEW q \in Prios PROVE skipped[p][q] < NumPrios
    BY DEF RoundRobinFair
  <2>1. node.dev[p].rrlast \in Queues
    BY DeviceFacts DEF FairInv, SwitchInv
  <2>2. Dist(node.dev[p].rrlast, q) \in 0 .. NumPrios - 1
    BY <2>1, DistBounds
  <2>3. skipped[p][q] \in Nat /\ skipped[p][q] + Dist(node.dev[p].rrlast, q) <= NumPrios - 1
    BY DEF FairInv, FairDevice
  <2>. QED  BY <2>2, <2>3, MmuAssumption
<1>. QED  BY <1>1, FairInvariant, PTL

-----------------------------------------------------------------------------
(* The switch and its neighbours: the PFC frames between them never lose   *)
(* their sense, as long as none of them is lost.                           *)

Kinds == {"pause", "resume"}

(* What receiving the frames s does to the state of a queue.               *)
LEMMA TellsNothing ==
    ASSUME NEW q, NEW x \in Kinds
    PROVE  Tells(<<>>, q, x, x)
<1>. DEFINE b == [k \in 0 .. 0 |-> x]
<1>1. b \in [0 .. 0 -> Kinds] /\ b[0] = x /\ Len(<<>>) = 0
  OBVIOUS
<1>2. \A k \in 1 .. 0 : FALSE
  OBVIOUS
<1>. HIDE DEF b
<1>. QED  BY <1>1, <1>2 DEF Tells, Kinds

LEMMA TellsOne ==
    ASSUME NEW q, NEW f, NEW x \in Kinds, NEW y \in Kinds,
           IF Concerns(f, q) THEN y = f.kind /\ y # x ELSE y = x
    PROVE  Tells(<<f>>, q, x, y)
<1>. DEFINE b == [k \in 0 .. 1 |-> IF k = 0 THEN x ELSE y]
<1>1. Len(<<f>>) = 1 /\ <<f>>[1] = f
  OBVIOUS
<1>2. b \in [0 .. 1 -> Kinds] /\ b[0] = x /\ b[1] = y
  OBVIOUS
<1>. HIDE DEF b
<1>3. \A k \in 1 .. 1 : k = 1 /\ k - 1 = 0
  OBVIOUS
<1>. QED  BY <1>1, <1>2, <1>3 DEF Tells, Kinds

LEMMA TellsConcat ==
    ASSUME NEW S, NEW s \in Seq(S), NEW t \in Seq(S), NEW q, NEW x, NEW y, NEW z,
           Tells(s, q, x, y), Tells(t, q, y, z)
    PROVE  Tells(s \o t, q, x, z)
<1>. DEFINE n == Len(s)
            m == Len(t)
            st == s \o t
<1>1. PICK b \in [0 .. n -> Kinds] :
          /\ b[0] = x /\ b[n] = y
          /\ \A k \in 1 .. n : IF Concerns(s[k], q) THEN b[k] = s[k].kind /\ b[k] # b[k - 1]
                               ELSE b[k] = b[k - 1]
  BY DEF Tells, Kinds
<1>2. PICK c \in [0 .. m -> Kinds] :
          /\ c[0] = y /\ c[m] = z
          /\ \A k \in 1 .. m : IF Concerns(t[k], q) THEN c[k] = t[k].kind /\ c[k] # c[k - 1]
                               ELSE c[k] = c[k - 1]
  BY DEF Tells, Kinds
<1>3. /\ n \in Nat /\ m \in Nat /\ Len(st) = n + m
      /\ \A k \in 1 .. n : st[k] = s[k]
      /\ \A k \in 1 .. m : st[n + k] = t[k]
  BY ConcatProperties
<1>. HIDE DEF n, m, st
<1>. DEFINE d == [k \in 0 .. n + m |-> IF k <= n THEN b[k] ELSE c[k - n]]
<1>4. /\ d \in [0 .. n + m -> Kinds]
      /\ \A k \in 0 .. n : d[k] = b[k]
      /\ \A k \in 0 .. m : d[n + k] = c[k]
  <2>1. \A k \in 0 .. n : k \in 0 .. n + m /\ d[k] = b[k]
    BY <1>3
  <2>2. ASSUME NEW k \in 0 .. m PROVE d[n + k] = c[k]
    <3>1. CASE k = 0
      BY <1>1, <1>2, <1>3, <3>1
    <3>2. CASE k # 0
      <4>1. n + k \in 0 .. n + m /\ ~ (n + k <= n) /\ (n + k) - n = k
        BY <1>3, <3>2
      <4>. QED  BY <4>1
    <3>. QED  BY <3>1, <3>2
  <2>3. ASSUME NEW k \in 0 .. n + m PROVE d[k] \in Kinds
    <3>1. CASE k <= n
      BY <1>3, <2>1, <3>1
    <3>2. CASE ~ (k <= n)
      <4>1. k - n \in 0 .. m /\ d[k] = c[k - n]
        BY <1>3, <3>2
      <4>. QED  BY <4>1
    <3>. QED  BY <3>1, <3>2
  <2>. QED  BY <2>1, <2>2, <2>3
<1>. HIDE DEF d
<1>5. d[0] = x /\ d[n + m] = z
  BY <1>1, <1>2, <1>3, <1>4
<1>6. ASSUME NEW k \in 1 .. n + m
      PROVE  IF Concerns(st[k], q) THEN d[k] = st[k].kind /\ d[k] # d[k - 1] ELSE d[k] = d[k - 1]
  <2>1. CASE k <= n
    <3>1. k \in 1 .. n /\ k - 1 \in 0 .. n /\ k \in 0 .. n
      BY <1>3, <2>1
    <3>2. st[k] = s[k] /\ d[k] = b[k] /\ d[k - 1] = b[k - 1]
      BY <1>3, <1>4, <3>1
    <3>. QED  BY <1>1, <3>1, <3>2
  <2>2. CASE ~ (k <= n)
    <3>. DEFINE j == k - n
    <3>1. j \in 1 .. m /\ j - 1 \in 0 .. m /\ j \in 0 .. m /\ k = n + j /\ k - 1 = n + (j - 1)
      BY <1>3, <2>2
    <3>2. st[k] = t[j] /\ d[k] = c[j] /\ d[k - 1] = c[j - 1]
      BY <1>3, <1>4, <3>1
    <3>. QED  BY <1>2, <3>1, <3>2
  <2>. QED  BY <2>1, <2>2
<1>7. Tells(st, q, x, z)
  <2>1. d \in [0 .. Len(st) -> {"pause", "resume"}] /\ d[0] = x /\ d[Len(st)] = z
    BY <1>3, <1>4, <1>5 DEF Kinds
  <2>2. \A k \in 1 .. Len(st) :
            IF Concerns(st[k], q) THEN d[k] = st[k].kind /\ d[k] # d[k - 1] ELSE d[k] = d[k - 1]
    BY <1>3, <1>6
  <2>. QED  BY <2>1, <2>2 DEF Tells
<1>. QED  BY <1>7 DEF st

(* After the first frame is received the others go on from there.          *)
LEMMA TellsTail ==
    ASSUME NEW S, NEW s \in Seq(S), s # <<>>, NEW q, NEW x, NEW y, Tells(s, q, x, y)
    PROVE  /\ Concerns(Head(s), q) => Head(s).kind # x /\ Tells(Tail(s), q, Head(s).kind, y)
           /\ ~ Concerns(Head(s), q) => Tells(Tail(s), q, x, y)
<1>. DEFINE n == Len(s)
            t == Tail(s)
<1>1. PICK b \in [0 .. n -> Kinds] :
          /\ b[0] = x /\ b[n] = y
          /\ \A k \in 1 .. n : IF Concerns(s[k], q) THEN b[k] = s[k].kind /\ b[k] # b[k - 1]
                               ELSE b[k] = b[k - 1]
  BY DEF Tells, Kinds
<1>2. /\ n \in Nat /\ n > 0 /\ Len(t) = n - 1 /\ Head(s) = s[1]
      /\ \A k \in 1 .. n - 1 : t[k] = s[k + 1]
  BY HeadTailProperties
<1>. HIDE DEF n, t
<1>. DEFINE c == [k \in 0 .. n - 1 |-> b[k + 1]]
<1>3. c \in [0 .. n - 1 -> Kinds] /\ \A k \in 0 .. n - 1 : c[k] = b[k + 1]
  BY <1>2
<1>. HIDE DEF c
<1>4. c[0] = b[1] /\ c[n - 1] = y
  <2>1. 0 \in 0 .. n - 1 /\ n - 1 \in 0 .. n - 1 /\ 0 + 1 = 1 /\ (n - 1) + 1 = n
    BY <1>2
  <2>. QED  BY <1>1, <1>3, <2>1
<1>5. ASSUME NEW k \in 1 .. n - 1
      PROVE  IF Concerns(t[k], q) THEN c[k] = t[k].kind /\ c[k] # c[k - 1] ELSE c[k] = c[k - 1]
  <2>1. k + 1 \in 1 .. n /\ k \in 0 .. n - 1 /\ k - 1 \in 0 .. n - 1 /\ (k + 1) - 1 = (k - 1) + 1
    BY <1>2
  <2>2. t[k] = s[k + 1] /\ c[k] = b[k + 1] /\ c[k - 1] = b[(k + 1) - 1]
    BY <1>2, <1>3, <2>1
  <2>. QED  BY <1>1, <2>1, <2>2
<1>6. Tells(t, q, b[1], y)
  BY <1>2, <1>3, <1>4, <1>5 DEF Tells, Kinds
<1>7. IF Concerns(s[1], q) THEN b[1] = s[1].kind /\ b[1] # x ELSE b[1] = x
  <2>1. 1 \in 1 .. n /\ 1 - 1 = 0
    BY <1>2
  <2>. QED  BY <1>1, <2>1
<1>. QED  BY <1>2, <1>6, <1>7 DEF t

(* The unit as a record with pause flags.  None of its operations but      *)
(* pausing and resuming touches a flag.                                    *)
Flagged(m) ==
    /\ m = [shared_used_bytes |-> m.shared_used_bytes, hdrm_bytes |-> m.hdrm_bytes,
            ingress_bytes |-> m.ingress_bytes, egress_bytes |-> m.egress_bytes,
            paused |-> m.paused]
    /\ m.paused \in PerQueue(BOOLEAN)

FlagsKept(m, u) == Flagged(u) /\ u.paused = m.paused

LEMMA UpdateKeepsFlags ==
    ASSUME NEW m, Flagged(m), NEW in, NEW out, NEW q, NEW s
    PROVE  FlagsKept(m, UpdateEgressAdmission(UpdateIngressAdmission(m, in, q, s), out, q, s))
<1>1. FlagsKept(m, UpdateIngressAdmission(m, in, q, s))
  BY DEF FlagsKept, Flagged, UpdateIngressAdmission
<1>2. \A u : FlagsKept(m, u) => FlagsKept(m, UpdateEgressAdmission(u, out, q, s))
  BY DEF FlagsKept, Flagged, UpdateEgressAdmission
<1>. QED  BY <1>1, <1>2

LEMMA RemoveKeepsFlags ==
    ASSUME NEW m, Flagged(m), NEW in, NEW out, NEW q, NEW s
    PROVE  FlagsKept(m, RemoveFromEgressAdmission(RemoveFromIngressAdmission(m, in, q, s), out, q, s))
<1>1. FlagsKept(m, RemoveFromIngressAdmission(m, in, q, s))
  <2>1. PICK h, i, x :
            RemoveFromIngressAdmission(m, in, q, s)
                = [m EXCEPT !.hdrm_bytes = h, !.ingress_bytes = i, !.shared_used_bytes = x]
    <3>. DEFINE fh == MinOf(m.hdrm_bytes[in][q], s)
                fs == MinOf(s - fh, GetSharedUsed(m, in, q))
                h == [m.hdrm_bytes EXCEPT ![in][q] = @ - fh]
                i == [m.ingress_bytes EXCEPT ![in][q] = Minus(@, s - fh)]
                x == Minus(m.shared_used_bytes, fs)
    <3>1. RemoveFromIngressAdmission(m, in, q, s)
              = [m EXCEPT !.hdrm_bytes = h, !.ingress_bytes = i, !.shared_used_bytes = x]
      BY DEF RemoveFromIngressAdmission, Flagged
    <3>. QED  BY <3>1
  <2>. QED  BY <2>1 DEF FlagsKept, Flagged
<1>2. \A u : FlagsKept(m, u) => FlagsKept(m, RemoveFromEgressAdmission(u, out, q, s))
  BY DEF FlagsKept, Flagged, RemoveFromEgressAdmission
<1>. QED  BY <1>1, <1>2

FlagSet(m, u, p, q, x) ==
    /\ Flagged(u)
    /\ \A i \in Ports, j \in Prios :
           u.paused[i][j] = IF i = p /\ j = q THEN x ELSE m.paused[i][j]

LEMMA PauseFlags ==
    ASSUME NEW m, Flagged(m), NEW p \in Ports, NEW q \in Prios
    PROVE  FlagSet(m, SetPause(m, p, q), p, q, TRUE) /\ FlagSet(m, SetResume(m, p, q), p, q, FALSE)
<1>. DEFINE b(x) == [m.paused EXCEPT ![p][q] = x]
<1>1. \A x \in BOOLEAN : /\ b(x) \in PerQueue(BOOLEAN)
                         /\ \A i \in Ports, j \in Prios :
                                b(x)[i][j] = IF i = p /\ j = q THEN x ELSE m.paused[i][j]
  BY DEF Flagged, PerQueue
<1>2. \A x : /\ [m EXCEPT !.paused = b(x)].paused = b(x)
             /\ b(x) \in PerQueue(BOOLEAN) => Flagged([m EXCEPT !.paused = b(x)])
  <2>. HIDE DEF b
  <2>. QED  BY DEF Flagged
<1>3. SetPause(m, p, q) = [m EXCEPT !.paused = b(TRUE)]
      /\ SetResume(m, p, q) = [m EXCEPT !.paused = b(FALSE)]
  BY DEF SetPause, SetResume
<1>. HIDE DEF b
<1>4. ASSUME NEW x \in BOOLEAN PROVE FlagSet(m, [m EXCEPT !.paused = b(x)], p, q, x)
  <2>. DEFINE u == [m EXCEPT !.paused = b(x)]
  <2>1. u.paused = b(x) /\ Flagged(u)
    BY <1>1, <1>2
  <2>. HIDE DEF u
  <2>2. FlagSet(m, u, p, q, x)
    BY <1>1, <2>1 DEF FlagSet
  <2>. QED  BY <2>2 DEF u
<1>. QED  BY <1>3, <1>4

(* The frames of device p, as its queue 0 and its transmission hold them.  *)
LEMMA LineType ==
    ASSUME NEW n, NodeShape(n), NEW p \in Ports
    PROVE  Line(n, p) \in Seq(Packet) /\ n.dev[p].queue[0] \in Seq(Packet)
<1>1. n.dev[p].current \in Packet \cup {NoPacket} /\ n.dev[p].queue[0] \in Seq(Packet)
  BY DeviceFacts, PacketFacts
<1>. DEFINE front == IF Busy(n, p) THEN <<n.dev[p].current>> ELSE <<>>
<1>2. front \in Seq(Packet)
  BY <1>1 DEF Busy
<1>. HIDE DEF front
<1>3. front \o n.dev[p].queue[0] \in Seq(Packet)
  BY <1>1, <1>2, ConcatProperties
<1>. QED  BY <1>1, <1>3 DEF front, Line

(* Between n and u the switch has sent its neighbours frames that take     *)
(* them from the flags of its unit in n to those in u.                     *)
Signals(n, u, p, s) ==
    /\ Line(u, p) = Line(n, p) \o s
    /\ \A q \in Prios : Tells(s, q, Kind(n.mmu.paused[p][q]), Kind(u.mmu.paused[p][q]))

Follows(n, u) ==
    /\ NodeShape(u) /\ Flagged(u.mmu)
    /\ \A p \in Ports : \E s \in Seq(Packet) : Signals(n, u, p, s)

LEMMA KindOf ==
    ASSUME NEW x
    PROVE  Kind(x) \in Kinds
BY DEF Kind, Kinds

LEMMA SignalsNothing ==
    ASSUME NEW n, NodeShape(n), NEW u, NEW p \in Ports, Line(u, p) = Line(n, p),
           \A q \in Prios : u.mmu.paused[p][q] = n.mmu.paused[p][q]
    PROVE  \E s \in Seq(Packet) : Signals(n, u, p, s)
<1>1. Line(n, p) \o <<>> = Line(n, p) /\ <<>> \in Seq(Packet)
  BY LineType, ConcatEmptySeq
<1>2. \A q \in Prios : Tells(<<>>, q, Kind(n.mmu.paused[p][q]), Kind(u.mmu.paused[p][q]))
  BY KindOf, TellsNothing
<1>. QED  BY <1>1, <1>2 DEF Signals

LEMMA FollowsSame ==
    ASSUME NEW n, NodeShape(n), NEW u, NodeShape(u), FlagsKept(n.mmu, u.mmu),
           \A p \in Ports : Line(u, p) = Line(n, p)
    PROVE  Follows(n, u)
<1>1. \A p \in Ports : \E s \in Seq(Packet) : Signals(n, u, p, s)
  BY SignalsNothing DEF FlagsKept
<1>. QED  BY <1>1 DEF Follows, FlagsKept

LEMMA FollowsTwice ==
    ASSUME NEW n, NodeShape(n), NEW u, NEW v, Follows(n, u), Follows(u, v)
    PROVE  Follows(n, v)
<1>1. ASSUME NEW p \in Ports PROVE \E s \in Seq(Packet) : Signals(n, v, p, s)
  <2>1. PICK s \in Seq(Packet) : Signals(n, u, p, s)
    BY DEF Follows
  <2>2. PICK t \in Seq(Packet) : Signals(u, v, p, t)
    BY DEF Follows
  <2>3. Line(n, p) \in Seq(Packet)
    BY LineType
  <2>4. s \o t \in Seq(Packet) /\ (Line(n, p) \o s) \o t = Line(n, p) \o (s \o t)
    BY <2>3, ConcatProperties, ConcatAssociative
  <2>5. \A q \in Prios : Tells(s \o t, q, Kind(n.mmu.paused[p][q]), Kind(v.mmu.paused[p][q]))
    BY <2>1, <2>2, TellsConcat DEF Signals
  <2>6. Line(v, p) = Line(n, p) \o (s \o t)
    BY <2>1, <2>2, <2>4 DEF Signals
  <2>. QED  BY <2>4, <2>5, <2>6 DEF Signals
<1>. QED  BY <1>1 DEF Follows

(* One frame goes out on device p.                                         *)
LEMMA FollowsOne ==
    ASSUME NEW n, NodeShape(n), NEW u, NodeShape(u), Flagged(u.mmu), NEW p \in Ports,
           NEW f \in Packet, Line(u, p) = Line(n, p) \o <<f>>,
           \A r \in Ports : r # p => /\ Line(u, r) = Line(n, r)
                                     /\ \A q \in Prios : u.mmu.paused[r][q] = n.mmu.paused[r][q],
           \A q \in Prios : IF Concerns(f, q)
                            THEN /\ Kind(u.mmu.paused[p][q]) = f.kind
                                 /\ Kind(n.mmu.paused[p][q]) # f.kind
                            ELSE u.mmu.paused[p][q] = n.mmu.paused[p][q]
    PROVE  Follows(n, u)
<1>1. \A q \in Prios : Tells(<<f>>, q, Kind(n.mmu.paused[p][q]), Kind(u.mmu.paused[p][q]))
  <2>. SUFFICES ASSUME NEW q \in Prios
                PROVE  Tells(<<f>>, q, Kind(n.mmu.paused[p][q]), Kind(u.mmu.paused[p][q]))
    OBVIOUS
  <2>. DEFINE x == Kind(n.mmu.paused[p][q])
              y == Kind(u.mmu.paused[p][q])
  <2>1. x \in Kinds /\ y \in Kinds
    BY KindOf
  <2>2. IF Concerns(f, q) THEN y = f.kind /\ y # x ELSE y = x
    OBVIOUS
  <2>. HIDE DEF x, y
  <2>3. Tells(<<f>>, q, x, y)
    BY <2>1, <2>2, TellsOne
  <2>. QED  BY <2>3 DEF x, y
<1>2. <<f>> \in Seq(Packet)
  OBVIOUS
<1>3. \E s \in Seq(Packet) : Signals(n, u, p, s)
  BY <1>1, <1>2 DEF Signals
<1>4. \A r \in Ports : \E s \in Seq(Packet) : Signals(n, u, r, s)
  BY <1>3, SignalsNothing
<1>. QED  BY <1>4 DEF Follows

LEMMA LineSame ==
    ASSUME NEW n, NEW u, NEW p,
           u.dev[p].current = n.dev[p].current, u.dev[p].queue[0] = n.dev[p].queue[0]
    PROVE  Line(u, p) = Line(n, p)
BY DEF Line, Busy

(* Starting to transmit the first frame of queue 0 moves it within the     *)
(* line.                                                                   *)
LEMMA HighPrioLine ==
    ASSUME NEW n, NodeShape(n), NEW p \in Ports
    PROVE  \A r \in Ports : Line(TransmitHighPrio(n, p), r) = Line(n, r)
<1>. DEFINE u == TransmitHighPrio(n, p)
            s == n.dev[p].queue[0]
<1>1. /\ \A r \in Ports : r # p => u.dev[r] = n.dev[r]
      /\ s # <<>> => Busy(u, p)
      /\ IF s = <<>> \/ Busy(n, p) THEN u = n
         ELSE u.dev[p].current = Head(s) /\ u.dev[p].queue[0] = Tail(s)
  BY HighPrioEffect
<1>2. s \in Seq(Packet)
  BY LineType
<1>. HIDE DEF u
<1>3. \A r \in Ports : r # p => Line(u, r) = Line(n, r)
  BY <1>1, LineSame
<1>4. Line(u, p) = Line(n, p)
  <2>1. CASE s = <<>> \/ Busy(n, p)
    BY <1>1, <2>1
  <2>2. CASE ~ (s = <<>> \/ Busy(n, p))
    <3>1. Line(n, p) = <<>> \o s
      BY <2>2 DEF Line
    <3>2. Line(u, p) = <<Head(s)>> \o Tail(s)
      BY <1>1, <2>2 DEF Line
    <3>. HIDE DEF s
    <3>3. <<>> \o s = s /\ <<Head(s)>> \o Tail(s) = s
      BY <1>2, <2>2, ConcatEmptySeq
    <3>. QED  BY <3>1, <3>2, <3>3
  <2>. QED  BY <2>1, <2>2
<1>. QED  BY <1>3, <1>4 DEF u

LEMMA EnqueueLine ==
    ASSUME NEW n, NodeShape(n), NEW p \in Ports, NEW f \in Packet
    PROVE  LET u == Enqueue(n, p, 0, f)
           IN  /\ NodeShape(u) /\ u.mmu = n.mmu
               /\ \A r \in Ports : r # p => u.dev[r] = n.dev[r]
               /\ Line(u, p) = Line(n, p) \o <<f>>
               /\ u.dev[p].queue[0] # <<>>
<1>. DEFINE u == Enqueue(n, p, 0, f)
            s == n.dev[p].queue[0]
            front == IF Busy(n, p) THEN <<n.dev[p].current>> ELSE <<>>
<1>1. 0 \in Queues /\ 0 \notin Prios
  BY PacketFacts
<1>2. /\ DeviceSet(n, u, p, u.dev[p])
      /\ u.dev[p].current = n.dev[p].current
      /\ \A j \in Queues : u.dev[p].queue[j] = IF j = 0 THEN Append(s, f) ELSE n.dev[p].queue[j]
  <2>1. 0 \in Prios => f \in Lossless
    BY <1>1
  <2>. QED  BY <1>1, <2>1, EnqueueEffect
<1>. HIDE DEF u
<1>3. s \in Seq(Packet) /\ n.dev[p].current \in Packet \cup {NoPacket}
  BY LineType, DeviceFacts
<1>4. front \in Seq(Packet) /\ <<f>> \in Seq(Packet)
  BY <1>3 DEF Busy
<1>5. Line(n, p) = front \o s /\ Line(u, p) = front \o Append(s, f)
  BY <1>1, <1>2 DEF Line, Busy
<1>. HIDE DEF s, front
<1>6. Append(s, f) = s \o <<f>> /\ Append(s, f) # <<>>
  BY <1>3
<1>7. (front \o s) \o <<f>> = front \o (s \o <<f>>)
  BY <1>3, <1>4, ConcatAssociative
<1>. QED  BY <1>1, <1>2, <1>5, <1>6, <1>7 DEF DeviceSet, u, s

LEMMA SendPfcLine ==
    ASSUME NEW n, NodeShape(n), NEW p \in Ports, NEW q \in Prios, NEW type \in Kinds
    PROVE  LET u == SendPfc(n, p, type, q)
           IN  /\ NodeShape(u) /\ u.mmu = n.mmu
               /\ \A r \in Ports : r # p => u.dev[r] = n.dev[r]
               /\ Line(u, p) = Line(n, p) \o <<PfcFrame(type, q)>>
<1>. DEFINE f == PfcFrame(type, q)
            v == Enqueue(n, p, 0, f)
            u == SendPfc(n, p, type, q)
<1>1. f \in Packet
  BY PacketFacts DEF Kinds
<1>2. u = TransmitHighPrio(v, p)
  BY DEF SendPfc
<1>. HIDE DEF f
<1>3. /\ NodeShape(v) /\ v.mmu = n.mmu
      /\ \A r \in Ports : r # p => v.dev[r] = n.dev[r]
      /\ Line(v, p) = Line(n, p) \o <<f>>
  BY <1>1, EnqueueLine
<1>. HIDE DEF v, u
<1>4. /\ NodeShape(u) /\ u.mmu = v.mmu
      /\ \A r \in Ports : r # p => u.dev[r] = v.dev[r]
      /\ Line(u, p) = Line(v, p)
  BY <1>2, <1>3, HighPrioEffect, HighPrioLine
<1>. QED  BY <1>3, <1>4 DEF u, f

(* A pause or resume frame leaves with the change of the unit's flag.      *)
LEMMA FlagFollows ==
    ASSUME NEW n, NodeShape(n), Flagged(n.mmu), NEW p \in Ports, NEW q \in Prios,
           NEW x \in BOOLEAN, n.mmu.paused[p][q] \in BOOLEAN \ {x},
           NEW m, FlagSet(n.mmu, m, p, q, x)
    PROVE  LET u == [SendPfc(n, p, Kind(x), q) EXCEPT !.mmu = m]
           IN  /\ Follows(n, u) /\ \A r \in Ports : r # p => u.dev[r] = n.dev[r]
<1>. DEFINE type == Kind(x)
            f == PfcFrame(type, q)
            v == SendPfc(n, p, type, q)
            u == [v EXCEPT !.mmu = m]
<1>1. type \in Kinds /\ f \in Packet
  BY KindOf, PacketFacts DEF Kinds
<1>2. /\ NodeShape(v) /\ v.mmu = n.mmu
      /\ \A r \in Ports : r # p => v.dev[r] = n.dev[r]
      /\ Line(v, p) = Line(n, p) \o <<f>>
  BY <1>1, SendPfcLine
<1>. HIDE DEF v
<1>3. NodeShape(u) /\ u.mmu = m /\ u.dev = v.dev
  BY <1>2, SetMmu
<1>. HIDE DEF u
<1>4. Line(u, p) = Line(n, p) \o <<f>>
      /\ \A r \in Ports : r # p => u.dev[r] = n.dev[r] /\ Line(u, r) = Line(n, r)
  BY <1>2, <1>3 DEF Line, Busy
<1>5. \A r \in Ports : r # p => \A j \in Prios : u.mmu.paused[r][j] = n.mmu.paused[r][j]
  BY <1>3 DEF FlagSet
<1>6. \A j \in Prios : IF Concerns(f, j)
                       THEN Kind(u.mmu.paused[p][j]) = f.kind /\ Kind(n.mmu.paused[p][j]) # f.kind
                       ELSE u.mmu.paused[p][j] = n.mmu.paused[p][j]
  <2>1. \A j \in Prios : Concerns(f, j) <=> j = q
    BY <1>1 DEF Concerns, PfcFrame, Kinds
  <2>2. f.kind = Kind(x) /\ Kind(n.mmu.paused[p][q]) # Kind(x)
    <3>1. n.mmu.paused[p][q] \in BOOLEAN
      BY DEF Flagged, PerQueue
    <3>. QED  BY <3>1 DEF Kind, PfcFrame
  <2>. HIDE DEF f
  <2>3. \A j \in Prios : u.mmu.paused[p][j] = IF j = q THEN x ELSE n.mmu.paused[p][j]
    BY <1>3 DEF FlagSet
  <2>. QED  BY <2>1, <2>2, <2>3
<1>. HIDE DEF f
<1>7. Follows(n, u)
  <2>1. Flagged(u.mmu)
    BY <1>3 DEF FlagSet
  <2>. HIDE DEF type
  <2>. QED  BY <1>1, <1>3, <1>4, <1>5, <1>6, <2>1, FollowsOne
<1>. QED  BY <1>4, <1>7 DEF u, v, type

LEMMA CheckPfcFollows ==
    ASSUME NEW n, NodeShape(n), Flagged(n.mmu), NEW in \in Ports, NEW q \in Prios
    PROVE  Follows(n, CheckAndSendPfc(n, in, q))
<1>1. CASE CheckShouldPause(n.mmu, in, q)
  <2>1. FlagSet(n.mmu, SetPause(n.mmu, in, q), in, q, TRUE) /\ n.mmu.paused[in][q] \in BOOLEAN \ {TRUE}
    BY <1>1, PauseFlags DEF Flagged, PerQueue, CheckShouldPause
  <2>. DEFINE m == SetPause(n.mmu, in, q)
              u == [SendPfc(n, in, Kind(TRUE), q) EXCEPT !.mmu = m]
  <2>2. CheckAndSendPfc(n, in, q) = u
    BY <1>1 DEF CheckAndSendPfc, Kind
  <2>3. Follows(n, u) /\ \A r \in Ports : r # in => u.dev[r] = n.dev[r]
    <3>. HIDE DEF m
    <3>1. \A x \in BOOLEAN :
              FlagSet(n.mmu, m, in, q, x) /\ n.mmu.paused[in][q] \in BOOLEAN \ {x}
                  => /\ Follows(n, [SendPfc(n, in, Kind(x), q) EXCEPT !.mmu = m])
                     /\ \A r \in Ports :
                            r # in => [SendPfc(n, in, Kind(x), q) EXCEPT !.mmu = m].dev[r] = n.dev[r]
      BY FlagFollows
    <3>. QED  BY <2>1, <3>1, Zenon DEF m
  <2>. QED  BY <2>2, <2>3
<1>2. CASE ~ CheckShouldPause(n.mmu, in, q)
  BY <1>2, FollowsSame DEF CheckAndSendPfc, FlagsKept
<1>. QED  BY <1>1, <1>2

LEMMA CheckResumeFollows ==
    ASSUME NEW n, NodeShape(n), Flagged(n.mmu), NEW in \in Ports, NEW q \in Prios
    PROVE  LET u == CheckAndSendResume(n, in, q)
           IN  Follows(n, u) /\ \A r \in Ports : r # in => u.dev[r] = n.dev[r]
<1>1. CASE CheckShouldResume(n.mmu, in, q)
  <2>1. FlagSet(n.mmu, SetResume(n.mmu, in, q), in, q, FALSE) /\ n.mmu.paused[in][q] \in BOOLEAN \ {FALSE}
    BY <1>1, PauseFlags DEF Flagged, PerQueue, CheckShouldResume
  <2>. DEFINE m == SetResume(n.mmu, in, q)
              u == [SendPfc(n, in, Kind(FALSE), q) EXCEPT !.mmu = m]
  <2>2. CheckAndSendResume(n, in, q) = u
    BY <1>1 DEF CheckAndSendResume, Kind
  <2>3. Follows(n, u) /\ \A r \in Ports : r # in => u.dev[r] = n.dev[r]
    <3>. HIDE DEF m
    <3>1. \A x \in BOOLEAN :
              FlagSet(n.mmu, m, in, q, x) /\ n.mmu.paused[in][q] \in BOOLEAN \ {x}
                  => /\ Follows(n, [SendPfc(n, in, Kind(x), q) EXCEPT !.mmu = m])
                     /\ \A r \in Ports :
                            r # in => [SendPfc(n, in, Kind(x), q) EXCEPT !.mmu = m].dev[r] = n.dev[r]
      BY FlagFollows
    <3>. QED  BY <2>1, <3>1, Zenon DEF m
  <2>. QED  BY <2>2, <2>3
<1>2. CASE ~ CheckShouldResume(n.mmu, in, q)
  BY <1>2, FollowsSame DEF CheckAndSendResume, FlagsKept
<1>. QED  BY <1>1, <1>2

(* The unit's tables change and no flag does.                              *)
LEMMA SetMmuFollows ==
    ASSUME NEW n, NodeShape(n), NEW m, FlagsKept(n.mmu, m)
    PROVE  LET u == [n EXCEPT !.mmu = m]
           IN  Follows(n, u) /\ u.dev = n.dev /\ u.mmu = m
<1>. DEFINE u == [n EXCEPT !.mmu = m]
<1>1. NodeShape(u) /\ u.mmu = m /\ u.dev = n.dev
  BY SetMmu
<1>. HIDE DEF u
<1>2. \A p \in Ports : Line(u, p) = Line(n, p)
  BY <1>1 DEF Line, Busy
<1>3. Follows(n, u)
  BY <1>1, <1>2, FollowsSame
<1>. QED  BY <1>1, <1>3 DEF u

LEMMA NotifyFollows ==
    ASSUME NEW n, NodeShape(n), Flagged(n.mmu), NEW p \in Ports, NEW q \in Prios,
           NEW pkt, pkt.in \in Ports
    PROVE  LET u == SwitchNotifyDequeue(n, p, q, pkt)
           IN  Follows(n, u) /\ \A r \in Ports : r # pkt.in => u.dev[r] = n.dev[r]
<1>. DEFINE m == RemoveFromEgressAdmission(
                     RemoveFromIngressAdmission(n.mmu, pkt.in, q, pkt.size), p, q, pkt.size)
            v == [n EXCEPT !.mmu = m]
            u == SwitchNotifyDequeue(n, p, q, pkt)
<1>1. u = CheckAndSendResume(v, pkt.in, q)
  BY DEF SwitchNotifyDequeue
<1>2. FlagsKept(n.mmu, m)
  BY RemoveKeepsFlags
<1>. HIDE DEF m
<1>3. Follows(n, v) /\ v.dev = n.dev
  BY <1>2, SetMmuFollows
<1>. HIDE DEF v, u
<1>4. Follows(v, u) /\ \A r \in Ports : r # pkt.in => u.dev[r] = v.dev[r]
  BY <1>1, <1>3, CheckResumeFollows DEF Follows
<1>. QED  BY <1>3, <1>4, FollowsTwice DEF u

(* A packet never waits on the device it came in by.                       *)
From(p)      == {x \in Lossless : x.in # p}
Onward(n, p) == \A q \in Prios : n.dev[p].queue[q] \in Seq(From(p))

LEMMA ConcernsPfcOnly ==
    ASSUME NEW f, f.kind \notin Kinds, NEW q
    PROVE  ~ Concerns(f, q)
BY DEF Concerns, PfcFrame, Kinds

LEMMA StartFollows ==
    ASSUME NEW n, NodeShape(n), Flagged(n.mmu), NEW p \in Ports, NEW pkt \in Lossless,
           ~ Busy(n, p), n.dev[p].queue[0] = <<>>
    PROVE  Follows(n, TransmitStart(n, p, pkt))
<1>. DEFINE u == TransmitStart(n, p, pkt)
<1>1. pkt \in Packet /\ pkt.kind \notin Kinds
  BY PacketFacts DEF Lossless, Kinds
<1>2. /\ DeviceSet(n, u, p, u.dev[p])
      /\ u.dev[p].queue = n.dev[p].queue /\ u.dev[p].current = pkt /\ Busy(u, p)
  BY <1>1, StartEffect
<1>. HIDE DEF u
<1>3. Line(n, p) = <<>> \o <<>> /\ Line(u, p) = <<pkt>> \o <<>>
  BY <1>2 DEF Line
<1>4. <<>> \o <<>> = <<>> /\ <<pkt>> \o <<>> = <<pkt>> /\ <<>> \o <<pkt>> = <<pkt>>
  <2>1. <<pkt>> \in Seq(Packet) /\ <<>> \in Seq(Packet)
    BY <1>1
  <2>. QED  BY <2>1, ConcatEmptySeq
<1>5. Line(u, p) = Line(n, p) \o <<pkt>>
  BY <1>3, <1>4
<1>6. \A r \in Ports : r # p => Line(u, r) = Line(n, r)
  BY <1>2 DEF DeviceSet, Line, Busy
<1>7. NodeShape(u) /\ u.mmu = n.mmu
  BY <1>2 DEF DeviceSet
<1>8. \A q \in Prios : ~ Concerns(pkt, q)
  BY <1>1, ConcernsPfcOnly
<1>9. Follows(n, u)
  BY <1>1, <1>5, <1>6, <1>7, <1>8, FollowsOne
<1>. QED  BY <1>9 DEF u

LEMMA RoundRobinFollows ==
    ASSUME NEW n, NodeShape(n), Flagged(n.mmu), NEW p \in Ports, Onward(n, p),
           ~ Busy(n, p), n.dev[p].queue[0] = <<>>, Ready(n.dev[p]) # {}
    PROVE  Follows(n, TransmitRoundRobin(n, p))
<1>. DEFINE d == n.dev[p]
            q == NextQueue(d)
            s == d.queue[q]
            pkt == Head(s)
            f == [d.queue EXCEPT ![q] = Tail(s)]
            e == [d EXCEPT !.queue = f, !.rrlast = q]
            v == [n EXCEPT !.dev[p] = e]
            w == SwitchNotifyDequeue(v, p, q, pkt)
            u == TransmitRoundRobin(n, p)
<1>1. /\ d \in SwitchDevice /\ d.rrlast \in Queues /\ d.queue \in [Queues -> Seq(Packet)]
      /\ \A j \in Prios : d.queue[j] \in Seq(Lossless) /\ d.queue[j] \in Seq(From(p))
  BY DeviceFacts DEF Onward
<1>2. q \in Prios /\ s # <<>>
  BY <1>1, NextQueueInTurn DEF InTurn, Ready
<1>3. u = TransmitStart(w, p, pkt)
  BY DEF TransmitRoundRobin
<1>. HIDE DEF q
<1>4. pkt \in From(p) /\ Tail(s) \in Seq(Lossless)
  BY <1>1, <1>2, HeadTailProperties
<1>5. pkt \in Lossless /\ pkt.in \in Ports /\ pkt.in # p
  BY <1>4 DEF From, Lossless
<1>. HIDE DEF d, pkt
<1>6. Tail(s) \in Seq(Packet) /\ 0 \in Queues /\ q # 0 /\ q \in Queues
  <2>1. Tail(s) \in Seq(Packet)
    BY <1>1, <1>2, PacketFacts, HeadTailProperties
  <2>. QED  BY <1>2, <2>1, PacketFacts
<1>. HIDE DEF s
<1>7. f \in QueueSet /\ f[0] = d.queue[0]
  BY <1>1, <1>4, <1>6, PacketFacts DEF QueueSet
<1>. HIDE DEF f
<1>8. e \in SwitchDevice /\ e.queue = f /\ e.current = d.current
  BY <1>1, <1>6, <1>7 DEF SwitchDevice
<1>. HIDE DEF e
<1>9. DeviceSet(n, v, p, e)
  BY <1>8, SetDevice
<1>. HIDE DEF v
<1>10. \A r \in Ports : Line(v, r) = Line(n, r)
  BY <1>7, <1>8, <1>9 DEF DeviceSet, Line, Busy, d
<1>11. Follows(n, v)
  BY <1>9, <1>10, FollowsSame DEF DeviceSet, FlagsKept
<1>12. Follows(v, w) /\ w.dev[p] = v.dev[p]
  BY <1>2, <1>5, <1>9, <1>11, NotifyFollows DEF Follows
<1>. HIDE DEF w, u
<1>13. ~ Busy(w, p) /\ w.dev[p].queue[0] = <<>>
  BY <1>7, <1>8, <1>9, <1>12 DEF DeviceSet, Busy, d
<1>14. Follows(w, u)
  BY <1>3, <1>5, <1>12, <1>13, StartFollows DEF Follows
<1>15. Follows(n, w)
  BY <1>11, <1>12, FollowsTwice
<1>. QED  BY <1>14, <1>15, FollowsTwice DEF u

LEMMA DequeueFollows ==
    ASSUME NEW n, NodeShape(n), Flagged(n.mmu), NEW p \in Ports, Onward(n, p)
    PROVE  Follows(n, DequeueAndTransmit(n, p))
<1>. DEFINE u == DequeueAndTransmit(n, p)
<1>1. CASE n.dev[p].queue[0] # <<>>
  <2>1. u = TransmitHighPrio(n, p)
    BY <1>1 DEF DequeueAndTransmit
  <2>. HIDE DEF u
  <2>2. NodeShape(u) /\ u.mmu = n.mmu /\ \A r \in Ports : Line(u, r) = Line(n, r)
    BY <2>1, HighPrioEffect, HighPrioLine
  <2>3. Follows(n, u)
    BY <2>2, FollowsSame DEF FlagsKept
  <2>. QED  BY <2>3 DEF u
<1>2. CASE n.dev[p].queue[0] = <<>>
  <2>1. u = TransmitRoundRobin(n, p)
    BY <1>2 DEF DequeueAndTransmit
  <2>2. CASE Busy(n, p) \/ Ready(n.dev[p]) = {}
    <3>1. u = n
      BY <2>1, <2>2 DEF TransmitRoundRobin
    <3>. QED  BY <3>1, FollowsSame DEF FlagsKept
  <2>3. CASE ~ Busy(n, p) /\ Ready(n.dev[p]) # {}
    BY <1>2, <2>1, <2>3, RoundRobinFollows
  <2>. QED  BY <2>2, <2>3
<1>. QED  BY <1>1, <1>2

(* The events of the switch.                                               *)
LEMMA BypassFollows ==
    ASSUME NEW n, NodeShape(n), Flagged(n.mmu), NEW out \in Ports,
           NEW pkt \in Packet, pkt.kind \notin Kinds
    PROVE  Follows(n, DoSwitchSend(n, out, 0, pkt))
<1>. DEFINE v == Enqueue(n, out, 0, pkt)
            u == DoSwitchSend(n, out, 0, pkt)
<1>1. /\ NodeShape(v) /\ v.mmu = n.mmu
      /\ \A r \in Ports : r # out => v.dev[r] = n.dev[r]
      /\ Line(v, out) = Line(n, out) \o <<pkt>>
      /\ v.dev[out].queue[0] # <<>>
  BY EnqueueLine
<1>2. u = TransmitHighPrio(v, out)
  BY <1>1 DEF DoSwitchSend, SwitchSend, DequeueAndTransmit
<1>. HIDE DEF v, u
<1>3. \A q \in Prios : ~ Concerns(pkt, q)
  BY ConcernsPfcOnly
<1>4. \A r \in Ports : r # out => Line(v, r) = Line(n, r)
  BY <1>1, LineSame
<1>5. Follows(n, v)
  BY <1>1, <1>3, <1>4, FollowsOne
<1>6. NodeShape(u) /\ u.mmu = v.mmu /\ \A r \in Ports : Line(u, r) = Line(v, r)
  BY <1>1, <1>2, HighPrioEffect, HighPrioLine
<1>7. Follows(v, u)
  BY <1>1, <1>6, FollowsSame DEF FlagsKept
<1>. QED  BY <1>5, <1>7, FollowsTwice DEF u

LEMMA SendFollows ==
    ASSUME NEW n, NodeShape(n), Flagged(n.mmu), NEW in \in Ports, NEW out \in Ports, in # out,
           NEW q \in Prios, NEW s \in Sizes, Onward(n, out)
    PROVE  Follows(n, DoSwitchSend(n, out, q, DataPacket(in, q, s)))
<1>. DEFINE pkt == DataPacket(in, q, s)
            m == UpdateEgressAdmission(UpdateIngressAdmission(n.mmu, in, q, s), out, q, s)
            a == [n EXCEPT !.mmu = m]
            b == CheckAndSendPfc(a, in, q)
            c == Enqueue(b, out, q, pkt)
            u == DoSwitchSend(n, out, q, pkt)
<1>1. /\ q \in Queues /\ pkt \in Lossless /\ pkt \in Packet /\ q # 0 /\ Prios \subseteq Queues
      /\ 0 \in Queues /\ pkt.in = in /\ pkt.size = s
  BY PacketFacts DEF DataPacket
<1>2. CASE ~ CheckIngressAdmission(n.mmu, in, q, s)
  <2>1. u = n
    BY <1>1, <1>2 DEF DoSwitchSend
  <2>. QED  BY <2>1, FollowsSame DEF FlagsKept
<1>3. CASE CheckIngressAdmission(n.mmu, in, q, s)
  <2>1. u = DequeueAndTransmit(c, out)
    BY <1>1, <1>3 DEF DoSwitchSend, SwitchSend
  <2>2. FlagsKept(n.mmu, m)
    BY UpdateKeepsFlags
  <2>. HIDE DEF m, pkt, u
  <2>3. Follows(n, a) /\ a.dev = n.dev
    BY <2>2, SetMmuFollows
  <2>. HIDE DEF a
  <2>4. Follows(a, b) /\ Kept(a, b)
    BY <2>3, CheckPfcFollows, CheckPfcEffect DEF Follows
  <2>5. Follows(n, b)
    BY <2>3, <2>4, FollowsTwice
  <2>. HIDE DEF b
  <2>6. /\ DeviceSet(b, c, out, c.dev[out])
        /\ c.dev[out].current = b.dev[out].current
        /\ \A j \in Queues : c.dev[out].queue[j] = IF j = q THEN Append(b.dev[out].queue[q], pkt)
                                                   ELSE b.dev[out].queue[j]
    BY <1>1, <2>4, EnqueueEffect DEF Kept
  <2>. HIDE DEF c
  <2>7. \A r \in Ports : Line(c, r) = Line(b, r)
    BY <1>1, <2>6 DEF DeviceSet, Line, Busy
  <2>8. Follows(b, c)
    BY <2>5, <2>6, <2>7, FollowsSame DEF Follows, DeviceSet, FlagsKept
  <2>9. Onward(c, out)
    <3>1. \A j \in Prios : b.dev[out].queue[j] \in Seq(From(out))
      BY <2>3, <2>4 DEF Kept, LosslessSame, Onward
    <3>2. pkt \in From(out)
      BY <1>1 DEF From
    <3>3. Append(b.dev[out].queue[q], pkt) \in Seq(From(out))
      BY <3>1, <3>2
    <3>4. \A j \in Prios : c.dev[out].queue[j] \in Seq(From(out))
      BY <1>1, <2>6, <3>1, <3>3
    <3>. QED  BY <3>4 DEF Onward
  <2>10. Follows(c, u)
    BY <2>1, <2>8, <2>9, DequeueFollows DEF Follows
  <2>11. Follows(n, c)
    BY <2>5, <2>8, FollowsTwice
  <2>. QED  BY <2>10, <2>11, FollowsTwice DEF u, pkt
<1>. QED  BY <1>2, <1>3

LEMMA DataFollows ==
    ASSUME NEW n, NodeShape(n), Flagged(n.mmu), NEW in \in Ports, NEW out \in Ports, in # out,
           NEW q \in Prios, NEW s \in Sizes, Onward(n, out)
    PROVE  Follows(n, ReceiveData(n, in, out, q, s))
<1>1. DataPacket(in, q, s) \in Packet /\ DataPacket(in, q, s).kind \notin Kinds
  BY PacketFacts DEF DataPacket, Kinds
<1>. QED  BY <1>1, BypassFollows, SendFollows DEF ReceiveData, QueueOf

LEMMA DequeuePauses ==
    ASSUME NEW n, NodeShape(n), NEW p \in Ports
    PROVE  \A r \in Ports : DequeueAndTransmit(n, p).dev[r].paused = n.dev[r].paused
<1>. DEFINE u == DequeueAndTransmit(n, p)
<1>1. Kept(n, u) \/ \E q \in Prios : Served(n, u, p, q)
  BY DequeueEffect
<1>. HIDE DEF u
<1>2. \A r \in Ports : u.dev[r].paused = n.dev[r].paused
  BY <1>1 DEF Kept, LosslessSame, Served
<1>. QED  BY <1>2 DEF u

LEMMA PfcFollows ==
    ASSUME NEW n, NodeShape(n), Flagged(n.mmu), NEW p \in Ports, NEW q \in Prios,
           NEW type \in Kinds, Onward(n, p)
    PROVE  /\ Follows(n, ReceivePfc(n, p, type, q))
           /\ \A r \in Ports, j \in Prios :
                  ReceivePfc(n, p, type, q).dev[r].paused[j]
                      = IF r = p /\ j = q THEN type = "pause" ELSE n.dev[r].paused[j]
<1>. DEFINE x == type = "pause"
            f == [n.dev[p].paused EXCEPT ![q] = x]
            v == [n EXCEPT !.dev[p] = [n.dev[p] EXCEPT !.paused = f]]
            u == ReceivePfc(n, p, type, q)
<1>1. n.dev[p].paused \in [Prios -> BOOLEAN]
  BY DeviceFacts
<1>2. f \in [Prios -> BOOLEAN] /\ \A j \in Prios : f[j] = IF j = q THEN x ELSE n.dev[p].paused[j]
  BY <1>1
<1>3. u = IF x THEN v ELSE DequeueAndTransmit(v, p)
  BY DEF ReceivePfc, Kinds
<1>. HIDE DEF f, x
<1>4. PausesSet(n, v, p, f)
  BY <1>2, PausedEffect
<1>. HIDE DEF v, u
<1>5. \A r \in Ports : Line(v, r) = Line(n, r)
  BY <1>4 DEF PausesSet, DeviceSet, Line, Busy
<1>6. Follows(n, v)
  BY <1>4, <1>5, FollowsSame DEF PausesSet, DeviceSet, FlagsKept
<1>7. \A r \in Ports, j \in Prios :
          v.dev[r].paused[j] = IF r = p /\ j = q THEN x ELSE n.dev[r].paused[j]
  BY <1>2, <1>4 DEF PausesSet, DeviceSet
<1>8. CASE x
  BY <1>3, <1>6, <1>7, <1>8 DEF u, x
<1>9. CASE ~ x
  <2>1. Onward(v, p) /\ NodeShape(v) /\ Flagged(v.mmu)
    BY <1>4, <1>6 DEF Onward, PausesSet, DeviceSet, Follows
  <2>2. u = DequeueAndTransmit(v, p)
    BY <1>3, <1>9
  <2>3. Follows(v, u)
    BY <2>1, <2>2, DequeueFollows
  <2>4. \A r \in Ports : u.dev[r].paused = v.dev[r].paused
    BY <2>1, <2>2, DequeuePauses
  <2>. QED  BY <1>6, <1>7, <2>3, <2>4, FollowsTwice DEF u, x
<1>. QED  BY <1>8, <1>9

(* A transmission that ends takes its packet from the line; what follows   *)
(* is as for an idle device.                                               *)
LEMMA CompleteFollows ==
    ASSUME NEW n, NodeShape(n), Flagged(n.mmu), NEW p \in Ports, Onward(n, p), Busy(n, p)
    PROVE  LET u == TransmitComplete(n, p)
           IN  /\ NodeShape(u) /\ Flagged(u.mmu)
               /\ \A r \in Ports : u.dev[r].paused = n.dev[r].paused
               /\ n.dev[p].current \in Packet
               /\ \E rest \in Seq(Packet) :
                      /\ Line(n, p) = <<n.dev[p].current>> \o rest
                      /\ \E s \in Seq(Packet) :
                             /\ Line(u, p) = rest \o s
                             /\ \A q \in Prios : Tells(s, q, Kind(n.mmu.paused[p][q]),
                                                             Kind(u.mmu.paused[p][q]))
               /\ \A r \in Ports : r # p => \E s \in Seq(Packet) : Signals(n, u, r, s)
<1>. DEFINE d == n.dev[p]
            e == [d EXCEPT !.current = NoPacket]
            v == [n EXCEPT !.dev[p] = e]
            u == TransmitComplete(n, p)
<1>1. u = DequeueAndTransmit(v, p)
  BY DEF TransmitComplete
<1>2. d \in SwitchDevice /\ d.current \in Packet
  BY DeviceFacts DEF Busy
<1>. HIDE DEF d
<1>3. e \in SwitchDevice /\ e.queue = d.queue /\ e.paused = d.paused /\ e.current = NoPacket
  BY <1>2 DEF SwitchDevice
<1>. HIDE DEF e
<1>4. DeviceSet(n, v, p, e)
  BY <1>3, SetDevice
<1>. HIDE DEF v, u
<1>5. NodeShape(v) /\ v.mmu = n.mmu /\ Onward(v, p) /\ v.dev[p] = e
      /\ \A r \in Ports : r # p => v.dev[r] = n.dev[r]
  BY <1>3, <1>4 DEF DeviceSet, Onward, d
<1>6. Follows(v, u)
  BY <1>1, <1>5, DequeueFollows
<1>7. \A r \in Ports : u.dev[r].paused = n.dev[r].paused
  <2>1. \A r \in Ports : u.dev[r].paused = v.dev[r].paused
    BY <1>1, <1>5, DequeuePauses
  <2>. QED  BY <1>3, <1>5, <2>1 DEF d
<1>8. \A r \in Ports : r # p => Line(v, r) = Line(n, r)
  BY <1>5, LineSame
<1>9. \A r \in Ports : r # p => \E s \in Seq(Packet) : Signals(n, u, r, s)
  BY <1>5, <1>6, <1>8 DEF Follows, Signals
<1>10. Line(v, p) = d.queue[0] /\ Line(n, p) = <<d.current>> \o Line(v, p) /\ Line(v, p) \in Seq(Packet)
  <2>1. Line(v, p) = <<>> \o d.queue[0]
    BY <1>3, <1>5 DEF Line, Busy
  <2>2. d.queue[0] \in Seq(Packet)
    BY LineType DEF d
  <2>3. Line(v, p) = d.queue[0]
    BY <2>1, <2>2, ConcatEmptySeq
  <2>4. Line(n, p) = <<d.current>> \o d.queue[0]
    BY DEF Line, d
  <2>. QED  BY <2>2, <2>3, <2>4
<1>11. \E s \in Seq(Packet) :
           /\ Line(u, p) = Line(v, p) \o s
           /\ \A q \in Prios : Tells(s, q, Kind(n.mmu.paused[p][q]), Kind(u.mmu.paused[p][q]))
  BY <1>5, <1>6 DEF Follows, Signals
<1>. QED  BY <1>2, <1>6, <1>7, <1>9, <1>10, <1>11 DEF Follows, u, d

LEMMA OutcomeOnward ==
    ASSUME NEW n, NodeShape(n), \A p \in Ports : Onward(n, p), NEW u, Outcome(n, u)
    PROVE  \A p \in Ports : Onward(u, p)
<1>. SUFFICES ASSUME NEW p \in Ports, NEW j \in Prios PROVE u.dev[p].queue[j] \in Seq(From(p))
  BY DEF Onward
<1>0. n.dev[p].queue[j] \in Seq(From(p))
  BY DEF Onward
<1>1. CASE SameQueues(n, u)
  BY <1>0, <1>1 DEF SameQueues
<1>2. ASSUME NEW in \in Ports, NEW out \in Ports, NEW q \in Prios, NEW s \in Sizes, in # out,
             Queued(n, u, in, out, q, s)
      PROVE  u.dev[p].queue[j] \in Seq(From(p))
  <2>. DEFINE pkt == DataPacket(in, q, s)
  <2>1. pkt \in Lossless /\ pkt.in = in
    BY PacketFacts DEF DataPacket
  <2>2. \/ u.dev[p].queue[j] = n.dev[p].queue[j]
        \/ p = out /\ u.dev[p].queue[j] = Append(n.dev[p].queue[j], pkt)
    BY <1>2 DEF Queued, LosslessSame
  <2>. HIDE DEF pkt
  <2>3. p = out => pkt \in From(p)
    BY <1>2, <2>1 DEF From
  <2>4. p = out => Append(n.dev[p].queue[j], pkt) \in Seq(From(p))
    BY <1>0, <2>3
  <2>. QED  BY <1>0, <2>2, <2>4
<1>3. ASSUME NEW in, NEW out, NEW q, NEW s, Forwarded(n, u, in, out, q, s)
      PROVE  u.dev[p].queue[j] \in Seq(From(p))
  BY <1>0, <1>3 DEF Forwarded, LosslessSame
<1>4. ASSUME NEW o \in Ports, NEW q \in Prios, NEW v, Offered(n, v, o), Served(v, u, o, q)
      PROVE  u.dev[p].queue[j] \in Seq(From(p))
  <2>1. v.dev[p].queue[j] = n.dev[p].queue[j]
    BY <1>4 DEF Offered, DeviceSet
  <2>2. \/ u.dev[p].queue[j] = v.dev[p].queue[j]
        \/ p = o /\ j = q /\ u.dev[p].queue[j] = Tail(v.dev[p].queue[j])
    BY <1>4 DEF Served, LosslessSame
  <2>3. p = o /\ j = q => v.dev[p].queue[j] # <<>>
    BY <1>4 DEF Served, InTurn, Ready
  <2>4. n.dev[p].queue[j] # <<>> => Tail(n.dev[p].queue[j]) \in Seq(From(p))
    BY <1>0, HeadTailProperties
  <2>. QED  BY <1>0, <2>1, <2>2, <2>3, <2>4
<1>. QED  BY <1>1, <1>2, <1>3, <1>4 DEF Outcome

LEMMA DataPauses ==
    ASSUME NEW n, NodeShape(n), Conserving(n), NEW in \in Ports, NEW out \in Ports,
           NEW q \in Prios, NEW s \in Sizes, NEW r \in Ports
    PROVE  ReceiveData(n, in, out, q, s).dev[r].paused = n.dev[r].paused
<1>. DEFINE pkt == DataPacket(in, q, s)
<1>1. pkt \in Packet /\ pkt.in = in /\ pkt.size = s /\ q # 0
  BY PacketFacts DEF DataPacket
<1>2. DoSwitchSend(n, out, 0, pkt).dev[r].paused = n.dev[r].paused
  BY <1>1, BypassEffect DEF Kept, LosslessSame
<1>3. DoSwitchSend(n, out, q, pkt).dev[r].paused = n.dev[r].paused
  <2>. DEFINE u == DoSwitchSend(n, out, q, pkt)
  <2>1. CASE ~ CheckIngressAdmission(n.mmu, in, q, s)
    BY <1>1, <2>1 DEF DoSwitchSend
  <2>2. CASE CheckIngressAdmission(n.mmu, in, q, s)
    <3>1. Queued(n, u, in, out, q, s) \/ Forwarded(n, u, in, out, q, s)
      BY <2>2, SendEffect
    <3>. HIDE DEF u
    <3>2. u.dev[r].paused = n.dev[r].paused
      BY <3>1 DEF Queued, Forwarded, LosslessSame
    <3>. QED  BY <3>2 DEF u
  <2>. QED  BY <2>1, <2>2
<1>. QED  BY <1>2, <1>3 DEF ReceiveData, QueueOf

-----------------------------------------------------------------------------
(* The fabric.  Whatever is lost, the switch is a switch and the links     *)
(* carry frames.                                                           *)
LinkShape ==
    /\ paused \in PerQueue(BOOLEAN) /\ pausing \in PerQueue(BOOLEAN)
    /\ up \in [Ports -> Seq(Packet)] /\ down \in [Ports -> Seq(Packet)]
    /\ corrupted \in 0 .. MaxCorrupt

FabricInv == FairInv /\ LinkShape /\ \A p \in Ports : Onward(node, p)

LEMMA UnitFlagged ==
    ASSUME FairInv
    PROVE  NodeShape(node) /\ Conserving(node) /\ Flagged(node.mmu)
BY DEF FairInv, SwitchInv, IInv, AccountInv, MmuState, Flagged

LEMMA PacketKinds ==
    ASSUME NEW f \in Packet
    PROVE  /\ f.kind = "data" => f.in \in Ports /\ f.q \in Prios /\ f.size \in Sizes
           /\ f.kind \in Kinds => f.q \in Prios /\ f = PfcFrame(f.kind, f.q)
BY DEF Packet, Control, PfcFrame, Kinds

(* What the switch does with an arriving frame.                            *)
LEMMA ReceiveCases ==
    ASSUME FabricInv, NEW p \in Ports, SwitchReceive(p)
    PROVE  LET f == Head(up[p])
           IN  /\ up[p] # <<>> /\ f \in Packet /\ skipped' = Skips(node, node')
               /\ \/ /\ f.kind = "data"
                     /\ \E out \in Ports : out # p /\ node' = ReceiveData(node, p, out, f.q, f.size)
                  \/ /\ f.kind \in Kinds
                     /\ node' = ReceivePfc(node, p, f.kind, f.q)
<1>1. up[p] # <<>> /\ up[p] \in Seq(Packet)
  BY DEF SwitchReceive, CanReceive, FabricInv, LinkShape
<1>2. Head(up[p]) \in Packet
  BY <1>1, HeadTailProperties
<1>3. \A out \in NextHops(p) : out \in Ports /\ out # p
  BY RoutesAssumption DEF NextHops
<1>. QED  BY <1>1, <1>2, <1>3 DEF SwitchReceive, Step, Kinds

LEMMA ReceiveOutcome ==
    ASSUME FabricInv, NEW p \in Ports, SwitchReceive(p)
    PROVE  /\ Outcome(node, node') /\ skipped' = Skips(node, node')
           /\ Follows(node, node')
<1>. DEFINE f == Head(up[p])
<1>1. /\ f \in Packet /\ skipped' = Skips(node, node')
      /\ \/ /\ f.kind = "data"
            /\ \E out \in Ports : out # p /\ node' = ReceiveData(node, p, out, f.q, f.size)
         \/ /\ f.kind \in Kinds
            /\ node' = ReceivePfc(node, p, f.kind, f.q)
  BY ReceiveCases
<1>2. /\ NodeShape(node) /\ Conserving(node) /\ Flagged(node.mmu)
      /\ \A r \in Ports : Onward(node, r)
  BY UnitFlagged DEF FabricInv
<1>. HIDE DEF f
<1>3. ASSUME f.kind = "data", NEW out \in Ports, out # p,
             node' = ReceiveData(node, p, out, f.q, f.size)
      PROVE  Outcome(node, node') /\ Follows(node, node')
  <2>1. f.q \in Prios /\ f.size \in Sizes
    BY <1>1, <1>3, PacketKinds
  <2>. QED  BY <1>2, <1>3, <2>1, DataOutcome, DataFollows
<1>4. ASSUME f.kind \in Kinds, node' = ReceivePfc(node, p, f.kind, f.q)
      PROVE  Outcome(node, node') /\ Follows(node, node')
  <2>1. f.q \in Prios /\ f.kind \in {"pause", "resume"}
    BY <1>1, <1>4, PacketKinds DEF Kinds
  <2>2. Outcome(node, node')
    BY <1>2, <1>4, <2>1, PfcOutcome
  <2>3. Follows(node, node')
    BY <1>2, <1>4, <2>1, PfcFollows
  <2>. QED  BY <2>2, <2>3
<1>. QED  BY <1>1, <1>3, <1>4

LEMMA CompleteOutcome ==
    ASSUME FabricInv, NEW p \in Ports, SwitchTransmitComplete(p)
    PROVE  Outcome(node, node') /\ skipped' = Skips(node, node')
<1>. DEFINE v == [node EXCEPT !.dev[p].current = NoPacket]
<1>1. node' = DequeueAndTransmit(v, p) /\ skipped' = Skips(node, node')
  BY DEF SwitchTransmitComplete, TransmitComplete, Step
<1>2. NodeShape(node) /\ Conserving(node)
  BY UnitFlagged DEF FabricInv
<1>3. Offered(node, v, p)
  BY <1>2, CompletedEffect
<1>. QED  BY <1>1, <1>2, <1>3, OfferedOutcome

LEMMA FabricKept ==
    ASSUME FabricInv, Outcome(node, node'), skipped' = Skips(node, node')
    PROVE  FairInv' /\ \A p \in Ports : Onward(node, p)'
<1>1. FairInv'
  BY FairKept DEF FabricInv
<1>2. \A p \in Ports : Onward(node', p)
  BY OutcomeOnward, UnitFlagged DEF FabricInv
<1>. QED  BY <1>1, <1>2

LEMMA FabricInit1 == FabricInit => FabricInv
<1>. SUFFICES ASSUME FabricInit PROVE FabricInv
  OBVIOUS
<1>1. FairInv
  BY FairInit DEF FabricInit
<1>2. LinkShape
  BY FabricAssumption DEF FabricInit, LinkShape, PerQueue
<1>3. \A p \in Ports : Onward(node, p)
  <2>1. \A p \in Ports : \A q \in Prios : node.dev[p].queue[q] = <<>>
    BY PacketFacts DEF FabricInit, NodeInit, InitNode
  <2>2. \A p \in Ports : <<>> \in Seq(From(p))
    OBVIOUS
  <2>. QED  BY <2>1, <2>2 DEF Onward
<1>. QED  BY <1>1, <1>2, <1>3 DEF FabricInv

(* A frame appended to a link, or taken from it.                           *)
LEMMA LinkAppend ==
    ASSUME NEW w \in [Ports -> Seq(Packet)], NEW p \in Ports, NEW f \in Packet
    PROVE  LET u == [w EXCEPT ![p] = Append(@, f)]
           IN  /\ u \in [Ports -> Seq(Packet)]
               /\ u[p] = w[p] \o <<f>>
               /\ \A r \in Ports : r # p => u[r] = w[r]
<1>1. w[p] \in Seq(Packet) /\ Append(w[p], f) \in Seq(Packet) /\ Append(w[p], f) = w[p] \o <<f>>
  OBVIOUS
<1>. QED  BY <1>1

LEMMA LinkTail ==
    ASSUME NEW w \in [Ports -> Seq(Packet)], NEW p \in Ports, w[p] # <<>>
    PROVE  LET u == [w EXCEPT ![p] = Tail(@)]
           IN  /\ u \in [Ports -> Seq(Packet)]
               /\ u[p] = Tail(w[p])
               /\ \A r \in Ports : r # p => u[r] = w[r]
               /\ Head(w[p]) \in Packet
<1>1. w[p] \in Seq(Packet) /\ Tail(w[p]) \in Seq(Packet) /\ Head(w[p]) \in Packet
  BY HeadTailProperties
<1>. QED  BY <1>1

(* The station's switch pauses the device, or resumes it.                  *)
LEMMA StationPfcShape ==
    ASSUME LinkShape, NEW p \in Ports, NEW q \in Prios, NEW type \in Kinds,
           StationPfc(p, q, type)
    PROVE  up' \in [Ports -> Seq(Packet)] /\ pausing' \in PerQueue(BOOLEAN)
<1>1. PfcFrame(type, q) \in Packet
  BY PacketFacts DEF Kinds
<1>2. up' \in [Ports -> Seq(Packet)]
  BY <1>1, LinkAppend DEF StationPfc, LinkShape
<1>3. pausing' \in PerQueue(BOOLEAN)
  BY DEF StationPfc, LinkShape, PerQueue
<1>. QED  BY <1>2, <1>3

LEMMA FabricNext1 == FabricInv /\ [FabricNext]_fabricVars => FabricInv'
<1>. SUFFICES ASSUME FabricInv, [FabricNext]_fabricVars PROVE FabricInv'
  OBVIOUS
<1>0. /\ FairInv /\ LinkShape /\ \A p \in Ports : Onward(node, p)
      /\ up \in [Ports -> Seq(Packet)] /\ down \in [Ports -> Seq(Packet)]
  BY DEF FabricInv, LinkShape
<1>10. ASSUME UNCHANGED <<node, skipped>>
      PROVE  FairInv' /\ \A p \in Ports : Onward(node, p)'
  BY <1>0, <1>10 DEF FairInv, Onward
<1>1. ASSUME NEW p \in Ports, NEW q \in Prios, NEW s \in Sizes, StationSend(p, q, s)
      PROVE  FabricInv'
  <2>1. DataPacket(p, q, s) \in Packet
    BY PacketFacts
  <2>2. up' \in [Ports -> Seq(Packet)]
    BY <1>0, <1>1, <2>1, LinkAppend DEF StationSend
  <2>. QED  BY <1>0, <1>1, <1>10, <2>2 DEF FabricInv, LinkShape, StationSend
<1>2. ASSUME NEW p \in Ports, NEW q \in Prios, StationResume(p, q) PROVE FabricInv'
  <2>1. up' \in [Ports -> Seq(Packet)] /\ pausing' \in PerQueue(BOOLEAN)
    BY <1>0, <1>2, StationPfcShape DEF StationResume, Kinds
  <2>2. UNCHANGED <<node, skipped, paused, down, corrupted>>
    BY <1>2 DEF StationResume
  <2>. QED  BY <1>0, <1>10, <2>1, <2>2 DEF FabricInv, LinkShape
<1>3. ASSUME NEW p \in Ports, SwitchReceive(p) PROVE FabricInv'
  <2>1. FairInv' /\ \A r \in Ports : Onward(node, r)'
    BY <1>3, ReceiveOutcome, FabricKept
  <2>2. up' \in [Ports -> Seq(Packet)]
    BY <1>0, <1>3, LinkTail DEF SwitchReceive, CanReceive
  <2>. QED  BY <1>0, <1>3, <2>1, <2>2 DEF FabricInv, LinkShape, SwitchReceive
<1>4. ASSUME NEW p \in Ports, SwitchTransmitComplete(p) PROVE FabricInv'
  <2>1. FairInv' /\ \A r \in Ports : Onward(node, r)'
    BY <1>4, CompleteOutcome, FabricKept
  <2>2. node.dev[p].current \in Packet
    BY <1>0, <1>4, UnitFlagged, DeviceFacts DEF SwitchTransmitComplete, CanComplete, Busy
  <2>3. down' \in [Ports -> Seq(Packet)]
    BY <1>0, <1>4, <2>2, LinkAppend DEF SwitchTransmitComplete
  <2>. QED  BY <1>0, <1>4, <2>1, <2>3 DEF FabricInv, LinkShape, SwitchTransmitComplete
<1>5. ASSUME NEW p \in Ports, StationReceive(p) PROVE FabricInv'
  <2>1. down' \in [Ports -> Seq(Packet)]
    BY <1>0, <1>5, LinkTail DEF StationReceive
  <2>2. paused' \in PerQueue(BOOLEAN)
    BY <1>0, <1>5 DEF StationReceive, LinkShape, PerQueue
  <2>3. up' \in [Ports -> Seq(Packet)] /\ pausing' \in PerQueue(BOOLEAN)
    <3>1. CASE UNCHANGED <<pausing, up>>
      BY <1>0, <3>1 DEF LinkShape
    <3>2. CASE Head(down[p]).kind = "data" /\ StationPfc(p, Head(down[p]).q, "pause")
      <4>1. Head(down[p]) \in Packet
        BY <1>0, <1>5, LinkTail DEF StationReceive
      <4>2. Head(down[p]).q \in Prios
        BY <3>2, <4>1, PacketKinds
      <4>. QED  BY <1>0, <3>2, <4>2, StationPfcShape DEF Kinds
    <3>. QED  BY <1>5, <3>1, <3>2 DEF StationReceive
  <2>4. UNCHANGED <<node, skipped, corrupted>>
    BY <1>5 DEF StationReceive
  <2>. QED  BY <1>0, <1>10, <2>1, <2>2, <2>3, <2>4 DEF FabricInv, LinkShape
<1>6. ASSUME NEW p \in Ports, Corrupt(p) PROVE FabricInv'
  <2>1. up' \in [Ports -> Seq(Packet)] /\ down' \in [Ports -> Seq(Packet)]
    <3>1. CASE up[p] # <<>> /\ up' = [up EXCEPT ![p] = Tail(@)] /\ UNCHANGED down
      BY <1>0, <3>1, LinkTail
    <3>2. CASE down[p] # <<>> /\ down' = [down EXCEPT ![p] = Tail(@)] /\ UNCHANGED up
      BY <1>0, <3>2, LinkTail
    <3>. QED  BY <1>6, <3>1, <3>2 DEF Corrupt
  <2>2. corrupted' \in 0 .. MaxCorrupt
    BY <1>0, <1>6, FabricAssumption DEF Corrupt, LinkShape
  <2>. QED  BY <1>0, <1>6, <1>10, <2>1, <2>2 DEF FabricInv, LinkShape, Corrupt
<1>7. CASE UNCHANGED fabricVars
  BY <1>0, <1>7, <1>10 DEF fabricVars, FabricInv, LinkShape
<1>. QED  BY <1>1, <1>2, <1>3, <1>4, <1>5, <1>6, <1>7 DEF FabricNext, Kinds

(* The invariant of the fabric: its switch keeps the invariants of the     *)
(* switch, no packet waits where it came in, and links carry frames.       *)
THEOREM FabricInvariant == FabricSpec => []FabricInv
<1>. QED  BY FabricInit1, FabricNext1, PTL DEF FabricSpec

(* The state of the fabric keeps its type and its bounds.                  *)
THEOREM FabricTypes == FabricSpec => []FabricTypeOK
<1>1. FabricInv => FabricTypeOK
  <2>. SUFFICES ASSUME FabricInv PROVE FabricTypeOK
    OBVIOUS
  <2>1. SwitchDevice \subseteq Device
    BY DEF SwitchDevice, Device, QueueSet
  <2>2. NodeTypeOK
    BY <2>1 DEF FabricInv, FairInv, SwitchInv, IInv, AccountInv, NodeShape, NodeTypeOK
  <2>. QED  BY <2>2 DEF FabricInv, LinkShape, FabricTypeOK
<1>. QED  BY <1>1, FabricInvariant, PTL

-----------------------------------------------------------------------------
(* Both ends of every link agree, in both directions, except for what is   *)
(* on its way.                                                             *)
DownAgrees(p, q) == Tells(Frames(p), q, Kind(paused[p][q]), Kind(node.mmu.paused[p][q]))
UpAgrees(p, q)   == Tells(up[p], q, Kind(node.dev[p].paused[q]), Kind(pausing[p][q]))

AgreeInv == \A p \in Ports, q \in Prios : DownAgrees(p, q) /\ UpAgrees(p, q)

LEMMA FramesType ==
    ASSUME FabricInv, NEW p \in Ports
    PROVE  /\ Line(node, p) \in Seq(Packet) /\ down[p] \in Seq(Packet) /\ up[p] \in Seq(Packet)
           /\ Frames(p) \in Seq(Packet)
<1>1. Line(node, p) \in Seq(Packet) /\ down[p] \in Seq(Packet) /\ up[p] \in Seq(Packet)
  BY UnitFlagged, LineType DEF FabricInv, LinkShape
<1>2. down[p] \o Line(node, p) \in Seq(Packet)
  BY <1>1, ConcatProperties
<1>. QED  BY <1>1, <1>2 DEF Frames

(* The frames that a step of the switch adds.                              *)
LEMMA FramesAdded ==
    ASSUME FabricInv, NEW p \in Ports, NEW q \in Prios, DownAgrees(p, q),
           NEW s \in Seq(Packet), NEW t, t = Frames(p) \o s, NEW y,
           Tells(s, q, Kind(node.mmu.paused[p][q]), y)
    PROVE  Tells(t, q, Kind(paused[p][q]), y)
BY FramesType, TellsConcat DEF DownAgrees

LEMMA TellsAppend ==
    ASSUME NEW s \in Seq(Packet), NEW f \in Packet, NEW q, NEW x, NEW y \in Kinds, NEW z \in Kinds,
           Tells(s, q, x, y),
           IF Concerns(f, q) THEN z = f.kind /\ z # y ELSE z = y
    PROVE  Tells(s \o <<f>>, q, x, z)
<1>1. Tells(<<f>>, q, y, z)
  BY TellsOne
<1>2. <<f>> \in Seq(Packet)
  OBVIOUS
<1>. QED  BY <1>1, <1>2, TellsConcat

LEMMA ConcatTail ==
    ASSUME NEW s \in Seq(Packet), s # <<>>, NEW t \in Seq(Packet)
    PROVE  /\ s \o t \in Seq(Packet) /\ s \o t # <<>>
           /\ Head(s \o t) = Head(s) /\ Tail(s \o t) = Tail(s) \o t
<1>. DEFINE u == s \o t
            v == Tail(s) \o t
<1>1. /\ u \in Seq(Packet) /\ Len(u) = Len(s) + Len(t) /\ Len(s) \in Nat /\ Len(s) > 0
      /\ Len(t) \in Nat
      /\ \A i \in 1 .. Len(s) : u[i] = s[i]
      /\ \A i \in 1 .. Len(t) : u[Len(s) + i] = t[i]
  BY ConcatProperties
<1>2. /\ Tail(s) \in Seq(Packet) /\ Len(Tail(s)) = Len(s) - 1
      /\ \A i \in 1 .. Len(s) - 1 : Tail(s)[i] = s[i + 1]
  BY HeadTailProperties
<1>3. /\ v \in Seq(Packet) /\ Len(v) = Len(s) - 1 + Len(t)
      /\ \A i \in 1 .. Len(s) - 1 : v[i] = Tail(s)[i]
      /\ \A i \in 1 .. Len(t) : v[Len(s) - 1 + i] = t[i]
  BY <1>2, ConcatProperties
<1>. HIDE DEF u, v
<1>4. u # <<>>
  BY <1>1
<1>5. /\ Tail(u) \in Seq(Packet) /\ Len(Tail(u)) = Len(u) - 1
      /\ \A i \in 1 .. Len(u) - 1 : Tail(u)[i] = u[i + 1]
  BY <1>1, <1>4, HeadTailProperties
<1>6. Head(u) = Head(s)
  BY <1>1, <1>4
<1>7. ASSUME NEW i \in 1 .. Len(v) PROVE Tail(u)[i] = v[i]
  <2>1. Tail(u)[i] = u[i + 1]
    BY <1>1, <1>3, <1>5
  <2>2. CASE i <= Len(s) - 1
    <3>1. i \in 1 .. Len(s) - 1 /\ i + 1 \in 1 .. Len(s)
      BY <1>1, <2>2
    <3>. QED  BY <1>1, <1>2, <1>3, <2>1, <3>1
  <2>3. CASE ~ (i <= Len(s) - 1)
    <3>. DEFINE j == i - (Len(s) - 1)
    <3>1. j \in 1 .. Len(t) /\ i + 1 = Len(s) + j /\ i = Len(s) - 1 + j
      BY <1>1, <1>3, <2>3
    <3>. HIDE DEF j
    <3>2. u[i + 1] = t[j]
      BY <1>1, <3>1
    <3>3. v[i] = t[j]
      BY <1>3, <3>1
    <3>. QED  BY <2>1, <3>2, <3>3
  <2>. QED  BY <2>2, <2>3
<1>8. Len(Tail(u)) = Len(v)
  BY <1>1, <1>3, <1>5
<1>9. Tail(u) = v
  BY <1>3, <1>5, <1>7, <1>8
<1>. QED  BY <1>1, <1>4, <1>6, <1>9 DEF u, v

(* A frame that is received or lost at the head of a link.                 *)
LEMMA FramesTail ==
    ASSUME FabricInv, NEW p \in Ports, NEW q \in Prios, DownAgrees(p, q), down[p] # <<>>,
           NEW t, t = Tail(down[p]) \o Line(node, p)
    PROVE  LET f == Head(down[p])
           IN  IF Concerns(f, q)
               THEN /\ f.kind # Kind(paused[p][q])
                    /\ Tells(t, q, f.kind, Kind(node.mmu.paused[p][q]))
               ELSE Tells(t, q, Kind(paused[p][q]), Kind(node.mmu.paused[p][q]))
<1>. DEFINE w == down[p]
            l == Line(node, p)
            s == w \o l
<1>1. w \in Seq(Packet) /\ l \in Seq(Packet)
  BY FramesType
<1>2. Tells(s, q, Kind(paused[p][q]), Kind(node.mmu.paused[p][q]))
  BY DEF DownAgrees, Frames
<1>. HIDE DEF w, l
<1>3. s \in Seq(Packet) /\ s # <<>> /\ Head(s) = Head(w) /\ Tail(s) = Tail(w) \o l
  BY <1>1, ConcatTail DEF w
<1>4. t = Tail(s)
  BY <1>3 DEF w, l
<1>. HIDE DEF s
<1>. QED  BY <1>2, <1>3, <1>4, TellsTail DEF w

LEMMA AgreeInit == FabricInit => AgreeInv
<1>. SUFFICES ASSUME FabricInit, NEW p \in Ports, NEW q \in Prios
              PROVE  DownAgrees(p, q) /\ UpAgrees(p, q)
  BY DEF AgreeInv
<1>1. /\ node.dev[p].queue[0] = <<>> /\ node.dev[p].current = NoPacket
      /\ node.dev[p].paused[q] = FALSE /\ node.mmu.paused[p][q] = FALSE
  BY PacketFacts DEF FabricInit, NodeInit, InitNode, EmptyMmu
<1>2. down[p] = <<>> /\ up[p] = <<>> /\ paused[p][q] = FALSE /\ pausing[p][q] = FALSE
  BY DEF FabricInit
<1>3. Frames(p) = <<>>
  <2>1. <<>> \o (<<>> \o <<>>) = <<>>
    BY <<>> \in Seq(Packet), ConcatEmptySeq
  <2>. QED  BY <1>1, <1>2, <2>1 DEF Frames, Line, Busy
<1>. QED  BY <1>1, <1>2, <1>3, TellsNothing, KindOf DEF DownAgrees, UpAgrees

LEMMA SendAgrees ==
    ASSUME FabricInv, AgreeInv, NEW p0 \in Ports, NEW q0 \in Prios, NEW s \in Sizes,
           StationSend(p0, q0, s), NEW p \in Ports, NEW q \in Prios
    PROVE  DownAgrees(p, q)' /\ UpAgrees(p, q)'
<1>. DEFINE f == DataPacket(p0, q0, s)
<1>1. f \in Packet /\ ~ Concerns(f, q)
  BY PacketFacts, ConcernsPfcOnly DEF DataPacket, Kinds
<1>. HIDE DEF f
<1>2. /\ up \in [Ports -> Seq(Packet)] /\ up' = [up EXCEPT ![p0] = Append(@, f)]
      /\ UNCHANGED <<node, paused, pausing, down>>
  BY DEF StationSend, FabricInv, LinkShape, f
<1>3. DownAgrees(p, q)'
  BY <1>2 DEF AgreeInv, DownAgrees, Frames
<1>4. up'[p] = IF p = p0 THEN up[p] \o <<f>> ELSE up[p]
  <2>1. up'[p] = IF p = p0 THEN Append(up[p], f) ELSE up[p]
    BY <1>2
  <2>2. Append(up[p], f) = up[p] \o <<f>>
    BY <1>1, <1>2
  <2>. QED  BY <2>1, <2>2
<1>5. Tells(up'[p], q, Kind(node.dev[p].paused[q]), Kind(pausing[p][q]))
  <2>1. Tells(up[p], q, Kind(node.dev[p].paused[q]), Kind(pausing[p][q]))
    BY DEF AgreeInv, UpAgrees
  <2>2. up[p] \in Seq(Packet) /\ Kind(pausing[p][q]) \in Kinds
    BY <1>2, KindOf
  <2>. QED  BY <1>1, <1>4, <2>1, <2>2, TellsAppend
<1>. QED  BY <1>2, <1>3, <1>5 DEF UpAgrees

LEMMA PfcAgrees ==
    ASSUME FabricInv, AgreeInv, NEW p0 \in Ports, NEW q0 \in Prios, NEW type \in Kinds,
           StationPfc(p0, q0, type), UNCHANGED node, NEW p \in Ports, NEW q \in Prios
    PROVE  UpAgrees(p, q)'
<1>. DEFINE f == PfcFrame(type, q0)
<1>1. f \in Packet /\ f.kind = type /\ (Concerns(f, q) <=> q = q0)
  BY PacketFacts DEF PfcFrame, Concerns, Kinds
<1>. HIDE DEF f
<1>2. /\ up \in [Ports -> Seq(Packet)] /\ up' = [up EXCEPT ![p0] = Append(@, f)]
      /\ pausing \in [Ports -> [Prios -> BOOLEAN]]
      /\ pausing' = [pausing EXCEPT ![p0][q0] = ~ @]
      /\ type = IF pausing[p0][q0] THEN "resume" ELSE "pause"
  BY DEF StationPfc, FabricInv, LinkShape, PerQueue, f
<1>4. up'[p] = IF p = p0 THEN up[p] \o <<f>> ELSE up[p]
  <2>1. up'[p] = IF p = p0 THEN Append(up[p], f) ELSE up[p]
    BY <1>2
  <2>2. Append(up[p], f) = up[p] \o <<f>>
    BY <1>1, <1>2
  <2>. QED  BY <2>1, <2>2
<1>5. pausing'[p][q] = (IF p = p0 /\ q = q0 THEN ~ pausing[p][q] ELSE pausing[p][q])
  BY <1>2
<1>6. Tells(up'[p], q, Kind(node.dev[p].paused[q]), Kind(pausing'[p][q]))
  <2>. DEFINE y == Kind(pausing[p][q])
              z == Kind(pausing'[p][q])
  <2>1. Tells(up[p], q, Kind(node.dev[p].paused[q]), y)
    BY DEF AgreeInv, UpAgrees
  <2>2. up[p] \in Seq(Packet) /\ y \in Kinds /\ z \in Kinds
    BY <1>2, KindOf
  <2>3. CASE p # p0
    BY <1>4, <1>5, <2>1, <2>3
  <2>4. CASE p = p0
    <3>1. IF Concerns(f, q) THEN z = f.kind /\ z # y ELSE z = y
      <4>1. q # q0 => z = y
        BY <1>5
      <4>2. q = q0 => z = type /\ z # y
        <5>1. pausing[p0][q0] \in BOOLEAN
          BY <1>2
        <5>2. ASSUME q = q0 PROVE pausing'[p][q] = ~ pausing[p0][q0] /\ pausing[p][q] = pausing[p0][q0]
          BY <1>5, <2>4, <5>2
        <5>. QED  BY <1>2, <5>1, <5>2 DEF Kind
      <4>. QED  BY <1>1, <4>1, <4>2
    <3>. HIDE DEF y, z
    <3>2. Tells(up[p] \o <<f>>, q, Kind(node.dev[p].paused[q]), z)
      BY <1>1, <2>1, <2>2, <3>1, TellsAppend
    <3>. QED  BY <1>4, <2>4, <3>2 DEF z
  <2>. QED  BY <2>3, <2>4
<1>. QED  BY <1>6 DEF UpAgrees

LEMMA ResumeAgrees ==
    ASSUME FabricInv, AgreeInv, NEW p0 \in Ports, NEW q0 \in Prios, StationResume(p0, q0),
           NEW p \in Ports, NEW q \in Prios
    PROVE  DownAgrees(p, q)' /\ UpAgrees(p, q)'
<1>1. StationPfc(p0, q0, "resume") /\ UNCHANGED <<node, paused, down>>
  BY DEF StationResume
<1>2. UpAgrees(p, q)'
  BY <1>1, PfcAgrees DEF Kinds
<1>3. DownAgrees(p, q)'
  BY <1>1 DEF AgreeInv, DownAgrees, Frames
<1>. QED  BY <1>2, <1>3

LEMMA ConcernsKind ==
    ASSUME NEW f \in Packet, NEW q \in Prios
    PROVE  /\ Concerns(f, q) <=> (f.kind \in Kinds /\ f.q = q)
           /\ Concerns(f, q) => Kind(f.kind = "pause") = f.kind
<1>1. f.kind \in Kinds => f = PfcFrame(f.kind, f.q)
  BY PacketKinds
<1>2. \A k \in Kinds, j \in Prios : PfcFrame(k, j).kind = k /\ PfcFrame(k, j).q = j
  BY DEF PfcFrame
<1>3. Concerns(f, q) => f.kind \in Kinds /\ f.q = q
  BY <1>2 DEF Concerns, Kinds
<1>4. f.kind \in Kinds /\ f.q = q => Concerns(f, q)
  BY <1>1 DEF Concerns, Kinds
<1>5. f.kind \in Kinds => Kind(f.kind = "pause") = f.kind
  BY DEF Kind, Kinds
<1>. QED  BY <1>3, <1>4, <1>5

(* What the switch puts on the line of port p keeps the station informed.  *)
LEMMA SignalsAgree ==
    ASSUME FabricInv, AgreeInv, NEW p \in Ports, NEW q \in Prios, NEW s \in Seq(Packet),
           Frames(p)' = Frames(p) \o s,
           Tells(s, q, Kind(node.mmu.paused[p][q]), Kind(node'.mmu.paused[p][q])),
           UNCHANGED paused
    PROVE  DownAgrees(p, q)'
<1>1. DownAgrees(p, q)
  BY DEF AgreeInv
<1>2. Tells(Frames(p)', q, Kind(paused[p][q]), Kind(node'.mmu.paused[p][q]))
  BY <1>1, FramesAdded
<1>. QED  BY <1>2 DEF DownAgrees

LEMMA FramesSignalled ==
    ASSUME FabricInv, AgreeInv, NEW p \in Ports, NEW q \in Prios, NEW s \in Seq(Packet),
           Signals(node, node', p, s), down'[p] = down[p], UNCHANGED paused
    PROVE  DownAgrees(p, q)'
<1>1. Frames(p)' = down[p] \o (Line(node, p) \o s)
  BY DEF Frames, Signals
<1>2. down[p] \o (Line(node, p) \o s) = Frames(p) \o s
  <2>. DEFINE w == down[p]
              l == Line(node, p)
  <2>1. w \in Seq(Packet) /\ l \in Seq(Packet)
    BY FramesType
  <2>. HIDE DEF w, l
  <2>2. w \o (l \o s) = (w \o l) \o s
    BY <2>1, ConcatAssociative
  <2>. QED  BY <2>2 DEF w, l, Frames
<1>3. Tells(s, q, Kind(node.mmu.paused[p][q]), Kind(node'.mmu.paused[p][q]))
  BY DEF Signals
<1>. QED  BY <1>1, <1>2, <1>3, SignalsAgree

LEMMA UpReceived ==
    ASSUME FabricInv, AgreeInv, NEW p \in Ports, NEW q \in Prios, up[p] # <<>>,
           up'[p] = Tail(up[p]), UNCHANGED pausing,
           node'.dev[p].paused[q] = IF Concerns(Head(up[p]), q) THEN Head(up[p]).kind = "pause"
                                    ELSE node.dev[p].paused[q]
    PROVE  UpAgrees(p, q)'
<1>. DEFINE f == Head(up[p])
            x == node.dev[p].paused[q]
            y == Kind(pausing[p][q])
<1>1. up[p] \in Seq(Packet) /\ f \in Packet
  BY FramesType, HeadTailProperties
<1>2. Tells(up[p], q, Kind(x), y)
  BY DEF AgreeInv, UpAgrees
<1>3. /\ Concerns(f, q) => Tells(Tail(up[p]), q, f.kind, y)
      /\ ~ Concerns(f, q) => Tells(Tail(up[p]), q, Kind(x), y)
  <2>. HIDE DEF x, y
  <2>. QED  BY <1>1, <1>2, TellsTail
<1>4. Concerns(f, q) => Kind(f.kind = "pause") = f.kind
  BY <1>1, ConcernsKind
<1>5. Tells(Tail(up[p]), q, Kind(node'.dev[p].paused[q]), y)
  <2>1. CASE Concerns(f, q)
    BY <1>3, <1>4, <2>1
  <2>2. CASE ~ Concerns(f, q)
    BY <1>3, <2>2
  <2>. QED  BY <2>1, <2>2
<1>. QED  BY <1>5 DEF UpAgrees

(* The switch receives: a pause or a resume changes the flag of its        *)
(* device, and what follows on its links tells the stations.               *)
LEMMA ReceivePauses ==
    ASSUME FabricInv, NEW p0 \in Ports, SwitchReceive(p0), NEW p \in Ports, NEW q \in Prios
    PROVE  node'.dev[p].paused[q]
               = IF p = p0 /\ Concerns(Head(up[p0]), q) THEN Head(up[p0]).kind = "pause"
                 ELSE node.dev[p].paused[q]
<1>. DEFINE f == Head(up[p0])
<1>1. /\ f \in Packet
      /\ \/ /\ f.kind = "data"
            /\ \E out \in Ports : out # p0 /\ node' = ReceiveData(node, p0, out, f.q, f.size)
         \/ /\ f.kind \in Kinds
            /\ node' = ReceivePfc(node, p0, f.kind, f.q)
  BY ReceiveCases
<1>2. /\ NodeShape(node) /\ Conserving(node) /\ Flagged(node.mmu) /\ Onward(node, p0)
  BY UnitFlagged DEF FabricInv
<1>. HIDE DEF f
<1>3. Concerns(f, q) <=> (f.kind \in Kinds /\ f.q = q)
  BY <1>1, ConcernsKind
<1>4. ASSUME f.kind = "data", NEW out \in Ports, node' = ReceiveData(node, p0, out, f.q, f.size)
      PROVE  ~ Concerns(f, q) /\ node'.dev[p].paused = node.dev[p].paused
  <2>1. f.q \in Prios /\ f.size \in Sizes /\ f.kind \notin Kinds
    BY <1>1, <1>4, PacketKinds DEF Kinds
  <2>. QED  BY <1>2, <1>3, <1>4, <2>1, DataPauses
<1>5. ASSUME f.kind \in Kinds, node' = ReceivePfc(node, p0, f.kind, f.q)
      PROVE  node'.dev[p].paused[q] = IF p = p0 /\ q = f.q THEN f.kind = "pause"
                                      ELSE node.dev[p].paused[q]
  <2>1. f.q \in Prios
    BY <1>1, <1>5, PacketKinds
  <2>. QED  BY <1>2, <1>5, <2>1, PfcFollows
<1>6. CASE f.kind = "data"
  <2>1. f.kind \notin Kinds
    BY <1>6 DEF Kinds
  <2>2. ~ Concerns(f, q) /\ node'.dev[p].paused = node.dev[p].paused
    BY <1>1, <1>4, <1>6, <2>1
  <2>. QED  BY <2>2 DEF f
<1>7. CASE f.kind \in Kinds
  <2>1. f.kind # "data"
    BY <1>7 DEF Kinds
  <2>. QED  BY <1>1, <1>3, <1>5, <1>7, <2>1 DEF f
<1>. QED  BY <1>1, <1>6, <1>7

LEMMA ReceiveAgrees ==
    ASSUME FabricInv, AgreeInv, NEW p0 \in Ports, SwitchReceive(p0), NEW p \in Ports, NEW q \in Prios
    PROVE  DownAgrees(p, q)' /\ UpAgrees(p, q)'
<1>1. /\ up' = [up EXCEPT ![p0] = Tail(@)] /\ up[p0] # <<>>
      /\ UNCHANGED <<paused, pausing, down>>
  BY DEF SwitchReceive, CanReceive
<1>2. up'[p] = IF p = p0 THEN Tail(up[p]) ELSE up[p]
  BY <1>1 DEF FabricInv, LinkShape
<1>3. DownAgrees(p, q)'
  <2>1. PICK s \in Seq(Packet) : Signals(node, node', p, s)
    BY ReceiveOutcome DEF Follows
  <2>. QED  BY <1>1, <2>1, FramesSignalled
<1>4. node'.dev[p].paused[q]
          = IF p = p0 /\ Concerns(Head(up[p0]), q) THEN Head(up[p0]).kind = "pause"
            ELSE node.dev[p].paused[q]
  BY ReceivePauses
<1>5. UpAgrees(p, q)'
  <2>1. CASE p = p0
    BY <1>1, <1>2, <1>4, <2>1, UpReceived
  <2>2. CASE p # p0
    <3>1. UpAgrees(p, q) /\ up'[p] = up[p] /\ node'.dev[p].paused[q] = node.dev[p].paused[q]
      BY <1>2, <1>4, <2>2 DEF AgreeInv
    <3>. QED  BY <1>1, <3>1 DEF UpAgrees
  <2>. QED  BY <2>1, <2>2
<1>. QED  BY <1>3, <1>5
LEMMA Regroup ==
    ASSUME NEW a \in Seq(Packet), NEW b \in Seq(Packet),
           NEW c \in Seq(Packet), NEW d \in Seq(Packet)
    PROVE  (a \o b) \o (c \o d) = (a \o (b \o c)) \o d
<1>1. a \o b \in Seq(Packet) /\ b \o c \in Seq(Packet)
  BY ConcatProperties
<1>2. (a \o b) \o (c \o d) = ((a \o b) \o c) \o d
  BY <1>1, ConcatAssociative, SMTT(40)
<1>3. (a \o b) \o c = a \o (b \o c)
  BY ConcatAssociative, SMTT(40)
<1>. QED  BY <1>2, <1>3

(* The switch has transmitted a frame: it has moved from the device to the *)
(* link.                                                                   *)
LEMMA CompleteAgrees ==
    ASSUME FabricInv, AgreeInv, NEW p0 \in Ports, SwitchTransmitComplete(p0),
           NEW p \in Ports, NEW q \in Prios
    PROVE  DownAgrees(p, q)' /\ UpAgrees(p, q)'
<1>. DEFINE cur == node.dev[p0].current
<1>1. /\ Busy(node, p0) /\ node' = TransmitComplete(node, p0)
      /\ down' = [down EXCEPT ![p0] = Append(@, cur)]
      /\ UNCHANGED <<paused, pausing, up>>
  BY DEF SwitchTransmitComplete, CanComplete, Step
<1>2. NodeShape(node) /\ Flagged(node.mmu) /\ Onward(node, p0)
  BY UnitFlagged DEF FabricInv
<1>3. /\ \A r \in Ports : node'.dev[r].paused = node.dev[r].paused
      /\ cur \in Packet
      /\ \E rest \in Seq(Packet) :
             /\ Line(node, p0) = <<cur>> \o rest
             /\ \E s \in Seq(Packet) :
                    /\ Line(node', p0) = rest \o s
                    /\ \A j \in Prios : Tells(s, j, Kind(node.mmu.paused[p0][j]),
                                                    Kind(node'.mmu.paused[p0][j]))
      /\ \A r \in Ports : r # p0 => \E s \in Seq(Packet) : Signals(node, node', r, s)
  BY <1>1, <1>2, CompleteFollows
<1>. HIDE DEF cur
<1>4. down'[p] = IF p = p0 THEN down[p] \o <<cur>> ELSE down[p]
  <2>1. down'[p] = IF p = p0 THEN Append(down[p], cur) ELSE down[p]
    BY <1>1 DEF FabricInv, LinkShape
  <2>2. down[p] \in Seq(Packet) /\ cur \in Packet
    BY <1>3, FramesType
  <2>3. Append(down[p], cur) = down[p] \o <<cur>>
    BY ONLY <2>2
  <2>. QED  BY <2>1, <2>3
<1>5. UpAgrees(p, q)'
  <2>1. UpAgrees(p, q) /\ node'.dev[p].paused = node.dev[p].paused
    BY <1>3 DEF AgreeInv
  <2>. QED  BY <1>1, <2>1 DEF UpAgrees
<1>6. CASE p # p0
  <2>1. PICK s \in Seq(Packet) : Signals(node, node', p, s)
    BY <1>3, <1>6
  <2>2. down'[p] = down[p]
    BY <1>4, <1>6
  <2>3. DownAgrees(p, q)'
    BY <1>1, <2>1, <2>2, FramesSignalled
  <2>. QED  BY <1>5, <2>3
<1>7. CASE p = p0
  <2>1. PICK rest \in Seq(Packet), s \in Seq(Packet) :
            /\ Line(node, p) = <<cur>> \o rest
            /\ Line(node', p) = rest \o s
            /\ Tells(s, q, Kind(node.mmu.paused[p][q]), Kind(node'.mmu.paused[p][q]))
    BY <1>3, <1>7
  <2>2. Frames(p)' = Frames(p) \o s
    <3>. DEFINE w == down[p]
                c == <<cur>>
    <3>1. w \in Seq(Packet) /\ c \in Seq(Packet)
      BY <1>3, FramesType
    <3>2. Frames(p) = w \o (c \o rest)
      BY <2>1 DEF Frames
    <3>3. Frames(p)' = (w \o c) \o (rest \o s)
      BY <1>4, <1>7, <2>1 DEF Frames
    <3>. HIDE DEF w, c
    <3>4. (w \o c) \o (rest \o s) = (w \o (c \o rest)) \o s
      BY <3>1, Regroup, SMTT(40)
    <3>. QED  BY <3>2, <3>3, <3>4
  <2>3. DownAgrees(p, q)'
    BY <1>1, <2>1, <2>2, SignalsAgree
  <2>. QED  BY <1>5, <2>3
<1>. QED  BY <1>6, <1>7

(* A station receives a frame: a pause or a resume changes its flag.       *)
LEMMA StationReceiveAgrees ==
    ASSUME FabricInv, AgreeInv, NEW p0 \in Ports, StationReceive(p0),
           NEW p \in Ports, NEW q \in Prios
    PROVE  DownAgrees(p, q)' /\ UpAgrees(p, q)'
<1>. DEFINE f == Head(down[p0])
<1>1. /\ down' = [down EXCEPT ![p0] = Tail(@)] /\ down[p0] # <<>>
      /\ paused' = IF f.kind \in Kinds THEN [paused EXCEPT ![p0][f.q] = (f.kind = "pause")] ELSE paused
      /\ UNCHANGED node
  BY DEF StationReceive, Kinds
<1>2. f \in Packet /\ paused \in PerQueue(BOOLEAN)
  BY <1>1, LinkTail DEF FabricInv, LinkShape
<1>3. down'[p] = IF p = p0 THEN Tail(down[p]) ELSE down[p]
  BY <1>1 DEF FabricInv, LinkShape
<1>4. UpAgrees(p, q)'
  <2>1. CASE UNCHANGED <<pausing, up>>
    BY <1>1, <2>1 DEF AgreeInv, UpAgrees
  <2>2. CASE f.kind = "data" /\ StationPfc(p0, f.q, "pause")
    <3>1. f.q \in Prios
      BY <1>2, <2>2, PacketKinds
    <3>. QED  BY <1>1, <2>2, <3>1, PfcAgrees DEF Kinds
  <2>. QED  BY <2>1, <2>2 DEF StationReceive
<1>. HIDE DEF f
<1>5. paused'[p][q] = IF p = p0 /\ Concerns(f, q) THEN f.kind = "pause" ELSE paused[p][q]
  <2>1. Concerns(f, q) <=> (f.kind \in Kinds /\ f.q = q)
    BY <1>2, ConcernsKind
  <2>2. f.kind \in Kinds => f.q \in Prios
    BY <1>2, PacketKinds
  <2>3. CASE f.kind \in Kinds
    <3>1. paused' = [paused EXCEPT ![p0][f.q] = (f.kind = "pause")]
      BY <1>1, <2>3
    <3>. QED  BY <1>2, <2>1, <2>2, <2>3, <3>1 DEF PerQueue
  <2>4. CASE f.kind \notin Kinds
    BY <1>1, <2>1, <2>4
  <2>. QED  BY <2>3, <2>4
<1>6. DownAgrees(p, q)
  BY DEF AgreeInv
<1>7. CASE p # p0
  <2>1. Frames(p)' = Frames(p) /\ paused'[p][q] = paused[p][q]
    BY <1>1, <1>3, <1>5, <1>7 DEF Frames
  <2>2. DownAgrees(p, q)'
    BY <1>1, <1>6, <2>1 DEF DownAgrees
  <2>. QED  BY <1>4, <2>2
<1>8. CASE p = p0
  <2>. DEFINE t == Tail(down[p]) \o Line(node, p)
              y == Kind(node.mmu.paused[p][q])
  <2>1. Frames(p)' = t
    BY <1>1, <1>3, <1>8 DEF Frames
  <2>2. IF Concerns(f, q) THEN Tells(t, q, f.kind, y) ELSE Tells(t, q, Kind(paused[p][q]), y)
    BY <1>1, <1>6, <1>8, FramesTail DEF f
  <2>3. Concerns(f, q) => Kind(f.kind = "pause") = f.kind
    BY <1>2, ConcernsKind
  <2>. HIDE DEF t, y
  <2>4. Tells(t, q, Kind(paused'[p][q]), y)
    <3>1. CASE Concerns(f, q)
      BY <1>5, <1>8, <2>2, <2>3, <3>1
    <3>2. CASE ~ Concerns(f, q)
      BY <1>5, <2>2, <3>2
    <3>. QED  BY <3>1, <3>2
  <2>5. DownAgrees(p, q)'
    BY <1>1, <2>1, <2>4 DEF DownAgrees, y
  <2>. QED  BY <1>4, <2>5
<1>. QED  BY <1>7, <1>8
(* The error model may drop no pause and no resume.                        *)
FramesSafe == Corruptible \cap Kinds = {}

LEMMA CorruptAgrees ==
    ASSUME FramesSafe, FabricInv, AgreeInv, NEW p0 \in Ports, Corrupt(p0),
           NEW p \in Ports, NEW q \in Prios
    PROVE  DownAgrees(p, q)' /\ UpAgrees(p, q)'
<1>1. DownAgrees(p, q) /\ UpAgrees(p, q)
  BY DEF AgreeInv
<1>2. UNCHANGED <<node, paused, pausing>>
  BY DEF Corrupt
<1>3. \A f \in Packet : f.kind \in Corruptible => ~ Concerns(f, q)
  BY ConcernsKind DEF FramesSafe
<1>4. ASSUME up[p0] # <<>>, Head(up[p0]).kind \in Corruptible,
             up' = [up EXCEPT ![p0] = Tail(@)], UNCHANGED down
      PROVE  DownAgrees(p, q)' /\ UpAgrees(p, q)'
  <2>1. DownAgrees(p, q)'
    BY <1>1, <1>2, <1>4 DEF DownAgrees, Frames
  <2>2. up'[p] = IF p = p0 THEN Tail(up[p]) ELSE up[p]
    BY <1>4 DEF FabricInv, LinkShape
  <2>3. CASE p # p0
    BY <1>1, <1>2, <2>1, <2>2, <2>3 DEF UpAgrees
  <2>4. CASE p = p0
    <3>1. ~ Concerns(Head(up[p]), q)
      BY <1>3, <1>4, <2>4, FramesType, HeadTailProperties
    <3>2. UpAgrees(p, q)'
      BY <1>2, <1>4, <2>2, <2>4, <3>1, UpReceived
    <3>. QED  BY <2>1, <3>2
  <2>. QED  BY <2>3, <2>4
<1>5. ASSUME down[p0] # <<>>, Head(down[p0]).kind \in Corruptible,
             down' = [down EXCEPT ![p0] = Tail(@)], UNCHANGED up
      PROVE  DownAgrees(p, q)' /\ UpAgrees(p, q)'
  <2>1. UpAgrees(p, q)'
    BY <1>1, <1>2, <1>5 DEF UpAgrees
  <2>2. down'[p] = IF p = p0 THEN Tail(down[p]) ELSE down[p]
    BY <1>5 DEF FabricInv, LinkShape
  <2>3. CASE p # p0
    <3>1. Frames(p)' = Frames(p)
      BY <1>2, <2>2, <2>3 DEF Frames
    <3>2. DownAgrees(p, q)'
      BY <1>1, <1>2, <3>1 DEF DownAgrees
    <3>. QED  BY <2>1, <3>2
  <2>4. CASE p = p0
    <3>1. ~ Concerns(Head(down[p]), q)
      BY <1>3, <1>5, <2>4, FramesType, HeadTailProperties
    <3>2. Frames(p)' = Tail(down[p]) \o Line(node, p)
      BY <1>2, <2>2, <2>4 DEF Frames
    <3>3. Tells(Frames(p)', q, Kind(paused[p][q]), Kind(node.mmu.paused[p][q]))
      BY <1>1, <1>5, <2>4, <3>1, <3>2, FramesTail
    <3>4. DownAgrees(p, q)'
      BY <1>2, <3>3 DEF DownAgrees
    <3>. QED  BY <2>1, <3>4
  <2>. QED  BY <2>3, <2>4
<1>. QED  BY <1>4, <1>5 DEF Corrupt

LEMMA AgreeNext ==
    ASSUME FramesSafe, FabricInv, AgreeInv, [FabricNext]_fabricVars
    PROVE  AgreeInv'
<1>. SUFFICES ASSUME NEW p \in Ports, NEW q \in Prios
              PROVE  DownAgrees(p, q)' /\ UpAgrees(p, q)'
  BY DEF AgreeInv
<1>1. CASE UNCHANGED fabricVars
  BY <1>1 DEF fabricVars, AgreeInv, DownAgrees, UpAgrees, Frames
<1>2. ASSUME NEW p0 \in Ports,
             \/ \E q0 \in Prios, s \in Sizes : StationSend(p0, q0, s)
             \/ \E q0 \in Prios : StationResume(p0, q0)
             \/ SwitchReceive(p0)
             \/ SwitchTransmitComplete(p0)
             \/ StationReceive(p0)
             \/ Corrupt(p0)
      PROVE  DownAgrees(p, q)' /\ UpAgrees(p, q)'
  BY <1>2, SendAgrees, ResumeAgrees, ReceiveAgrees, CompleteAgrees, StationReceiveAgrees, CorruptAgrees
<1>. QED  BY <1>1, <1>2 DEF FabricNext, Kinds

LEMMA AgreeAlways == FramesSafe => (FabricSpec => [](FabricInv /\ AgreeInv))
<1>1. FramesSafe /\ FabricInv /\ AgreeInv /\ [FabricNext]_fabricVars => AgreeInv'
  BY AgreeNext
<1>2. CASE FramesSafe
  <2>1. FabricInv /\ AgreeInv /\ [FabricNext]_fabricVars => AgreeInv'
    BY <1>1, <1>2
  <2>. QED  BY <2>1, AgreeInit, FabricInit1, FabricNext1, PTL DEF FabricSpec
<1>. QED  BY <1>2

(* When no pause and no resume is lost, the switch and a station never     *)
(* disagree about a pause except by the frames that are on their way to    *)
(* the station (CheckAndSendPfc, CheckAndSendResume, Receive), for every   *)
(* number of ports and queues.                                             *)
THEOREM AlwaysAgreed == FramesSafe => (FabricSpec => []PfcAgreement)
<1>1. AgreeInv => PfcAgreement
  BY DEF AgreeInv, DownAgrees, PfcAgreement
<1>. QED  BY <1>1, AgreeAlways, PTL

(* Then the assertion "Must be PAUSEd" of QbbNetDevice::Resume holds at    *)
(* the switch and at every station.                                        *)
THEOREM ResumeFindsPaused == FramesSafe => (FabricSpec => []MustBePaused)
<1>1. FabricInv /\ AgreeInv => MustBePaused
  <2>. SUFFICES ASSUME FabricInv, AgreeInv, NEW p \in Ports, NEW q \in Prios
                PROVE  /\ (down[p] # <<>> /\ Head(down[p]) = PfcFrame("resume", q)) => paused[p][q]
                       /\ (up[p] # <<>> /\ Head(up[p]) = PfcFrame("resume", q))
                              => node.dev[p].paused[q]
    BY DEF MustBePaused
  <2>1. \A f : f = PfcFrame("resume", q) => Concerns(f, q) /\ f.kind = "resume"
    BY DEF PfcFrame, Concerns
  <2>2. \A x : Kind(x) # "resume" => x
    BY DEF Kind
  <2>3. ASSUME down[p] # <<>>, Head(down[p]) = PfcFrame("resume", q) PROVE paused[p][q]
    <3>1. DownAgrees(p, q)
      BY DEF AgreeInv
    <3>2. Kind(paused[p][q]) # "resume"
      BY <2>1, <2>3, <3>1, FramesTail
    <3>. QED  BY <2>2, <3>2
  <2>4. ASSUME up[p] # <<>>, Head(up[p]) = PfcFrame("resume", q) PROVE node.dev[p].paused[q]
    <3>. DEFINE w == up[p]
                x == Kind(node.dev[p].paused[q])
                y == Kind(pausing[p][q])
    <3>1. w \in Seq(Packet) /\ Tells(w, q, x, y)
      BY FramesType DEF AgreeInv, UpAgrees
    <3>2. Concerns(Head(w), q) /\ Head(w).kind = "resume" /\ w # <<>>
      BY <2>1, <2>4
    <3>. HIDE DEF w, y
    <3>3. x # "resume"
      <4>. HIDE DEF x
      <4>. QED  BY <3>1, <3>2, TellsTail
    <3>. QED  BY <2>2, <3>3
  <2>. QED  BY <2>3, <2>4
<1>. QED  BY <1>1, AgreeAlways, PTL
=============================================================================
