----------------------------- MODULE PfcFabric -----------------------------
(***************************************************************************)
(* A switch, the stations at the far ends of its links, and the links      *)
(* (QbbChannel): how PFC pauses and resumes travel.  A station is the      *)
(* QbbNetDevice of a host or of another switch; of its node only what its  *)
(* link shows is modelled.  Frames may be corrupted on arrival, before the *)
(* device looks at what they are.                                          *)
(***************************************************************************)
EXTENDS SwitchNode

CONSTANTS
    Traffic,        \* the pairs <<station, queue>> of the flow file: who sends on which pg
    Pausers,        \* stations that may pause the switch: devices of other switches
    WireLength,     \* bound: frames a link holds in one direction before it is full
    Corruptible,    \* the kinds of frames the receive error model may drop
    MaxCorrupt      \* bound on the number of frames it drops

ASSUME FabricAssumption ==
    /\ Traffic \subseteq Ports \X Prios /\ Pausers \subseteq Ports
    /\ WireLength \in Nat \ {0} /\ MaxCorrupt \in Nat
    /\ Corruptible \subseteq {"data", "control", "pause", "resume"}

VARIABLES
    paused,     \* paused[p][q]: m_paused of the station at port p
    pausing,    \* pausing[p][q]: the station's own switch has told it to pause port p
    up,         \* up[p]: frames on their way from the station to the switch
    down,       \* down[p]: frames on their way from the switch to the station
    corrupted   \* number of frames dropped by the error model

stationVars == <<paused, pausing, up, down, corrupted>>
fabricVars  == <<node, skipped, paused, pausing, up, down, corrupted>>

FabricTypeOK ==
    /\ NodeTypeOK
    /\ paused \in PerQueue(BOOLEAN) /\ pausing \in PerQueue(BOOLEAN)
    /\ up \in [Ports -> Seq(Packet)] /\ down \in [Ports -> Seq(Packet)]
    /\ corrupted \in 0 .. MaxCorrupt

FabricInit ==
    /\ NodeInit
    /\ paused = [p \in Ports |-> [q \in Prios |-> FALSE]]
    /\ pausing = [p \in Ports |-> [q \in Prios |-> FALSE]]
    /\ up = [p \in Ports |-> <<>>] /\ down = [p \in Ports |-> <<>>]
    /\ corrupted = 0

HasRoom(wire) == Len(wire) < WireLength

(* A station transmits data of a queue that is not paused; an optical      *)
(* switch takes the frame like any device but sends on queue 0, which it   *)
(* does not stop (MemsSend).  The packet is tagged with the device it      *)
(* comes in by when it arrives.                                            *)
StationSend(p, q, psize) ==
    /\ <<p, q>> \in Traffic
    /\ (~ paused[p][q] \/ p \in OpticalPorts) /\ HasRoom(up[p])
    /\ up' = [up EXCEPT ![p] = Append(@, DataPacket(p, q, psize))]
    /\ UNCHANGED <<node, skipped, paused, pausing, down, corrupted>>

(* The station's switch pauses the device of this one, or resumes it:      *)
(* CheckAndSendPfc and CheckAndSendResume at the far end.                  *)
StationPfc(p, q, type) ==
    /\ p \in Pausers /\ HasRoom(up[p])
    /\ type = IF pausing[p][q] THEN "resume" ELSE "pause"
    /\ pausing' = [pausing EXCEPT ![p][q] = ~ @]
    /\ up' = [up EXCEPT ![p] = Append(@, PfcFrame(type, q))]

(* It resumes when it dequeues, which may be at any time.                  *)
StationResume(p, q) ==
    /\ StationPfc(p, q, "resume")
    /\ UNCHANGED <<node, skipped, paused, down, corrupted>>

(* QbbNetDevice::Receive at the switch.                                    *)
NextHops(p) == {out \in Ports : <<p, out>> \in Routes /\ RoomFor({p, out})}

CanReceive(p) == /\ up[p] # <<>>
                 /\ Head(up[p]).kind = "data" => NextHops(p) # {}

SwitchReceive(p) ==
    /\ CanReceive(p)
    /\ LET pkt == Head(up[p])
       IN  \/ /\ pkt.kind = "data"
              /\ \E out \in NextHops(p) : Step(ReceiveData(node, p, out, pkt.q, pkt.size))
           \/ /\ pkt.kind \in {"pause", "resume"}
              /\ Step(ReceivePfc(node, p, pkt.kind, pkt.q))
    /\ up' = [up EXCEPT ![p] = Tail(@)]
    /\ UNCHANGED <<paused, pausing, down, corrupted>>

(* The device has put its packet on the link and takes the next one.       *)
CompletesIdle(p) == HasRoom(down[p])     \* (mutant) TransmitComplete without a packet
CanComplete(p) == Busy(node, p) /\ HasRoom(down[p])

SwitchTransmitComplete(p) ==
    /\ CanComplete(p)
    /\ down' = [down EXCEPT ![p] = Append(@, node.dev[p].current)]
    /\ Step(TransmitComplete(node, p))
    /\ UNCHANGED <<paused, pausing, up, corrupted>>

(* QbbNetDevice::Receive at a station: a PFC frame sets or resets m_paused *)
(* (Resume), other packets are taken.  A switch may answer a data packet   *)
(* with a pause of its queue: it looks whether to pause in DoSwitchSend    *)
(* and nowhere else.                                                       *)
StationReceive(p) ==
    /\ down[p] # <<>>
    /\ LET pkt == Head(down[p])
       IN  /\ paused' = IF pkt.kind \in {"pause", "resume"}
                        THEN [paused EXCEPT ![p][pkt.q] = (pkt.kind = "pause")]
                        ELSE paused
           /\ \/ UNCHANGED <<pausing, up>>
              \/ pkt.kind = "data" /\ StationPfc(p, pkt.q, "pause")
    /\ down' = [down EXCEPT ![p] = Tail(@)]
    /\ UNCHANGED <<node, skipped, corrupted>>

(* m_receiveErrorModel finds the arriving frame corrupt.                   *)
Corrupt(p) ==
    /\ corrupted < MaxCorrupt
    /\ \/ /\ up[p] # <<>> /\ Head(up[p]).kind \in Corruptible
          /\ up' = [up EXCEPT ![p] = Tail(@)]
          /\ UNCHANGED down
       \/ /\ down[p] # <<>> /\ Head(down[p]).kind \in Corruptible
          /\ down' = [down EXCEPT ![p] = Tail(@)]
          /\ UNCHANGED up
    /\ corrupted' = corrupted + 1
    /\ UNCHANGED <<node, skipped, paused, pausing>>

FabricNext ==
    \E p \in Ports :
        \/ \E q \in Prios, psize \in Sizes : StationSend(p, q, psize)
        \/ \E q \in Prios : StationResume(p, q)
        \/ SwitchReceive(p)
        \/ SwitchTransmitComplete(p)
        \/ StationReceive(p)
        \/ Corrupt(p)

(* What is scheduled in the event queue happens: a frame on a link arrives *)
(* (a bound that keeps it waiting does not do so for good), a transmission *)
(* ends, and a station that paused the switch resumes it, since its switch *)
(* forwards in the same way.  Nobody is obliged to send, to pause or to    *)
(* lose a frame.                                                           *)
Fairness ==
    /\ \A p \in Ports :
        /\ []<>(up[p] = <<>>) \/ []<><<SwitchReceive(p)>>_fabricVars
        /\ []<>(~ Busy(node, p)) \/ []<><<SwitchTransmitComplete(p)>>_fabricVars
        /\ []<>(down[p] = <<>>) \/ []<><<StationReceive(p)>>_fabricVars
    /\ \A p \in Pausers, q \in Prios : []<>(~ pausing[p][q])

FabricSpec     == FabricInit /\ [][FabricNext]_fabricVars
FairFabricSpec == FabricSpec /\ Fairness

-----------------------------------------------------------------------------
(* The frames on their way to the station at port p, in order: on the      *)
(* link, being transmitted, and in queue 0 of the device.                  *)
Line(n, p) == (IF Busy(n, p) THEN <<n.dev[p].current>> ELSE <<>>) \o n.dev[p].queue[0]
Frames(p)  == down[p] \o Line(node, p)

(* The frames s take whoever receives them from the state x of queue q to  *)
(* y, where b[k] is the state after k of them: a frame about q is always   *)
(* news.                                                                   *)
Kind(flag)     == IF flag THEN "pause" ELSE "resume"
Concerns(f, q) == f \in {PfcFrame("pause", q), PfcFrame("resume", q)}

Tells(s, q, x, y) ==
    \E b \in [0 .. Len(s) -> {"pause", "resume"}] :
        /\ b[0] = x /\ b[Len(s)] = y
        /\ \A k \in 1 .. Len(s) : IF Concerns(s[k], q)
                                  THEN b[k] = s[k].kind /\ b[k] # b[k - 1]
                                  ELSE b[k] = b[k - 1]

(* Pauses and resumes alternate and end in the unit's own flag: the switch *)
(* and the station never disagree about a pause except by what is still on *)
(* its way.                                                                *)
PfcAgreement ==
    \A p \in Ports, q \in Prios :
        Tells(Frames(p), q, Kind(paused[p][q]), Kind(node.mmu.paused[p][q]))

(* The assertion of QbbNetDevice::Resume, "Must be PAUSEd": a resume that  *)
(* arrives finds the queue paused, at the stations and at the switch.      *)
MustBePaused ==
    \A p \in Ports, q \in Prios :
        /\ (down[p] # <<>> /\ Head(down[p]) = PfcFrame("resume", q)) => paused[p][q]
        /\ (up[p] # <<>> /\ Head(up[p]) = PfcFrame("resume", q)) => node.dev[p].paused[q]

(* A station that was paused is resumed: PFC by itself never blocks a      *)
(* sender for good.  The packets the switch has to forward before it       *)
(* resumes give way only to queue 0 of their device.                       *)
EveryPauseEnds ==
    \A p \in Ports, q \in Prios :
        \/ []<>(~ paused[p][q])
        \/ \E r \in Routes : r[1] = p /\ []<>(node.dev[r[2]].queue[0] # <<>>)

(* A lossless queue that never empties is served again and again, however  *)
(* often the station beyond pauses it, and whatever the other lossless     *)
(* queues of the device carry: a switch that resumed a queue pauses it     *)
(* again only when it gets another packet of it, and until then the        *)
(* device's round robin comes to the queue.  Only queue 0 goes before, and *)
(* only by taking the device from all lossless queues for good.            *)
Serves(p, q) == Len(node'.dev[p].queue[q]) < Len(node.dev[p].queue[q])
OfQueue0(pkt) == pkt # NoPacket /\ pkt.kind # "data"
ServesQueue0(p) ==
    OfQueue0(node'.dev[p].current) /\ node'.dev[p].current # node.dev[p].current

EveryQueueServed ==
    \A p \in Pausers, q \in Prios :
        \/ []<>(node.dev[p].queue[q] = <<>>)
        \/ []<><<Serves(p, q)>>_fabricVars
        \/ /\ []<><<ServesQueue0(p)>>_fabricVars
           /\ <>[][\A r \in Prios : ~ Serves(p, r)]_fabricVars
=============================================================================
