----------------------------- MODULE SwitchMmu -----------------------------
(***************************************************************************)
(* The memory management unit as SwitchNode drives it: a packet of a       *)
(* lossless queue is admitted when it arrives and released when its egress *)
(* device dequeues it.                                                     *)
(*                                                                         *)
(* The unit itself keeps no packets.  What is queued is seen here only as  *)
(* resident[in][out][q], the bytes admitted and not yet released; module   *)
(* SwitchNode has the queues and implements this specification.            *)
(***************************************************************************)
EXTENDS Mmu

VARIABLES
    mmu,        \* the counters and pause flags of the unit
    resident    \* resident[in][out][q]: bytes from port in waiting in queue q of port out

vars == <<mmu, resident>>

TypeOK == /\ mmu \in MmuState
          /\ resident \in [Ports -> PerQueue(Nat)]

-----------------------------------------------------------------------------
Init == /\ mmu = EmptyMmu
        /\ resident = [i \in Ports |-> [o \in Ports |-> [q \in Prios |-> 0]]]

(* A packet is admitted and waits in the egress queue.  A packet that is   *)
(* not admitted is dropped and changes nothing.                            *)
Admit(in, out, q, psize) ==
    /\ CheckIngressAdmission(mmu, in, q, psize)
    /\ mmu' = Admitted(mmu, in, out, q, psize)
    /\ resident' = [resident EXCEPT ![in][out][q] = @ + psize]

(* The egress device dequeues a waiting packet.                            *)
Release(in, out, q, psize) ==
    /\ psize <= resident[in][out][q]
    /\ mmu' = Released(mmu, in, out, q, psize)
    /\ resident' = [resident EXCEPT ![in][out][q] = @ - psize]

(* A packet is admitted while its egress device is idle and leaves at      *)
(* once: admission and release in a single event.                          *)
Forward(in, out, q, psize) ==
    /\ CheckIngressAdmission(mmu, in, q, psize)
    /\ mmu' = Released(Admitted(mmu, in, out, q, psize), in, out, q, psize)
    /\ UNCHANGED resident

Next == \E in, out \in Ports, q \in Prios, psize \in Sizes :
            \/ Admit(in, out, q, psize)
            \/ Release(in, out, q, psize)
            \/ Forward(in, out, q, psize)

Spec == Init /\ [][Next]_vars

-----------------------------------------------------------------------------
(* The safety properties.                                                  *)

(* CheckIngressAdmission, UpdateIngressAdmission and the two Removes agree *)
(* on every byte: the counters of a queue are the bytes that wait.         *)
AccountingExact == IngressExact(mmu, resident) /\ EgressExact(mmu, resident)

(* The shared pool counter equals what the queues draw from it and stays   *)
(* within the pool: GetPfcThreshold's unsigned subtraction never wraps.    *)
SharedPoolExact == SharedExact(mmu) /\ SharedBounded(mmu)

(* Headroom is used only within the port's allotment and only while the    *)
(* upstream device has been told to pause.                                 *)
HeadroomOnlyWhilePaused == HeadroomSafe(mmu)

(* A packet of a lossless queue is refused only after its upstream device  *)
(* was told to pause: a drop is never the first sign of congestion.        *)
DropOnlyAfterPause ==
    \A p \in Ports, q \in Prios, s \in Sizes :
        ~ CheckIngressAdmission(mmu, p, q, s) => mmu.paused[p][q]

(* An upstream device is kept paused only while bytes it sent still wait,  *)
(* so a later dequeue will look at CheckShouldResume again: no pause can   *)
(* outlive the traffic that caused it.                                     *)
PausedHasTraffic ==
    \A in \in Ports, q \in Prios :
        mmu.paused[in][q] => \E out \in Ports : resident[in][out][q] > 0

(* ConfigNPort sets headroom and reserve aside once per port while every   *)
(* queue of the port may use them: the buffer is overcommitted by at most  *)
(* what the queues beyond the first can take, and not at all with one.     *)
OccupancyBounded ==
    SumTable([p \in Ports |-> [q \in Prios |-> mmu.ingress_bytes[p][q] + mmu.hdrm_bytes[p][q]]],
             NumPorts, NumPrios)
        <= buffer_size + (NumPrios - 1) * (total_hdrm + total_rsrv)
=============================================================================
