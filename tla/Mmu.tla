-------------------------------- MODULE Mmu --------------------------------
(***************************************************************************)
(* The state and the operations of the shared-buffer memory management     *)
(* unit of a switch (class SwitchMmu).  The unit charges the bytes of a    *)
(* lossless packet to its ingress (port, queue), first against a reserve,  *)
(* then against a pool shared by all ports up to a dynamic threshold, then *)
(* against the port's headroom, and says when the upstream device must be  *)
(* paused (PFC), before the headroom is needed, and when it may resume.    *)
(*                                                                         *)
(* Module SwitchMmu specifies the unit on its own, module SwitchNode the   *)
(* switch around it.                                                       *)
(***************************************************************************)
EXTENDS Sums

CONSTANTS
    NumPorts,       \* devices of the switch, numbered from 1
    NumPrios,       \* lossless queues 1..NumPrios; queue 0 bypasses the unit
    Sizes,          \* the packet sizes in bytes
    buffer_size,    \* bytes of the whole buffer
    reserve,        \* bytes every (port, queue) has for itself
    resume_offset,  \* hysteresis between pausing and resuming
    headroom,       \* headroom[port]: bytes kept for packets sent before the pause takes effect
    pfc_a_shift,    \* pfc_a_shift[port]: the threshold is the free pool shifted right by this
    UintRange       \* 2^32 in the code: the range of its unsigned counters

Ports == 1 .. NumPorts
Prios == 1 .. NumPrios

(* ConfigNPort: each port's headroom and reserve are set aside once,       *)
(* whatever the number of queues that draw on them.                        *)
total_hdrm == SumTo(headroom, NumPorts)
total_rsrv == NumPorts * reserve

ASSUME MmuAssumption ==
    /\ NumPorts \in Nat \ {0} /\ NumPrios \in Nat \ {0}
    /\ Sizes \subseteq Nat \ {0}
    /\ buffer_size \in Nat /\ reserve \in Nat /\ resume_offset \in Nat /\ UintRange \in Nat
    /\ headroom \in [Ports -> Nat]
    /\ pfc_a_shift \in [Ports -> 0 .. 3]

(* The buffer holds what is set aside, as the simulator configures it.     *)
ASSUME BufferAssumption == total_hdrm + total_rsrv <= buffer_size

(* The headroom of a port holds at least one packet.                       *)
ASSUME HeadroomAssumption == \A p \in Ports, s \in Sizes : s <= headroom[p]

PerQueue(S) == [Ports -> [Prios -> S]]

MmuState == [shared_used_bytes : Nat,
             hdrm_bytes        : PerQueue(Nat),
             ingress_bytes     : PerQueue(Nat),
             egress_bytes      : PerQueue(Nat),
             paused            : PerQueue(BOOLEAN)]

-----------------------------------------------------------------------------
(* Operations of the unit, on its state m.  An operator marked (mutant) is *)
(* a mistaken version of the one below it, which a run must tell apart.    *)

MinOf(x, y) == IF x <= y THEN x ELSE y

(* Unsigned subtraction: it wraps around instead of going below zero.      *)
Minus(x, y) == IF y <= x THEN x - y ELSE x - y + UintRange

(* What the pool holds when it is empty.                                   *)
SharedPool == buffer_size - total_hdrm - total_rsrv

GetPfcThreshold(m, port) ==
    Minus(SharedPool, m.shared_used_bytes) \div 2 ^ pfc_a_shift[port]

GetSharedUsed(m, port, q) ==
    IF m.ingress_bytes[port][q] > reserve THEN m.ingress_bytes[port][q] - reserve ELSE 0

(* (mutant) The headroom is no part of the admission check.                *)
AdmissionWithoutHeadroom(m, port, q, psize) ==
    psize + GetSharedUsed(m, port, q) <= GetPfcThreshold(m, port)

(* (mutant) The packet is left out of the headroom check.                  *)
AdmissionWithoutPacket(m, port, q, psize) ==
    \/ m.hdrm_bytes[port][q] <= headroom[port]
    \/ psize + GetSharedUsed(m, port, q) <= GetPfcThreshold(m, port)

CheckIngressAdmission(m, port, q, psize) ==
    \/ psize + m.hdrm_bytes[port][q] <= headroom[port]
    \/ psize + GetSharedUsed(m, port, q) <= GetPfcThreshold(m, port)

(* (mutant) The pool is charged the whole packet that crosses the reserve. *)
UpdateChargesWholePacket(m, port, q, psize) ==
    LET new_bytes == m.ingress_bytes[port][q] + psize
    IN  IF new_bytes <= reserve
        THEN [m EXCEPT !.ingress_bytes[port][q] = new_bytes]
        ELSE IF new_bytes - reserve > GetPfcThreshold(m, port)
        THEN [m EXCEPT !.hdrm_bytes[port][q] = @ + psize]
        ELSE [m EXCEPT !.ingress_bytes[port][q] = new_bytes, !.shared_used_bytes = @ + psize]

UpdateIngressAdmission(m, port, q, psize) ==
    LET new_bytes == m.ingress_bytes[port][q] + psize
    IN  IF new_bytes <= reserve
        THEN [m EXCEPT !.ingress_bytes[port][q] = new_bytes]
        ELSE IF new_bytes - reserve > GetPfcThreshold(m, port)
        THEN [m EXCEPT !.hdrm_bytes[port][q] = @ + psize]
        ELSE [m EXCEPT !.ingress_bytes[port][q] = new_bytes,
                       !.shared_used_bytes = @ + MinOf(psize, new_bytes - reserve)]

UpdateEgressAdmission(m, port, q, psize) ==
    [m EXCEPT !.egress_bytes[port][q] = @ + psize]

(* (mutant) Everything is refunded to the headroom.                        *)
RemoveFromHeadroom(m, port, q, psize) == [m EXCEPT !.hdrm_bytes[port][q] = @ - psize]

(* (mutant) Nothing is refunded to the headroom.                           *)
RemoveFromReserveAndPool(m, port, q, psize) ==
    [m EXCEPT !.ingress_bytes[port][q] = Minus(@, psize),
              !.shared_used_bytes = Minus(@, MinOf(psize, GetSharedUsed(m, port, q)))]

RemoveFromIngressAdmission(m, port, q, psize) ==
    LET from_hdrm   == MinOf(m.hdrm_bytes[port][q], psize)
        from_shared == MinOf(psize - from_hdrm, GetSharedUsed(m, port, q))
    IN  [m EXCEPT !.hdrm_bytes[port][q] = @ - from_hdrm,
                  !.ingress_bytes[port][q] = Minus(@, psize - from_hdrm),
                  !.shared_used_bytes = Minus(@, from_shared)]

RemoveFromEgressAdmission(m, port, q, psize) ==
    [m EXCEPT !.egress_bytes[port][q] = Minus(@, psize)]

(* (mutant) Bytes in the headroom are no reason to pause.                  *)
PauseWithoutHeadroom(m, port, q) ==
    ~ m.paused[port][q] /\ GetSharedUsed(m, port, q) >= GetPfcThreshold(m, port)

CheckShouldPause(m, port, q) ==
    /\ ~ m.paused[port][q]
    /\ \/ m.hdrm_bytes[port][q] > 0
       \/ GetSharedUsed(m, port, q) >= GetPfcThreshold(m, port)

CheckShouldResume(m, port, q) ==
    /\ m.paused[port][q]
    /\ m.hdrm_bytes[port][q] = 0
    /\ \/ GetSharedUsed(m, port, q) = 0
       \/ GetSharedUsed(m, port, q) + resume_offset <= GetPfcThreshold(m, port)

SetPause(m, port, q)  == [m EXCEPT !.paused[port][q] = TRUE]
SetResume(m, port, q) == [m EXCEPT !.paused[port][q] = FALSE]

-----------------------------------------------------------------------------
(* The two sequences of calls SwitchNode makes: DoSwitchSend on a packet   *)
(* it admits, SwitchNotifyDequeue on one its device dequeues.              *)

Admitted(m, in, out, q, psize) ==
    LET u == UpdateEgressAdmission(UpdateIngressAdmission(m, in, q, psize), out, q, psize)
    IN  IF CheckShouldPause(u, in, q) THEN SetPause(u, in, q) ELSE u

(* (mutant) CheckAndSendResume is not called.                              *)
ReleasedWithoutResume(m, in, out, q, psize) ==
    RemoveFromEgressAdmission(RemoveFromIngressAdmission(m, in, q, psize), out, q, psize)

Released(m, in, out, q, psize) ==
    LET u == RemoveFromEgressAdmission(RemoveFromIngressAdmission(m, in, q, psize), out, q, psize)
    IN  IF CheckShouldResume(u, in, q) THEN SetResume(u, in, q) ELSE u

EmptyMmu == [shared_used_bytes |-> 0,
             hdrm_bytes    |-> [p \in Ports |-> [q \in Prios |-> 0]],
             ingress_bytes |-> [p \in Ports |-> [q \in Prios |-> 0]],
             egress_bytes  |-> [p \in Ports |-> [q \in Prios |-> 0]],
             paused        |-> [p \in Ports |-> [q \in Prios |-> FALSE]]]

-----------------------------------------------------------------------------
(* The safety properties, as predicates of the unit's state m and of the   *)
(* bytes r that are resident.                                              *)

(* Every byte the unit has charged to an ingress queue waits in some       *)
(* egress queue, and the other way round: admission and release charge and *)
(* refund the same amount wherever the bytes were charged.                 *)
IngressExact(m, r) ==
    \A in \in Ports, q \in Prios :
        m.ingress_bytes[in][q] + m.hdrm_bytes[in][q] = SumTo([o \in Ports |-> r[in][o][q]], NumPorts)

EgressExact(m, r) ==
    \A out \in Ports, q \in Prios :
        m.egress_bytes[out][q] = SumTo([i \in Ports |-> r[i][out][q]], NumPorts)

SharedTable(m) == [p \in Ports |-> [q \in Prios |-> GetSharedUsed(m, p, q)]]

(* The pool counter is what the queues hold above their reserves, and the  *)
(* pool is never overdrawn, so the threshold subtraction never wraps.      *)
SharedExact(m) == m.shared_used_bytes = SumTable(SharedTable(m), NumPorts, NumPrios)
SharedBounded(m) == m.shared_used_bytes <= SharedPool

HeadroomSafe(m) ==
    \A p \in Ports, q \in Prios :
        /\ m.hdrm_bytes[p][q] <= headroom[p]
        /\ m.hdrm_bytes[p][q] > 0 => m.paused[p][q]

PauseJustified(m) ==
    \A p \in Ports, q \in Prios :
        m.paused[p][q] => m.ingress_bytes[p][q] + m.hdrm_bytes[p][q] > 0
=============================================================================
