-------------------------- MODULE SwitchMmu_proofs --------------------------
(* Proofs of the safety properties of SwitchMmu, for every number of ports *)
(* and queues, every packet size and every configuration that satisfies    *)
(* the assumptions of Mmu.  The first part is about the unit alone: what   *)
(* the two sequences of calls that a switch makes on it, Admitted and      *)
(* Released, keep of the inductive invariant, which is a predicate of the  *)
(* unit's state and of the bytes that are resident.  Switch_proofs uses    *)
(* that part for the state of its own.                                     *)
EXTENDS SwitchMmu, Library_proofs

(* The inductive invariant.                                                *)
AccountInv(m, r) ==
    /\ m \in MmuState
    /\ r \in [Ports -> PerQueue(Nat)]
    /\ IngressExact(m, r)
    /\ EgressExact(m, r)
    /\ SharedExact(m)
    /\ SharedBounded(m)

IInv(m, r) == AccountInv(m, r) /\ HeadroomSafe(m) /\ PauseJustified(m)

LEMMA ConfigNat == total_hdrm \in Nat /\ total_rsrv \in Nat /\ SharedPool \in Nat
<1>1. total_hdrm \in Nat
  BY MmuAssumption, SumToBounds DEF total_hdrm, Ports
<1>2. total_rsrv \in Nat
  BY MmuAssumption DEF total_rsrv
<1>. QED  BY <1>1, <1>2, BufferAssumption, MmuAssumption DEF SharedPool

(* Below the pool's size the threshold is a true fraction of what is free. *)
LEMMA ThresholdWithinPool ==
    ASSUME NEW m, m.shared_used_bytes \in Nat, SharedBounded(m), NEW port \in Ports
    PROVE  /\ GetPfcThreshold(m, port) \in Nat
           /\ GetPfcThreshold(m, port) <= SharedPool - m.shared_used_bytes
<1>. DEFINE free == SharedPool - m.shared_used_bytes
            a == pfc_a_shift[port]
<1>1. free \in Nat /\ Minus(SharedPool, m.shared_used_bytes) = free
  BY ConfigNat DEF Minus, SharedBounded
<1>2. a \in 0 .. 3
  BY MmuAssumption
<1>. HIDE DEF free, a
<1>3. 2 ^ a \in {1, 2, 4, 8}
  <2>1. 2 ^ 0 = 1 /\ 2 ^ 1 = 2 /\ 2 ^ 2 = 4 /\ 2 ^ 3 = 8
    OBVIOUS
  <2>2. a = 0 \/ a = 1 \/ a = 2 \/ a = 3
    BY <1>2
  <2>. QED  BY <2>1, <2>2
<1>4. free \div 2 ^ a \in Nat /\ free \div 2 ^ a <= free
  BY <1>1, <1>3
<1>. QED  BY <1>1, <1>4 DEF GetPfcThreshold, free, a

(* How an operation on ingress queue (p, q) changes the unit's state, when *)
(* it adds d bytes to the queue (takes them away, for a negative d).       *)
IngressChange(m, u, p, q, d) ==
    /\ u \in MmuState
    /\ u.egress_bytes = m.egress_bytes /\ u.paused = m.paused
    /\ \A i \in Ports, j \in Prios :
           <<i, j>> # <<p, q>> => /\ u.ingress_bytes[i][j] = m.ingress_bytes[i][j]
                                  /\ u.hdrm_bytes[i][j] = m.hdrm_bytes[i][j]
    /\ u.ingress_bytes[p][q] + u.hdrm_bytes[p][q]
           = m.ingress_bytes[p][q] + m.hdrm_bytes[p][q] + d
    /\ u.shared_used_bytes - GetSharedUsed(u, p, q)
           = m.shared_used_bytes - GetSharedUsed(m, p, q)

LEMMA UpdateIngress ==
    ASSUME NEW m \in MmuState, SharedBounded(m), NEW p \in Ports, NEW q \in Prios,
           NEW s \in Nat \ {0}, CheckIngressAdmission(m, p, q, s),
           m.hdrm_bytes[p][q] <= headroom[p]
    PROVE  LET u == UpdateIngressAdmission(m, p, q, s)
           IN  /\ IngressChange(m, u, p, q, s)
               /\ SharedBounded(u)
               /\ u.hdrm_bytes[p][q] <= headroom[p]
<1>. DEFINE u == UpdateIngressAdmission(m, p, q, s)
            n == m.ingress_bytes[p][q] + s
            hs == m.hdrm_bytes[p][q] + s
            thr == GetPfcThreshold(m, p)
            by == MinOf(s, n - reserve)
            sh == m.shared_used_bytes + by
            i == [m.ingress_bytes EXCEPT ![p][q] = n]
            h == [m.hdrm_bytes EXCEPT ![p][q] = hs]
<1>0. /\ m.shared_used_bytes \in Nat /\ m.ingress_bytes \in PerQueue(Nat)
      /\ m.hdrm_bytes \in PerQueue(Nat) /\ reserve \in Nat /\ headroom[p] \in Nat
      /\ m.ingress_bytes[p][q] \in Nat /\ m.hdrm_bytes[p][q] \in Nat
  BY MmuAssumption DEF MmuState, PerQueue
<1>1. thr \in Nat /\ thr <= SharedPool - m.shared_used_bytes /\ SharedPool \in Nat
  BY <1>0, ThresholdWithinPool, ConfigNat
<1>2. n \in Nat /\ hs \in Nat /\ n = m.ingress_bytes[p][q] + s /\ hs = m.hdrm_bytes[p][q] + s
  BY <1>0
<1>3. u = IF n <= reserve THEN [m EXCEPT !.ingress_bytes = i]
          ELSE IF n - reserve > thr THEN [m EXCEPT !.hdrm_bytes = h]
          ELSE [m EXCEPT !.ingress_bytes = i, !.shared_used_bytes = sh]
  BY <1>0 DEF UpdateIngressAdmission, MmuState
<1>4. n > reserve => /\ by \in Nat /\ sh \in Nat /\ sh = m.shared_used_bytes + by
                     /\ by = n - reserve - GetSharedUsed(m, p, q)
                     /\ by <= n - reserve
  BY <1>0 DEF MinOf, GetSharedUsed
<1>. HIDE DEF u, n, hs, thr, by, sh
<1>5. /\ i \in PerQueue(Nat) /\ i[p][q] = n
      /\ \A k \in Ports, j \in Prios : <<k, j>> # <<p, q>> => i[k][j] = m.ingress_bytes[k][j]
  BY <1>0, <1>2 DEF PerQueue
<1>6. /\ h \in PerQueue(Nat) /\ h[p][q] = hs
      /\ \A k \in Ports, j \in Prios : <<k, j>> # <<p, q>> => h[k][j] = m.hdrm_bytes[k][j]
  BY <1>0, <1>2 DEF PerQueue
<1>. HIDE DEF i, h
<1>7. CASE n <= reserve
  <2>1. u = [m EXCEPT !.hdrm_bytes = m.hdrm_bytes, !.ingress_bytes = i,
                      !.shared_used_bytes = m.shared_used_bytes]
    BY <1>3, <1>7 DEF MmuState
  <2>2. /\ u \in MmuState
        /\ u.shared_used_bytes = m.shared_used_bytes /\ u.hdrm_bytes = m.hdrm_bytes
        /\ u.egress_bytes = m.egress_bytes /\ u.paused = m.paused /\ u.ingress_bytes = i
    BY <1>0, <1>5, <2>1 DEF MmuState
  <2>3. GetSharedUsed(u, p, q) = 0 /\ GetSharedUsed(m, p, q) = 0
    BY <1>0, <1>2, <1>5, <1>7, <2>2 DEF GetSharedUsed
  <2>. QED  BY <1>0, <1>2, <1>5, <2>2, <2>3 DEF IngressChange, SharedBounded, u
<1>8. CASE n > reserve /\ n - reserve > thr
  <2>0. u = [m EXCEPT !.hdrm_bytes = h]
    BY <1>0, <1>2, <1>3, <1>8
  <2>1. u = [m EXCEPT !.hdrm_bytes = h, !.ingress_bytes = m.ingress_bytes,
                      !.shared_used_bytes = m.shared_used_bytes]
    BY <2>0 DEF MmuState
  <2>2. /\ u \in MmuState
        /\ u.shared_used_bytes = m.shared_used_bytes /\ u.hdrm_bytes = h
        /\ u.egress_bytes = m.egress_bytes /\ u.paused = m.paused
        /\ u.ingress_bytes = m.ingress_bytes
    BY <1>0, <1>6, <2>1 DEF MmuState
  <2>3. GetSharedUsed(u, p, q) = GetSharedUsed(m, p, q)
    BY <2>2 DEF GetSharedUsed
  <2>4. hs <= headroom[p]
    BY <1>0, <1>1, <1>2, <1>8 DEF CheckIngressAdmission, GetSharedUsed, thr
  <2>. QED  BY <1>0, <1>2, <1>6, <2>2, <2>3, <2>4 DEF IngressChange, SharedBounded, u
<1>9. CASE n > reserve /\ n - reserve <= thr
  <2>0. u = [m EXCEPT !.ingress_bytes = i, !.shared_used_bytes = sh]
    BY <1>0, <1>1, <1>2, <1>3, <1>9
  <2>1. u = [m EXCEPT !.hdrm_bytes = m.hdrm_bytes, !.ingress_bytes = i, !.shared_used_bytes = sh]
    BY <2>0 DEF MmuState
  <2>2. /\ u \in MmuState
        /\ u.shared_used_bytes = sh /\ u.hdrm_bytes = m.hdrm_bytes
        /\ u.egress_bytes = m.egress_bytes /\ u.paused = m.paused /\ u.ingress_bytes = i
    BY <1>0, <1>4, <1>5, <1>9, <2>1 DEF MmuState
  <2>3. GetSharedUsed(u, p, q) = n - reserve /\ GetSharedUsed(m, p, q) \in Nat
    BY <1>0, <1>2, <1>5, <1>9, <2>2 DEF GetSharedUsed
  <2>4. SharedBounded(u)
    BY <1>0, <1>1, <1>2, <1>4, <1>9, <2>2 DEF SharedBounded
  <2>5. u.shared_used_bytes - GetSharedUsed(u, p, q) = m.shared_used_bytes - GetSharedUsed(m, p, q)
    BY <1>0, <1>2, <1>4, <1>9, <2>2, <2>3
  <2>. QED  BY <1>0, <1>2, <1>5, <2>2, <2>4, <2>5 DEF IngressChange, u
<1>. QED  BY <1>0, <1>1, <1>2, <1>7, <1>8, <1>9

LEMMA RemoveIngress ==
    ASSUME NEW m \in MmuState, SharedBounded(m), NEW p \in Ports, NEW q \in Prios,
           NEW s \in Nat \ {0},
           s <= m.ingress_bytes[p][q] + m.hdrm_bytes[p][q],
           GetSharedUsed(m, p, q) <= m.shared_used_bytes
    PROVE  LET u == RemoveFromIngressAdmission(m, p, q, s)
           IN  /\ IngressChange(m, u, p, q, -s)
               /\ SharedBounded(u)
               /\ u.hdrm_bytes[p][q] <= m.hdrm_bytes[p][q]
<1>. DEFINE u == RemoveFromIngressAdmission(m, p, q, s)
            fh == MinOf(m.hdrm_bytes[p][q], s)
            used == GetSharedUsed(m, p, q)
            fs == MinOf(s - fh, used)
            hv == m.hdrm_bytes[p][q] - fh
            iv == m.ingress_bytes[p][q] - (s - fh)
            sh == m.shared_used_bytes - fs
            h == [m.hdrm_bytes EXCEPT ![p][q] = hv]
            i == [m.ingress_bytes EXCEPT ![p][q] = iv]
<1>0. /\ m.shared_used_bytes \in Nat /\ m.ingress_bytes \in PerQueue(Nat)
      /\ m.hdrm_bytes \in PerQueue(Nat) /\ reserve \in Nat
      /\ m.ingress_bytes[p][q] \in Nat /\ m.hdrm_bytes[p][q] \in Nat
  BY MmuAssumption DEF MmuState, PerQueue
<1>1. used \in Nat /\ used = IF m.ingress_bytes[p][q] > reserve THEN m.ingress_bytes[p][q] - reserve ELSE 0
  BY <1>0 DEF GetSharedUsed
<1>2. fh \in Nat /\ fh <= m.hdrm_bytes[p][q] /\ s - fh \in Nat /\ s - fh <= m.ingress_bytes[p][q]
  BY <1>0 DEF MinOf
<1>3. fs \in Nat /\ fs <= m.shared_used_bytes
      /\ fs <= s - fh /\ fs <= used /\ (fs = s - fh \/ fs = used)
  BY <1>0, <1>1, <1>2 DEF MinOf
<1>4. /\ Minus(m.ingress_bytes[p][q], s - fh) = iv
      /\ Minus(m.shared_used_bytes, fs) = sh
  BY <1>0, <1>2, <1>3 DEF Minus
<1>5. u = [m EXCEPT !.hdrm_bytes = h, !.ingress_bytes = i, !.shared_used_bytes = sh]
  BY <1>4 DEF RemoveFromIngressAdmission, MmuState
<1>6. /\ hv \in Nat /\ iv \in Nat /\ sh \in Nat
      /\ hv = m.hdrm_bytes[p][q] - fh /\ iv = m.ingress_bytes[p][q] - (s - fh)
      /\ sh = m.shared_used_bytes - fs
  BY <1>0, <1>2, <1>3
<1>. HIDE DEF u, fh, fs, used, hv, iv, sh
<1>7. /\ h \in PerQueue(Nat) /\ h[p][q] = hv
      /\ \A k \in Ports, j \in Prios : <<k, j>> # <<p, q>> => h[k][j] = m.hdrm_bytes[k][j]
  BY <1>0, <1>6 DEF PerQueue
<1>8. /\ i \in PerQueue(Nat) /\ i[p][q] = iv
      /\ \A k \in Ports, j \in Prios : <<k, j>> # <<p, q>> => i[k][j] = m.ingress_bytes[k][j]
  BY <1>0, <1>6 DEF PerQueue
<1>. HIDE DEF h, i
<1>9. /\ u \in MmuState
      /\ u.shared_used_bytes = sh /\ u.hdrm_bytes = h /\ u.ingress_bytes = i
      /\ u.egress_bytes = m.egress_bytes /\ u.paused = m.paused
  BY <1>5, <1>6, <1>7, <1>8 DEF MmuState
<1>10. GetSharedUsed(u, p, q) = used - fs
  <2>1. GetSharedUsed(u, p, q) = IF iv > reserve THEN iv - reserve ELSE 0
    BY <1>8, <1>9 DEF GetSharedUsed
  <2>2. (IF iv > reserve THEN iv - reserve ELSE 0) = used - fs
    BY <1>0, <1>1, <1>2, <1>3, <1>6
  <2>. QED  BY <2>1, <2>2
<1>11. u.shared_used_bytes - GetSharedUsed(u, p, q) = m.shared_used_bytes - GetSharedUsed(m, p, q)
  BY <1>0, <1>1, <1>3, <1>6, <1>9, <1>10 DEF used
<1>12. SharedBounded(u)
  BY <1>0, <1>3, <1>6, <1>9, ConfigNat DEF SharedBounded
<1>13. u.ingress_bytes[p][q] + u.hdrm_bytes[p][q] = m.ingress_bytes[p][q] + m.hdrm_bytes[p][q] + (-s)
  BY <1>0, <1>2, <1>6, <1>7, <1>8, <1>9
<1>14. u.hdrm_bytes[p][q] <= m.hdrm_bytes[p][q]
  BY <1>0, <1>2, <1>6, <1>7, <1>9
<1>. QED  BY <1>7, <1>8, <1>9, <1>11, <1>12, <1>13, <1>14 DEF IngressChange, u

(* The counters after d bytes from port in, on their way to queue q of     *)
(* port out, were charged (refunded, for a negative d).                    *)
Charged(m, u, in, out, q, d) ==
    /\ u \in MmuState
    /\ \A i \in Ports, j \in Prios :
           <<i, j>> # <<in, q>> => /\ u.ingress_bytes[i][j] = m.ingress_bytes[i][j]
                                   /\ u.hdrm_bytes[i][j] = m.hdrm_bytes[i][j]
    /\ u.ingress_bytes[in][q] + u.hdrm_bytes[in][q]
           = m.ingress_bytes[in][q] + m.hdrm_bytes[in][q] + d
    /\ u.shared_used_bytes - GetSharedUsed(u, in, q)
           = m.shared_used_bytes - GetSharedUsed(m, in, q)
    /\ \A i \in Ports, j \in Prios :
           u.egress_bytes[i][j] = IF <<i, j>> = <<out, q>> THEN m.egress_bytes[i][j] + d
                                  ELSE m.egress_bytes[i][j]
    /\ SharedBounded(u)

Moved(r, in, out, q, d) == [r EXCEPT ![in][out][q] = r[in][out][q] + d]

LEMMA MovedEntries ==
    ASSUME NEW r \in [Ports -> PerQueue(Nat)], NEW in \in Ports, NEW out \in Ports,
           NEW q \in Prios, NEW d \in Int, r[in][out][q] + d \in Nat
    PROVE  /\ Moved(r, in, out, q, d) \in [Ports -> PerQueue(Nat)]
           /\ \A i, o \in Ports, j \in Prios :
                  Moved(r, in, out, q, d)[i][o][j]
                      = IF i = in /\ o = out /\ j = q THEN r[i][o][j] + d ELSE r[i][o][j]
<1>1. \A i, o \in Ports, j \in Prios : r[i][o][j] \in Nat
  BY DEF PerQueue
<1>. QED  BY <1>1 DEF Moved, PerQueue

(* The exactness of the accounts survives every charge and every refund.   *)
LEMMA AccountStep ==
    ASSUME NEW m, NEW r, AccountInv(m, r), NEW u,
           NEW in \in Ports, NEW out \in Ports, NEW q \in Prios, NEW d \in Int,
           Charged(m, u, in, out, q, d), r[in][out][q] + d \in Nat
    PROVE  AccountInv(u, Moved(r, in, out, q, d))
<1>. DEFINE rr == Moved(r, in, out, q, d)
<1>0. /\ r \in [Ports -> PerQueue(Nat)] /\ m \in MmuState /\ u \in MmuState
      /\ \A i, o \in Ports, j \in Prios : r[i][o][j] \in Nat
      /\ reserve \in Nat
  BY MmuAssumption DEF AccountInv, Charged, PerQueue
<1>ports. NumPorts \in Nat
  BY MmuAssumption
<1>prios. NumPrios \in Nat
  BY MmuAssumption
<1>1. /\ rr \in [Ports -> PerQueue(Nat)]
      /\ \A i, o \in Ports, j \in Prios :
             rr[i][o][j] = IF i = in /\ o = out /\ j = q THEN r[i][o][j] + d ELSE r[i][o][j]
  BY <1>0, MovedEntries
<1>. HIDE DEF rr
<1>2. /\ \A i \in Ports, j \in Prios : m.ingress_bytes[i][j] \in Nat /\ m.hdrm_bytes[i][j] \in Nat
                                       /\ m.egress_bytes[i][j] \in Nat
      /\ \A i \in Ports, j \in Prios : u.ingress_bytes[i][j] \in Nat /\ u.hdrm_bytes[i][j] \in Nat
                                       /\ u.egress_bytes[i][j] \in Nat
      /\ m.shared_used_bytes \in Nat /\ u.shared_used_bytes \in Nat
  BY <1>0 DEF MmuState, PerQueue
<1>3. IngressExact(u, rr)
  <2>. SUFFICES ASSUME NEW i \in Ports, NEW j \in Prios
                PROVE  u.ingress_bytes[i][j] + u.hdrm_bytes[i][j]
                           = SumTo([o \in Ports |-> rr[i][o][j]], NumPorts)
    BY DEF IngressExact
  <2>. DEFINE f == [o \in Ports |-> r[i][o][j]]
              g == [o \in Ports |-> rr[i][o][j]]
  <2>1. m.ingress_bytes[i][j] + m.hdrm_bytes[i][j] = SumTo(f, NumPorts)
    BY DEF AccountInv, IngressExact
  <2>2. /\ \A o \in 1 .. NumPorts : f[o] \in Int
        /\ \A o \in 1 .. NumPorts : g[o] = IF i = in /\ o = out /\ j = q THEN f[o] + d ELSE f[o]
    BY <1>0, <1>1 DEF Ports
  <2>out. out \in 1 .. NumPorts
    BY DEF Ports
  <2>. HIDE DEF f, g
  <2>3. CASE i = in /\ j = q
    <3>1. \A o \in 1 .. NumPorts : g[o] = IF o = out THEN f[o] + d ELSE f[o]
      BY <2>2, <2>3
    <3>2. \A o \in 1 .. NumPorts : f[o] \in Int
      BY <2>2
    <3>3. SumTo(g, NumPorts) = SumTo(f, NumPorts) + d
      BY ONLY <1>ports, <2>out, <3>1, <3>2, SumToUpdate, d \in Int, ZenonT(30)
    <3>. QED  BY <1>2, <2>1, <2>3, <3>3 DEF g, Charged
  <2>4. CASE <<i, j>> # <<in, q>>
    <3>1. \A o \in 1 .. NumPorts : g[o] = f[o]
      BY <2>2, <2>4
    <3>2. SumTo(g, NumPorts) = SumTo(f, NumPorts)
      BY <1>ports, <3>1, SumToSame
    <3>. QED  BY <1>2, <2>1, <2>4, <3>2 DEF g, Charged
  <2>. QED  BY <2>3, <2>4
<1>4. EgressExact(u, rr)
  <2>. SUFFICES ASSUME NEW o \in Ports, NEW j \in Prios
                PROVE  u.egress_bytes[o][j] = SumTo([i \in Ports |-> rr[i][o][j]], NumPorts)
    BY DEF EgressExact
  <2>. DEFINE f == [i \in Ports |-> r[i][o][j]]
              g == [i \in Ports |-> rr[i][o][j]]
  <2>1. m.egress_bytes[o][j] = SumTo(f, NumPorts)
    BY DEF AccountInv, EgressExact
  <2>2. /\ \A i \in 1 .. NumPorts : f[i] \in Int
        /\ \A i \in 1 .. NumPorts : g[i] = IF i = in /\ o = out /\ j = q THEN f[i] + d ELSE f[i]
    BY <1>0, <1>1 DEF Ports
  <2>in. in \in 1 .. NumPorts
    BY DEF Ports
  <2>. HIDE DEF f, g
  <2>3. CASE o = out /\ j = q
    <3>1. \A i \in 1 .. NumPorts : g[i] = IF i = in THEN f[i] + d ELSE f[i]
      BY <2>2, <2>3
    <3>2. \A i \in 1 .. NumPorts : f[i] \in Int
      BY <2>2
    <3>3. SumTo(g, NumPorts) = SumTo(f, NumPorts) + d
      BY ONLY <1>ports, <2>in, <3>1, <3>2, SumToUpdate, d \in Int, ZenonT(30)
    <3>. QED  BY <1>2, <2>1, <2>3, <3>3 DEF g, Charged
  <2>4. CASE <<o, j>> # <<out, q>>
    <3>1. \A i \in 1 .. NumPorts : g[i] = f[i]
      BY <2>2, <2>4
    <3>2. SumTo(g, NumPorts) = SumTo(f, NumPorts)
      BY <1>ports, <3>1, SumToSame
    <3>. QED  BY <1>2, <2>1, <2>4, <3>2 DEF g, Charged
  <2>. QED  BY <2>3, <2>4
<1>5. SharedExact(u)
  <2>. DEFINE t == SharedTable(m)
              w == SharedTable(u)
              e == GetSharedUsed(u, in, q) - GetSharedUsed(m, in, q)
  <2>1. /\ \A i \in Ports, j \in Prios : t[i][j] = GetSharedUsed(m, i, j)
        /\ \A i \in Ports, j \in Prios : w[i][j] = GetSharedUsed(u, i, j)
    BY DEF SharedTable
  <2>2. /\ \A i \in Ports, j \in Prios : GetSharedUsed(m, i, j) \in Int
        /\ \A i \in Ports, j \in Prios : GetSharedUsed(u, i, j) \in Int
    BY <1>0, <1>2 DEF GetSharedUsed
  <2>3. \A i \in Ports, j \in Prios :
            <<i, j>> # <<in, q>> => GetSharedUsed(u, i, j) = GetSharedUsed(m, i, j)
    BY DEF GetSharedUsed, Charged
  <2>4. GetSharedUsed(u, in, q) = GetSharedUsed(m, in, q) + e
    BY <2>2
  <2>e. e \in Int
    BY <2>2
  <2>5. m.shared_used_bytes = SumTable(t, NumPorts, NumPrios)
    BY DEF AccountInv, SharedExact
  <2>6. u.shared_used_bytes = m.shared_used_bytes + e
    <3>1. u.shared_used_bytes - GetSharedUsed(u, in, q) = m.shared_used_bytes - GetSharedUsed(m, in, q)
      BY DEF Charged
    <3>2. GetSharedUsed(m, in, q) \in Int /\ GetSharedUsed(u, in, q) \in Int
      BY <2>2
    <3>. QED  BY <1>2, <3>1, <3>2
  <2>. HIDE DEF t, w, e
  <2>7. EntryChanged(t, w, NumPorts, NumPrios, in, q, e)
    BY <1>ports, <1>prios, <2>1, <2>2, <2>3, <2>4, <2>e DEF Ports, Prios, EntryChanged
  <2>8. SumTable(w, NumPorts, NumPrios) = SumTable(t, NumPorts, NumPrios) + e
    BY ONLY <2>7, SumTableUpdate
  <2>. QED  BY <2>5, <2>6, <2>8 DEF SharedExact, w
<1>. QED  BY <1>0, <1>1, <1>3, <1>4, <1>5 DEF AccountInv, Charged, rr
(* What a write to one egress counter leaves alone.                        *)
LEMMA SetEgress ==
    ASSUME NEW m \in MmuState, NEW p \in Ports, NEW q \in Prios, NEW x \in Nat
    PROVE  LET u == [m EXCEPT !.egress_bytes[p][q] = x]
           IN  /\ u \in MmuState
               /\ u.shared_used_bytes = m.shared_used_bytes /\ u.hdrm_bytes = m.hdrm_bytes
               /\ u.ingress_bytes = m.ingress_bytes /\ u.paused = m.paused
               /\ \A i \in Ports, j \in Prios :
                      u.egress_bytes[i][j] = IF <<i, j>> = <<p, q>> THEN x ELSE m.egress_bytes[i][j]
<1>. DEFINE u == [m EXCEPT !.egress_bytes[p][q] = x]
            e == [m.egress_bytes EXCEPT ![p][q] = x]
<1>1. u = [m EXCEPT !.egress_bytes = e]
  BY DEF MmuState
<1>2. /\ e \in PerQueue(Nat)
      /\ \A i \in Ports, j \in Prios : e[i][j] = IF <<i, j>> = <<p, q>> THEN x ELSE m.egress_bytes[i][j]
  BY DEF MmuState, PerQueue
<1>. HIDE DEF e, u
<1>3. /\ u \in MmuState /\ u.egress_bytes = e
      /\ u.shared_used_bytes = m.shared_used_bytes /\ u.hdrm_bytes = m.hdrm_bytes
      /\ u.ingress_bytes = m.ingress_bytes /\ u.paused = m.paused
  BY <1>1, <1>2 DEF MmuState
<1>. QED  BY <1>2, <1>3 DEF u

(* Only the pause flag of queue (p, q) differs between m and u.            *)
FlagChange(m, u, p, q) ==
    /\ u \in MmuState
    /\ u.shared_used_bytes = m.shared_used_bytes /\ u.hdrm_bytes = m.hdrm_bytes
    /\ u.ingress_bytes = m.ingress_bytes /\ u.egress_bytes = m.egress_bytes
    /\ \A i \in Ports, j \in Prios : <<i, j>> # <<p, q>> => u.paused[i][j] = m.paused[i][j]

LEMMA SetFlag ==
    ASSUME NEW m \in MmuState, NEW p \in Ports, NEW q \in Prios
    PROVE  /\ FlagChange(m, SetPause(m, p, q), p, q) /\ SetPause(m, p, q).paused[p][q]
           /\ FlagChange(m, SetResume(m, p, q), p, q) /\ ~ SetResume(m, p, q).paused[p][q]
<1>1. FlagChange(m, SetPause(m, p, q), p, q) /\ SetPause(m, p, q).paused[p][q]
  <2>. DEFINE b == [m.paused EXCEPT ![p][q] = TRUE]
              u == SetPause(m, p, q)
  <2>1. u = [m EXCEPT !.paused = b]
    BY DEF MmuState, SetPause
  <2>2. /\ b \in PerQueue(BOOLEAN) /\ b[p][q]
        /\ \A i \in Ports, j \in Prios : <<i, j>> # <<p, q>> => b[i][j] = m.paused[i][j]
    BY DEF MmuState, PerQueue
  <2>. HIDE DEF b, u
  <2>3. u.paused = b /\ u \in MmuState
        /\ u.shared_used_bytes = m.shared_used_bytes /\ u.hdrm_bytes = m.hdrm_bytes
        /\ u.ingress_bytes = m.ingress_bytes /\ u.egress_bytes = m.egress_bytes
    BY <2>1, <2>2 DEF MmuState
  <2>. QED  BY <2>2, <2>3 DEF FlagChange, u
<1>2. FlagChange(m, SetResume(m, p, q), p, q) /\ ~ SetResume(m, p, q).paused[p][q]
  <2>. DEFINE b == [m.paused EXCEPT ![p][q] = FALSE]
              u == SetResume(m, p, q)
  <2>1. u = [m EXCEPT !.paused = b]
    BY DEF MmuState, SetResume
  <2>2. /\ b \in PerQueue(BOOLEAN) /\ ~ b[p][q]
        /\ \A i \in Ports, j \in Prios : <<i, j>> # <<p, q>> => b[i][j] = m.paused[i][j]
    BY DEF MmuState, PerQueue
  <2>. HIDE DEF b, u
  <2>3. u.paused = b /\ u \in MmuState
        /\ u.shared_used_bytes = m.shared_used_bytes /\ u.hdrm_bytes = m.hdrm_bytes
        /\ u.ingress_bytes = m.ingress_bytes /\ u.egress_bytes = m.egress_bytes
    BY <2>1, <2>2 DEF MmuState
  <2>. QED  BY <2>2, <2>3 DEF FlagChange, u
<1>. QED  BY <1>1, <1>2

(* The accounts do not depend on the pause flags.                          *)
LEMMA AccountFrame ==
    ASSUME NEW m, NEW u, NEW r, NEW p, NEW q, AccountInv(m, r), FlagChange(m, u, p, q)
    PROVE  AccountInv(u, r)
<1>1. SharedTable(u) = SharedTable(m)
  BY DEF SharedTable, GetSharedUsed, FlagChange
<1>. QED  BY <1>1 DEF AccountInv, IngressExact, EgressExact, SharedExact, SharedBounded, FlagChange

(* DoSwitchSend keeps the invariant.                                       *)
LEMMA AdmittedInv ==
    ASSUME NEW m, NEW r, IInv(m, r), NEW in \in Ports, NEW out \in Ports, NEW q \in Prios,
           NEW s \in Sizes, CheckIngressAdmission(m, in, q, s)
    PROVE  IInv(Admitted(m, in, out, q, s), Moved(r, in, out, q, s))
<1>. DEFINE v == UpdateIngressAdmission(m, in, q, s)
            w == UpdateEgressAdmission(v, out, q, s)
            a == Admitted(m, in, out, q, s)
            rr == Moved(r, in, out, q, s)
<1>0. /\ m \in MmuState /\ SharedBounded(m) /\ s \in Nat \ {0} /\ m.hdrm_bytes[in][q] <= headroom[in]
      /\ r[in][out][q] + s \in Nat /\ s \in Int
  BY MmuAssumption DEF IInv, AccountInv, HeadroomSafe, PerQueue
<1>1. IngressChange(m, v, in, q, s) /\ SharedBounded(v) /\ v.hdrm_bytes[in][q] <= headroom[in]
  BY <1>0, UpdateIngress
<1>. HIDE DEF v
<1>2. v \in MmuState /\ v.egress_bytes[out][q] + s \in Nat
  BY <1>0, <1>1 DEF IngressChange, MmuState, PerQueue
<1>3. /\ w \in MmuState
      /\ w.shared_used_bytes = v.shared_used_bytes /\ w.hdrm_bytes = v.hdrm_bytes
      /\ w.ingress_bytes = v.ingress_bytes /\ w.paused = v.paused
      /\ \A i \in Ports, j \in Prios :
             w.egress_bytes[i][j] = IF <<i, j>> = <<out, q>> THEN v.egress_bytes[out][q] + s
                                    ELSE v.egress_bytes[i][j]
  BY <1>2, SetEgress DEF UpdateEgressAdmission
<1>. HIDE DEF w
<1>4. Charged(m, w, in, out, q, s)
  <2>1. GetSharedUsed(w, in, q) = GetSharedUsed(v, in, q)
    BY <1>3 DEF GetSharedUsed
  <2>. QED  BY <1>1, <1>3, <2>1 DEF Charged, IngressChange, SharedBounded
<1>5. AccountInv(w, rr)
  BY <1>0, <1>4, AccountStep DEF IInv
<1>6. /\ \A i \in Ports, j \in Prios : w.hdrm_bytes[i][j] <= headroom[i]
      /\ \A i \in Ports, j \in Prios : <<i, j>> # <<in, q>> => w.hdrm_bytes[i][j] = m.hdrm_bytes[i][j]
      /\ w.paused = m.paused
  BY <1>1, <1>3 DEF IInv, HeadroomSafe, IngressChange
<1>7. w.ingress_bytes[in][q] + w.hdrm_bytes[in][q] > 0
  <2>1. w.ingress_bytes[in][q] + w.hdrm_bytes[in][q] = m.ingress_bytes[in][q] + m.hdrm_bytes[in][q] + s
    BY <1>4 DEF Charged
  <2>2. m.ingress_bytes[in][q] \in Nat /\ m.hdrm_bytes[in][q] \in Nat
    BY <1>0 DEF MmuState, PerQueue
  <2>. QED  BY <1>0, <2>1, <2>2
<1>8. \A i \in Ports, j \in Prios :
          <<i, j>> # <<in, q>> => w.ingress_bytes[i][j] + w.hdrm_bytes[i][j]
                                      = m.ingress_bytes[i][j] + m.hdrm_bytes[i][j]
  BY <1>4 DEF Charged
<1>9. CASE CheckShouldPause(w, in, q)
  <2>1. a = SetPause(w, in, q)
    BY <1>9 DEF Admitted, w, v
  <2>. HIDE DEF a, rr
  <2>2. FlagChange(w, a, in, q) /\ a.paused[in][q]
    BY <1>3, <2>1, SetFlag
  <2>3. AccountInv(a, rr)
    BY <1>5, <2>2, AccountFrame
  <2>4. HeadroomSafe(a)
    <3>. SUFFICES ASSUME NEW i \in Ports, NEW j \in Prios
                  PROVE  /\ a.hdrm_bytes[i][j] <= headroom[i]
                         /\ a.hdrm_bytes[i][j] > 0 => a.paused[i][j]
      BY DEF HeadroomSafe
    <3>1. CASE <<i, j>> = <<in, q>>
      BY <1>6, <2>2, <3>1 DEF FlagChange
    <3>2. CASE <<i, j>> # <<in, q>>
      BY <1>6, <2>2, <3>2 DEF HeadroomSafe, IInv, FlagChange
    <3>. QED  BY <3>1, <3>2
  <2>5. PauseJustified(a)
    <3>. SUFFICES ASSUME NEW i \in Ports, NEW j \in Prios, a.paused[i][j]
                  PROVE  a.ingress_bytes[i][j] + a.hdrm_bytes[i][j] > 0
      BY DEF PauseJustified
    <3>1. CASE <<i, j>> = <<in, q>>
      BY <1>7, <2>2, <3>1 DEF FlagChange
    <3>2. CASE <<i, j>> # <<in, q>>
      BY <1>6, <1>8, <2>2, <3>2 DEF PauseJustified, IInv, FlagChange
    <3>. QED  BY <3>1, <3>2
  <2>. QED  BY <2>3, <2>4, <2>5 DEF IInv, a, rr
<1>10. CASE ~ CheckShouldPause(w, in, q)
  <2>1. a = w
    BY <1>10 DEF Admitted, SetPause, w, v
  <2>. HIDE DEF a, rr
  <2>2. w.hdrm_bytes[in][q] > 0 => w.paused[in][q]
    BY <1>10 DEF CheckShouldPause
  <2>3. HeadroomSafe(w)
    BY <1>6, <2>2 DEF HeadroomSafe, IInv
  <2>4. PauseJustified(w)
    BY <1>6, <1>7, <1>8 DEF PauseJustified, IInv
  <2>. QED  BY <1>5, <2>1, <2>3, <2>4 DEF IInv, a, rr
<1>. QED  BY <1>9, <1>10

(* Resident bytes are charged to their ingress and egress queues, and what *)
(* a queue draws from the pool is in the pool counter: no refund wraps.    *)
LEMMA ResidentCharged ==
    ASSUME NEW m, NEW r, AccountInv(m, r), NEW in \in Ports, NEW out \in Ports, NEW q \in Prios
    PROVE  /\ r[in][out][q] <= m.ingress_bytes[in][q] + m.hdrm_bytes[in][q]
           /\ r[in][out][q] <= m.egress_bytes[out][q]
           /\ GetSharedUsed(m, in, q) <= m.shared_used_bytes
<1>0. /\ \A i, o \in Ports, j \in Prios : r[i][o][j] \in Nat
      /\ \A i \in Ports, j \in Prios : m.ingress_bytes[i][j] \in Nat
      /\ NumPorts \in Nat /\ NumPrios \in Nat /\ reserve \in Nat
  BY MmuAssumption DEF AccountInv, MmuState, PerQueue
<1>1. r[in][out][q] <= m.ingress_bytes[in][q] + m.hdrm_bytes[in][q]
  <2>. DEFINE f == [o \in Ports |-> r[in][o][q]]
  <2>1. m.ingress_bytes[in][q] + m.hdrm_bytes[in][q] = SumTo(f, NumPorts)
    BY DEF AccountInv, IngressExact
  <2>2. (\A o \in 1 .. NumPorts : f[o] \in Nat) /\ f[out] = r[in][out][q] /\ out \in 1 .. NumPorts
    BY <1>0 DEF Ports
  <2>. HIDE DEF f
  <2>. QED  BY <1>0, <2>1, <2>2, SumToBounds
<1>2. r[in][out][q] <= m.egress_bytes[out][q]
  <2>. DEFINE f == [i \in Ports |-> r[i][out][q]]
  <2>1. m.egress_bytes[out][q] = SumTo(f, NumPorts)
    BY DEF AccountInv, EgressExact
  <2>2. (\A i \in 1 .. NumPorts : f[i] \in Nat) /\ f[in] = r[in][out][q] /\ in \in 1 .. NumPorts
    BY <1>0 DEF Ports
  <2>. HIDE DEF f
  <2>. QED  BY <1>0, <2>1, <2>2, SumToBounds
<1>3. GetSharedUsed(m, in, q) <= m.shared_used_bytes
  <2>. DEFINE t == SharedTable(m)
  <2>1. \A i \in Ports, j \in Prios : t[i][j] = GetSharedUsed(m, i, j) /\ t[i][j] \in Nat
    BY <1>0 DEF SharedTable, GetSharedUsed
  <2>2. m.shared_used_bytes = SumTable(t, NumPorts, NumPrios)
    BY DEF AccountInv, SharedExact
  <2>. HIDE DEF t
  <2>3. t[in][q] <= SumTable(t, NumPorts, NumPrios)
    BY <1>0, <2>1, SumTableBounds DEF Ports, Prios
  <2>. QED  BY <2>1, <2>2, <2>3
<1>. QED  BY <1>1, <1>2, <1>3

(* SwitchNotifyDequeue keeps the invariant.                                *)
LEMMA ReleasedInv ==
    ASSUME NEW m, NEW r, IInv(m, r), NEW in \in Ports, NEW out \in Ports, NEW q \in Prios,
           NEW s \in Sizes, s <= r[in][out][q]
    PROVE  IInv(Released(m, in, out, q, s), Moved(r, in, out, q, -s))
<1>. DEFINE v == RemoveFromIngressAdmission(m, in, q, s)
            w == RemoveFromEgressAdmission(v, out, q, s)
            a == Released(m, in, out, q, s)
            rr == Moved(r, in, out, q, -s)
<1>0. /\ m \in MmuState /\ SharedBounded(m) /\ s \in Nat \ {0}
      /\ r[in][out][q] \in Nat /\ r[in][out][q] + (-s) \in Nat /\ -s \in Int
  BY MmuAssumption DEF IInv, AccountInv, PerQueue
<1>c. /\ m.ingress_bytes[in][q] \in Nat /\ m.hdrm_bytes[in][q] \in Nat
      /\ m.egress_bytes[out][q] \in Nat
  BY <1>0 DEF MmuState, PerQueue
<1>r. /\ s <= m.ingress_bytes[in][q] + m.hdrm_bytes[in][q]
      /\ s <= m.egress_bytes[out][q]
      /\ GetSharedUsed(m, in, q) <= m.shared_used_bytes
  <2>1. /\ r[in][out][q] <= m.ingress_bytes[in][q] + m.hdrm_bytes[in][q]
        /\ r[in][out][q] <= m.egress_bytes[out][q]
        /\ GetSharedUsed(m, in, q) <= m.shared_used_bytes
    BY ResidentCharged DEF IInv
  <2>. QED  BY <1>0, <1>c, <2>1
<1>1. IngressChange(m, v, in, q, -s) /\ SharedBounded(v) /\ v.hdrm_bytes[in][q] <= m.hdrm_bytes[in][q]
  BY <1>0, <1>r, RemoveIngress
<1>. HIDE DEF v
<1>2. /\ v \in MmuState /\ v.egress_bytes[out][q] = m.egress_bytes[out][q]
      /\ v.egress_bytes[out][q] - s \in Nat
      /\ Minus(v.egress_bytes[out][q], s) = v.egress_bytes[out][q] - s
  BY <1>0, <1>1, <1>c, <1>r DEF IngressChange, Minus
<1>3. /\ w \in MmuState
      /\ w.shared_used_bytes = v.shared_used_bytes /\ w.hdrm_bytes = v.hdrm_bytes
      /\ w.ingress_bytes = v.ingress_bytes /\ w.paused = v.paused
      /\ \A i \in Ports, j \in Prios :
             w.egress_bytes[i][j] = IF <<i, j>> = <<out, q>> THEN v.egress_bytes[out][q] - s
                                    ELSE v.egress_bytes[i][j]
  BY <1>2, SetEgress DEF RemoveFromEgressAdmission
<1>. HIDE DEF w
<1>4. Charged(m, w, in, out, q, -s)
  <2>1. GetSharedUsed(w, in, q) = GetSharedUsed(v, in, q)
    BY <1>3 DEF GetSharedUsed
  <2>2. v.egress_bytes[out][q] - s = m.egress_bytes[out][q] + (-s)
    BY <1>0, <1>2, <1>c
  <2>. QED  BY <1>1, <1>3, <2>1, <2>2 DEF Charged, IngressChange, SharedBounded
<1>5. AccountInv(w, rr)
  BY <1>0, <1>4, AccountStep DEF IInv
<1>6. /\ w.hdrm_bytes[in][q] <= m.hdrm_bytes[in][q]
      /\ \A i \in Ports, j \in Prios : <<i, j>> # <<in, q>> => w.hdrm_bytes[i][j] = m.hdrm_bytes[i][j]
      /\ w.paused = m.paused
  BY <1>1, <1>3 DEF IngressChange
<1>7. /\ \A i \in Ports, j \in Prios :
             w.hdrm_bytes[i][j] <= headroom[i] /\ (w.hdrm_bytes[i][j] > 0 => w.paused[i][j])
      /\ w.ingress_bytes[in][q] \in Nat /\ w.hdrm_bytes[in][q] \in Nat
  <2>1. m.hdrm_bytes[in][q] <= headroom[in] /\ (m.hdrm_bytes[in][q] > 0 => m.paused[in][q])
    BY DEF IInv, HeadroomSafe
  <2>2. w.hdrm_bytes[in][q] \in Nat /\ w.ingress_bytes[in][q] \in Nat /\ headroom[in] \in Nat
    BY <1>3, MmuAssumption DEF MmuState, PerQueue
  <2>3. w.hdrm_bytes[in][q] <= headroom[in] /\ (w.hdrm_bytes[in][q] > 0 => w.paused[in][q])
    BY <1>6, <1>c, <2>1, <2>2
  <2>. QED  BY <1>6, <2>2, <2>3 DEF IInv, HeadroomSafe
<1>8. \A i \in Ports, j \in Prios :
          <<i, j>> # <<in, q>> => w.ingress_bytes[i][j] + w.hdrm_bytes[i][j]
                                      = m.ingress_bytes[i][j] + m.hdrm_bytes[i][j]
  BY <1>4 DEF Charged
<1>9. CASE CheckShouldResume(w, in, q)
  <2>1. a = SetResume(w, in, q)
    BY <1>9 DEF Released, w, v
  <2>2. FlagChange(w, a, in, q) /\ ~ a.paused[in][q]
    <3>. HIDE DEF a
    <3>. QED  BY <1>3, <2>1, SetFlag
  <2>. HIDE DEF a, rr
  <2>3. AccountInv(a, rr)
    BY <1>5, <2>2, AccountFrame
  <2>4. HeadroomSafe(a)
    <3>. SUFFICES ASSUME NEW i \in Ports, NEW j \in Prios
                  PROVE  /\ a.hdrm_bytes[i][j] <= headroom[i]
                         /\ a.hdrm_bytes[i][j] > 0 => a.paused[i][j]
      BY DEF HeadroomSafe
    <3>1. CASE <<i, j>> = <<in, q>>
      BY <1>7, <1>9, <2>2, <3>1 DEF FlagChange, CheckShouldResume
    <3>2. CASE <<i, j>> # <<in, q>>
      BY <1>7, <2>2, <3>2 DEF FlagChange
    <3>. QED  BY <3>1, <3>2
  <2>5. PauseJustified(a)
    <3>. SUFFICES ASSUME NEW i \in Ports, NEW j \in Prios, a.paused[i][j]
                  PROVE  a.ingress_bytes[i][j] + a.hdrm_bytes[i][j] > 0
      BY DEF PauseJustified
    <3>1. <<i, j>> # <<in, q>>
      BY <2>2
    <3>. QED  BY <1>6, <1>8, <2>2, <3>1 DEF PauseJustified, IInv, FlagChange
  <2>. QED  BY <2>3, <2>4, <2>5 DEF IInv, a, rr
<1>10. CASE ~ CheckShouldResume(w, in, q)
  <2>1. a = w
    BY <1>10 DEF Released, w, v
  <2>. HIDE DEF a, rr
  <2>2. w.paused[in][q] => w.ingress_bytes[in][q] + w.hdrm_bytes[in][q] > 0
    BY <1>7, <1>10, MmuAssumption DEF CheckShouldResume, GetSharedUsed
  <2>3. HeadroomSafe(w)
    BY <1>7 DEF HeadroomSafe
  <2>4. PauseJustified(w)
    BY <1>6, <1>8, <2>2 DEF PauseJustified, IInv
  <2>. QED  BY <1>5, <2>1, <2>3, <2>4 DEF IInv, a, rr
<1>. QED  BY <1>9, <1>10

(* An unused unit, with nothing resident.                                  *)
NothingResident == [i \in Ports |-> [o \in Ports |-> [q \in Prios |-> 0]]]

LEMMA EmptyInv == IInv(EmptyMmu, NothingResident)
<1>. DEFINE m == EmptyMmu
            r == NothingResident
<1>1. m \in MmuState /\ r \in [Ports -> PerQueue(Nat)]
  BY DEF NothingResident, EmptyMmu, MmuState, PerQueue
<1>2. /\ \A p \in Ports, q \in Prios : /\ m.ingress_bytes[p][q] = 0 /\ m.hdrm_bytes[p][q] = 0
                                       /\ m.egress_bytes[p][q] = 0 /\ ~ m.paused[p][q]
      /\ \A i, o \in Ports, q \in Prios : r[i][o][q] = 0
      /\ m.shared_used_bytes = 0
      /\ NumPorts \in Nat /\ NumPrios \in Nat
  BY MmuAssumption DEF NothingResident, EmptyMmu
<1>. HIDE DEF m, r
<1>3. IngressExact(m, r)
  <2>. SUFFICES ASSUME NEW i \in Ports, NEW q \in Prios
                PROVE  SumTo([o \in Ports |-> r[i][o][q]], NumPorts) = 0
    BY <1>2 DEF IngressExact
  <2>. QED  BY <1>2, SumToZero DEF Ports
<1>4. EgressExact(m, r)
  <2>. SUFFICES ASSUME NEW o \in Ports, NEW q \in Prios
                PROVE  SumTo([i \in Ports |-> r[i][o][q]], NumPorts) = 0
    BY <1>2 DEF EgressExact
  <2>. QED  BY <1>2, SumToZero DEF Ports
<1>5. SharedExact(m)
  <2>. DEFINE t == SharedTable(m)
  <2>1. \A i \in 1 .. NumPorts, j \in 1 .. NumPrios : t[i][j] = 0
    BY <1>2, MmuAssumption DEF SharedTable, GetSharedUsed, Ports, Prios
  <2>. HIDE DEF t
  <2>2. SumTable(t, NumPorts, NumPrios) = 0
    BY <1>2, <2>1, SumTableZero
  <2>. QED  BY <1>2, <2>2 DEF SharedExact, t
<1>6. SharedBounded(m)
  BY <1>2, ConfigNat DEF SharedBounded
<1>7. HeadroomSafe(m) /\ PauseJustified(m)
  BY <1>2, MmuAssumption DEF HeadroomSafe, PauseJustified
<1>. QED  BY <1>1, <1>3, <1>4, <1>5, <1>6, <1>7 DEF IInv, AccountInv, m, r

(* A packet is refused only when its upstream device is paused: headroom   *)
(* that holds no other packet has room for this one.                       *)
LEMMA RefusedIsPaused ==
    ASSUME NEW m, NEW r, IInv(m, r), NEW p \in Ports, NEW q \in Prios, NEW s \in Sizes,
           ~ CheckIngressAdmission(m, p, q, s)
    PROVE  m.paused[p][q]
<1>1. s <= headroom[p] /\ headroom[p] \in Nat /\ s \in Nat
  BY HeadroomAssumption, MmuAssumption
<1>2. m.hdrm_bytes[p][q] \in Nat
  BY DEF IInv, AccountInv, MmuState, PerQueue
<1>3. m.hdrm_bytes[p][q] > 0
  BY <1>1, <1>2 DEF CheckIngressAdmission
<1>. QED  BY <1>3 DEF IInv, HeadroomSafe

-----------------------------------------------------------------------------
(* The unit as SwitchNode drives it.                                       *)

LEMMA InitInv == Init => IInv(mmu, resident)
BY EmptyInv DEF Init, NothingResident

(* Every step keeps the invariant.                                         *)
LEMMA NextInv == IInv(mmu, resident) /\ [Next]_vars => IInv(mmu', resident')
<1>. SUFFICES ASSUME IInv(mmu, resident), [Next]_vars PROVE IInv(mmu', resident')
  OBVIOUS
<1>0. resident \in [Ports -> PerQueue(Nat)] /\ Sizes \subseteq Nat \ {0}
  BY MmuAssumption DEF IInv, AccountInv
<1>1. ASSUME NEW in \in Ports, NEW out \in Ports, NEW q \in Prios, NEW psize \in Sizes,
             Admit(in, out, q, psize)
      PROVE  IInv(mmu', resident')
  <2>1. resident' = Moved(resident, in, out, q, psize)
    BY <1>1 DEF Admit, Moved
  <2>2. IInv(Admitted(mmu, in, out, q, psize), Moved(resident, in, out, q, psize))
    BY <1>1, AdmittedInv DEF Admit
  <2>. QED  BY <1>1, <2>1, <2>2 DEF Admit
<1>2. ASSUME NEW in \in Ports, NEW out \in Ports, NEW q \in Prios, NEW psize \in Sizes,
             Release(in, out, q, psize)
      PROVE  IInv(mmu', resident')
  <2>1. resident[in][out][q] - psize = resident[in][out][q] + (-psize)
    BY <1>0 DEF PerQueue
  <2>2. resident' = Moved(resident, in, out, q, -psize)
    BY <1>2, <2>1 DEF Release, Moved
  <2>3. IInv(Released(mmu, in, out, q, psize), Moved(resident, in, out, q, -psize))
    BY <1>2, ReleasedInv DEF Release
  <2>. QED  BY <1>2, <2>2, <2>3 DEF Release
<1>3. ASSUME NEW in \in Ports, NEW out \in Ports, NEW q \in Prios, NEW psize \in Sizes,
             Forward(in, out, q, psize)
      PROVE  IInv(mmu', resident')
  <2>. DEFINE a == Admitted(mmu, in, out, q, psize)
              r == Moved(resident, in, out, q, psize)
              rr == Moved(r, in, out, q, -psize)
  <2>1. IInv(a, r)
    BY <1>3, AdmittedInv DEF Forward
  <2>2. /\ \A i, o \in Ports, j \in Prios : resident[i][o][j] \in Nat
        /\ psize \in Nat /\ psize \in Int /\ -psize \in Int
        /\ resident[in][out][q] + psize \in Nat
    BY <1>0 DEF PerQueue
  <2>3. /\ r \in [Ports -> PerQueue(Nat)]
        /\ \A i, o \in Ports, j \in Prios :
               r[i][o][j] = IF i = in /\ o = out /\ j = q THEN resident[i][o][j] + psize
                            ELSE resident[i][o][j]
    BY <1>0, <2>2, MovedEntries
  <2>. HIDE DEF a, r
  <2>4. r[in][out][q] = resident[in][out][q] + psize
    BY <2>3
  <2>5. psize <= r[in][out][q] /\ r[in][out][q] + (-psize) = resident[in][out][q]
    BY <2>2, <2>4
  <2>6. /\ rr \in [Ports -> PerQueue(Nat)]
        /\ \A i, o \in Ports, j \in Prios :
               rr[i][o][j] = IF i = in /\ o = out /\ j = q THEN r[i][o][j] + (-psize) ELSE r[i][o][j]
    BY <2>2, <2>3, <2>5, MovedEntries
  <2>7. IInv(Released(a, in, out, q, psize), rr)
    BY <2>1, <2>5, ReleasedInv
  <2>. HIDE DEF rr
  <2>8. rr = resident
    <3>1. \A i, o \in Ports, j \in Prios : rr[i][o][j] = resident[i][o][j]
      BY <2>3, <2>5, <2>6
    <3>. QED  BY <1>0, <2>6, <3>1 DEF PerQueue
  <2>. QED  BY <1>3, <2>7, <2>8 DEF Forward, a
<1>4. CASE UNCHANGED vars
  BY <1>4 DEF vars
<1>. QED  BY <1>1, <1>2, <1>3, <1>4 DEF Next

THEOREM Invariant == Spec => []IInv(mmu, resident)
<1>1. Init => IInv(mmu, resident)
  BY InitInv
<1>2. IInv(mmu, resident) /\ [Next]_vars => IInv(mmu, resident)'
  BY NextInv
<1>. QED  BY <1>1, <1>2, PTL DEF Spec

(* Type correctness: every counter stays a natural number.                 *)
THEOREM TypeCorrect == Spec => []TypeOK
<1>1. IInv(mmu, resident) => TypeOK
  BY DEF IInv, AccountInv, TypeOK
<1>. QED  BY <1>1, Invariant, PTL

(* The counters of the unit are, at all times, the bytes that wait in the  *)
(* egress queues: SwitchNotifyDequeue refunds what DoSwitchSend charged.   *)
THEOREM ExactAccounting == Spec => []AccountingExact
<1>1. IInv(mmu, resident) => AccountingExact
  BY DEF IInv, AccountInv, AccountingExact
<1>. QED  BY <1>1, Invariant, PTL

(* The pool counter is exact and never exceeds the pool, so no unsigned    *)
(* subtraction of the unit wraps around.                                   *)
THEOREM ExactSharedPool == Spec => []SharedPoolExact
<1>1. IInv(mmu, resident) => SharedPoolExact
  BY DEF IInv, AccountInv, SharedPoolExact
<1>. QED  BY <1>1, Invariant, PTL

(* Headroom is never exceeded and never used before the upstream device    *)
(* was told to pause.                                                      *)
THEOREM HeadroomAfterPause == Spec => []HeadroomOnlyWhilePaused
<1>1. IInv(mmu, resident) => HeadroomOnlyWhilePaused
  BY DEF IInv, HeadroomOnlyWhilePaused
<1>. QED  BY <1>1, Invariant, PTL

(* No packet is refused before its upstream device was told to pause.      *)
THEOREM NoDropBeforePause == Spec => []DropOnlyAfterPause
<1>1. IInv(mmu, resident) => DropOnlyAfterPause
  BY RefusedIsPaused DEF DropOnlyAfterPause
<1>. QED  BY <1>1, Invariant, PTL

(* An upstream device is paused only while a byte it sent still waits:     *)
(* the dequeue that must look at CheckShouldResume is still to come.       *)
THEOREM NoOrphanPause == Spec => []PausedHasTraffic
<1>1. ASSUME IInv(mmu, resident), NEW i \in Ports, NEW q \in Prios, mmu.paused[i][q]
      PROVE  \E o \in Ports : resident[i][o][q] > 0
  <2>. SUFFICES ASSUME \A o \in Ports : ~ (resident[i][o][q] > 0) PROVE FALSE
    OBVIOUS
  <2>. DEFINE f == [o \in Ports |-> resident[i][o][q]]
  <2>1. \A o \in 1 .. NumPorts : f[o] = 0
    <3>1. \A o \in Ports : resident[i][o][q] \in Nat
      BY <1>1 DEF IInv, AccountInv, PerQueue
    <3>. QED  BY <3>1 DEF Ports
  <2>2. mmu.ingress_bytes[i][q] + mmu.hdrm_bytes[i][q] = SumTo(f, NumPorts)
    BY <1>1 DEF IInv, AccountInv, IngressExact
  <2>3. mmu.ingress_bytes[i][q] + mmu.hdrm_bytes[i][q] > 0
    BY <1>1 DEF IInv, PauseJustified
  <2>. HIDE DEF f
  <2>4. SumTo(f, NumPorts) = 0
    BY <2>1, MmuAssumption, SumToZero
  <2>. QED  BY <2>2, <2>3, <2>4
<1>2. IInv(mmu, resident) => PausedHasTraffic
  BY <1>1 DEF PausedHasTraffic
<1>. QED  BY <1>2, Invariant, PTL

(* Port p's queues hold at most what they draw from the shared pool, plus  *)
(* a reserve and the port's headroom each: total over all the queues, and  *)
(* the pool counter bounds what is drawn.                                  *)
THEOREM BoundedOccupancy == Spec => []OccupancyBounded
<1>. DEFINE held == [p \in Ports |-> [q \in Prios |-> mmu.ingress_bytes[p][q] + mmu.hdrm_bytes[p][q]]]
            drawn == SharedTable(mmu)
            rows == [p \in 1 .. NumPorts |-> SumTo(held[p], NumPrios)]
            draws == [p \in 1 .. NumPorts |-> SumTo(drawn[p], NumPrios)]
<1>0. /\ NumPorts \in Nat /\ NumPrios \in Nat /\ reserve \in Nat
      /\ \A p \in Ports : headroom[p] \in Nat
      /\ Ports = 1 .. NumPorts /\ Prios = 1 .. NumPrios
  BY MmuAssumption DEF Ports, Prios
<1>1. ASSUME IInv(mmu, resident) PROVE OccupancyBounded
  <2>1. \A p \in Ports, q \in Prios :
            /\ held[p][q] = mmu.ingress_bytes[p][q] + mmu.hdrm_bytes[p][q]
            /\ drawn[p][q] = GetSharedUsed(mmu, p, q)
            /\ mmu.ingress_bytes[p][q] \in Nat /\ mmu.hdrm_bytes[p][q] \in Nat
            /\ mmu.hdrm_bytes[p][q] <= headroom[p]
    BY <1>1 DEF IInv, AccountInv, HeadroomSafe, MmuState, PerQueue, SharedTable
  <2>. HIDE DEF held, drawn
  <2>2. \A p \in Ports, q \in Prios :
            /\ held[p][q] \in Int /\ drawn[p][q] \in Int
            /\ held[p][q] <= drawn[p][q] + (reserve + headroom[p])
    <3>. SUFFICES ASSUME NEW p \in Ports, NEW q \in Prios
                  PROVE  /\ held[p][q] \in Int /\ drawn[p][q] \in Int
                         /\ held[p][q] <= drawn[p][q] + (reserve + headroom[p])
      OBVIOUS
    <3>. DEFINE i == mmu.ingress_bytes[p][q]
                h == mmu.hdrm_bytes[p][q]
    <3>1. /\ held[p][q] = i + h
          /\ drawn[p][q] = IF i > reserve THEN i - reserve ELSE 0
          /\ i \in Nat /\ h \in Nat /\ h <= headroom[p]
      BY <2>1 DEF GetSharedUsed
    <3>2. reserve \in Nat /\ headroom[p] \in Nat
      BY <1>0
    <3>. HIDE DEF i, h
    <3>. QED  BY <3>1, <3>2
  <2>3. \A p \in 1 .. NumPorts :
            /\ rows[p] \in Int /\ draws[p] \in Int /\ headroom[p] \in Int
            /\ rows[p] <= draws[p] + NumPrios * (reserve + headroom[p])
    <3>. SUFFICES ASSUME NEW p \in 1 .. NumPorts
                  PROVE  /\ SumTo(held[p], NumPrios) \in Int
                         /\ SumTo(drawn[p], NumPrios) \in Int
                         /\ headroom[p] \in Int
                         /\ SumTo(held[p], NumPrios)
                                <= SumTo(drawn[p], NumPrios) + NumPrios * (reserve + headroom[p])
      OBVIOUS
    <3>. DEFINE f == held[p]
                g == drawn[p]
                d == reserve + headroom[p]
    <3>1. \A q \in 1 .. NumPrios : f[q] \in Int /\ g[q] \in Int /\ f[q] <= g[q] + d
      BY <1>0, <2>2
    <3>2. d \in Int /\ headroom[p] \in Int
      BY <1>0
    <3>. HIDE DEF f, g, d
    <3>3. SumTo(f, NumPrios) \in Int /\ SumTo(g, NumPrios) \in Int
      BY <1>0, <3>1, SumToInt
    <3>4. SumTo(f, NumPrios) <= SumTo(g, NumPrios) + NumPrios * d
      BY ONLY <1>0, <3>1, <3>2, SumToSlack, ZenonT(30)
    <3>. QED  BY <3>2, <3>3, <3>4 DEF f, g, d
  <2>4. /\ SumTable(held, NumPorts, NumPrios) = SumTo(rows, NumPorts)
        /\ SumTable(drawn, NumPorts, NumPrios) = SumTo(draws, NumPorts)
    BY DEF SumTable
  <2>. HIDE DEF rows, draws
  <2>5. SumTo(rows, NumPorts)
            <= SumTo(draws, NumPorts) + NumPrios * (NumPorts * reserve + SumTo(headroom, NumPorts))
    <3>1. NumPrios \in Int /\ reserve \in Int
      BY <1>0
    <3>. QED  BY ONLY <1>0, <2>3, <3>1, SumToSlacks, ZenonT(30)
  <2>6. SumTo(draws, NumPorts) = mmu.shared_used_bytes /\ mmu.shared_used_bytes <= SharedPool
    BY <1>1, <2>4 DEF IInv, AccountInv, SharedExact, SharedBounded, drawn
  <2>. DEFINE aside == total_hdrm + total_rsrv
  <2>7. /\ aside = NumPorts * reserve + SumTo(headroom, NumPorts)
        /\ SharedPool = buffer_size - aside
    <3>1. /\ total_hdrm = SumTo(headroom, NumPorts) /\ total_rsrv = NumPorts * reserve
          /\ SharedPool = buffer_size - total_hdrm - total_rsrv
      BY DEF total_hdrm, total_rsrv, SharedPool
    <3>2. total_hdrm \in Nat /\ total_rsrv \in Nat /\ buffer_size \in Nat
      BY ConfigNat, MmuAssumption
    <3>3. aside = total_rsrv + total_hdrm /\ SharedPool = buffer_size - aside
      BY <3>1, <3>2
    <3>. QED  BY <3>1, <3>3
  <2>8. aside \in Nat /\ buffer_size \in Nat /\ SharedPool \in Nat
    BY ConfigNat, MmuAssumption
  <2>9. SumTo(rows, NumPorts) \in Int /\ mmu.shared_used_bytes \in Nat
    BY <1>0, <1>1, <2>3, SumToInt DEF IInv, AccountInv, MmuState
  <2>. HIDE DEF aside
  <2>10. NumPrios * aside = (NumPrios - 1) * aside + aside /\ (NumPrios - 1) * aside \in Int
    BY <1>0, <2>8
  <2>11. SumTo(rows, NumPorts) <= buffer_size + (NumPrios - 1) * aside
    BY <2>5, <2>6, <2>7, <2>8, <2>9, <2>10
  <2>. QED  BY <2>4, <2>11 DEF OccupancyBounded, held, aside
<1>. QED  BY <1>1, Invariant, PTL
=============================================================================
