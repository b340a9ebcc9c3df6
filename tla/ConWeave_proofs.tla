-------------------------- MODULE ConWeave_proofs --------------------------
(***************************************************************************)
(* ConWeave keeps a flow in order: proofs for any number of paths, any     *)
(* times and any number of packets, from how the code's constants must     *)
(* relate to the delays of the network (TimesFit).                         *)
(***************************************************************************)
EXTENDS ConWeave, Library_proofs

(* The longest that a packet takes on a path.                              *)
Latest(path) == MinDelay[path] + Jitter

(* What the constants must satisfy.  The driver sets them so: the extra    *)
(* time of the queue (32 us) exceeds the variation of one path's delay,    *)
(* the default waiting time (500 us) the difference of two paths' delays,  *)
(* and an entry expires (1 ms) and ages away (longer still) only after     *)
(* packets, replies and queue have long settled.                           *)
TimesFit ==
    /\ Jitter < ExtraVOQFlushTime
    /\ \A p, q \in Paths : Latest(p) <= MinDelay[q] + DefaultVOQWaitingTime
    /\ \A p \in Paths : Latest(p) + DefaultVOQWaitingTime + ExtraVOQFlushTime <= TxExpiryTime
    /\ \A p \in Paths : TxExpiryTime + Latest(p) <= AgingTime
    /\ \A p \in Paths : Latest(p) + ReplyDelay <= AgingTime

(* The simulation has not reached the time that stands for never.          *)
BeforeMaxTime == now <= MaxTime

-----------------------------------------------------------------------------
(* The packets under way, and a flow's packets in their order of sending.  *)

Carried(w) == UNION {{w[path][k] : k \in DOMAIN w[path]} : path \in Paths}
InFlight   == Carried(wire)

Lined(w) ==
    \A path \in Paths :
        /\ \A k \in DOMAIN w[path] : w[path][k].path = path
        /\ \A j, k \in DOMAIN w[path] : j < k => w[path][j].id < w[path][k].id

(* q is to be passed on before the packets of epoch e and phase 1.         *)
Early(q, e) == q.epoch < e \/ (q.epoch = e /\ q.phase = 0)

HeldIds == IF voq = None THEN {} ELSE {voq.queue[k].id : k \in DOMAIN voq.queue}

-----------------------------------------------------------------------------
(* The inductive invariant, in parts.                                      *)

Types ==
    /\ now \in Nat /\ sent \in 0 .. MaxPackets
    /\ tx = None \/ tx \in TxType
    /\ rx = None \/ rx \in RxType
    /\ voq = None \/ voq \in VoqType
    /\ wire \in [Paths -> Seq(Packet)]
    /\ replies \subseteq ReplyType
    /\ delivered \in Seq(1 .. MaxPackets)
    /\ aging \in [tx : Nat, rx : Nat]
    /\ failed \in BOOLEAN /\ outlived \in BOOLEAN

HoldsWhileReordering == (voq # None) <=> (rx # None /\ rx.reordering)

(* TxToR's entry ages away only after everything it stood for has come.    *)
TxInv ==
    /\ now > TxExpiryTime
    /\ tx = None => InFlight = {} /\ replies = {}
    /\ tx # None => /\ tx.path \in Paths /\ tx.epoch >= 1
                    /\ tx.active <= now /\ tx.tail <= tx.active
                    /\ tx.phase = 1 => tx.timer = MaxTime

(* What a packet under way tells of the entry that tagged it.              *)
FlightInv ==
    \A p \in InFlight :
        /\ p.id <= sent /\ p.tx <= tx.active /\ now <= p.tx + Latest(p.path)
        /\ p.epoch >= 1 /\ p.epoch <= tx.epoch
        /\ p.flag = "TAIL" => p.phase = 0 /\ p.tail = p.tx
        /\ p.phase = 1 => p.tail <= p.tx /\ p.flag = "DATA"
        /\ p.epoch = tx.epoch /\ p.phase = 1 => p.path = tx.path /\ tx.phase = 1 /\ p.tail = tx.tail
        /\ p.epoch = tx.epoch /\ p.flag = "TAIL" => tx.phase = 1 /\ p.tail = tx.tail
        /\ Early(p, tx.epoch) => /\ tx.phase = 0 => p.path = tx.path
                                 /\ tx.phase = 1 => p.tx <= tx.tail
        /\ tx.stabilized => p.path = tx.path

(* The early packets are on one path, and the order of sending is that of  *)
(* epochs, phases and the TAIL.                                            *)
PairInv ==
    \A q, p \in InFlight :
        /\ q.id = p.id => q = p
        /\ Early(p, tx.epoch) /\ Early(q, tx.epoch) => p.path = q.path
        /\ q.id < p.id =>
              /\ q.epoch < p.epoch \/ (q.epoch = p.epoch /\ q.phase <= p.phase)
              /\ q.flag = "TAIL" => ~ Early(p, q.epoch)
              /\ q.epoch = p.epoch /\ q.phase = 0 /\ p.phase = 1 => q.tx <= p.tail

(* A CLEAR of the current epoch means that its phase 0 is over at RxToR.   *)
ReplyInv ==
    \A r \in replies :
        /\ r.since <= now /\ now <= r.since + ReplyDelay
        /\ r.phase = (IF r.flag = "TAIL" THEN 1 ELSE 0)
        /\ rx # None /\ r.since <= rx.active
        /\ tx # None /\ r.epoch <= tx.epoch
        /\ \E q \in Paths : r.since <= tx.active + Latest(q)
        /\ r.flag = "TAIL" /\ r.epoch = tx.epoch =>
              /\ tx.phase = 1
              /\ \A p \in InFlight : ~ Early(p, tx.epoch)
              /\ rx.epoch = tx.epoch
              /\ rx.phase = 1 \/ (voq # None /\ voq.flushAt <= r.since)

(* Once rerouted and stabilized, RxToR is in phase 1; so it was for every  *)
(* rerouted packet of an epoch gone by.                                    *)
SettledInv ==
    /\ tx # None /\ tx.stabilized /\ tx.phase = 1 /\ rx # None => rx.epoch = tx.epoch /\ rx.phase = 1
    /\ \A p \in InFlight : p.phase = 1 /\ p.epoch < tx.epoch =>
          rx # None /\ (rx.epoch > p.epoch \/ (rx.epoch = p.epoch /\ rx.phase = 1))

RxInv ==
    rx # None =>
        /\ rx.active <= now /\ rx.phase0Rx <= now /\ rx.phase0Tx <= now
        /\ tx # None => \E q \in Paths : rx.active <= tx.active + Latest(q)
        /\ rx.cache => \E q \in Paths : rx.phase0Rx <= rx.phase0Tx + Latest(q)
        /\ rx.cache => \A p \in InFlight : p.phase = 1 /\ p.epoch = rx.epoch => rx.phase0Tx <= p.tail
        /\ tx # None /\ tx.phase = 1 /\ rx.epoch = tx.epoch /\ rx.cache => rx.phase0Tx <= tx.tail

(* While packets are held TxToR starts no epoch, and the flush is near to  *)
(* when the first of them came, the TAIL having been sent long before.     *)
HoldInv ==
    voq # None =>
        /\ rx # None /\ rx.phase = 0
        /\ tx # None /\ rx.epoch = tx.epoch /\ tx.phase = 1 /\ rx.tail = tx.tail
        /\ \E q \in Paths : rx.tail + MinDelay[q] <= voq.since
        /\ voq.since <= rx.active
        /\ now <= voq.flushAt
        /\ voq.flushAt <= voq.since + DefaultVOQWaitingTime + ExtraVOQFlushTime

(* RxToR has no entry only while the first packet of an epoch is under way *)
(* or the flow is idle; else it has heard of the flow lately.              *)
Fresh ==
    /\ tx # None /\ ~ tx.stabilized /\ InFlight # {}
    /\ \A p \in InFlight : p.epoch = tx.epoch
    /\ \A r \in replies : r.epoch # tx.epoch
Idle == InFlight = {} /\ (tx # None => tx.active + TxExpiryTime < now)
FreshInv ==
    /\ rx = None => Fresh \/ Idle
    /\ rx # None /\ tx # None =>
          \/ Fresh
          \/ \E q \in InFlight : q.tx <= rx.active + TxExpiryTime
          \/ InFlight = {} /\ tx.active <= rx.active

(* RxToR is never ahead of TxToR, and waits long enough for what is early. *)
EpochInv ==
    rx # None /\ tx # None =>
        /\ rx.epoch <= tx.epoch
        /\ rx.phase = 1 /\ rx.epoch = tx.epoch => tx.phase = 1
        /\ rx.cache /\ rx.epoch = tx.epoch =>
              /\ tx.phase = 0 => rx.phase0Rx >= rx.phase0Tx + MinDelay[tx.path]
              /\ \A p \in InFlight : Early(p, tx.epoch) => rx.phase0Rx >= rx.phase0Tx + MinDelay[p.path]
WaitInv ==
    /\ rx # None /\ rx.phase = 1 => \A p \in InFlight : ~ Early(p, rx.epoch)
    /\ voq # None => \A p \in InFlight : Early(p, rx.epoch) => voq.flushAt > rx.tail + Latest(p.path)

Increasing(s) == \A j, k \in DOMAIN s : j < k => s[j] < s[k]

(* Delivered, held and under way are in the order of sending.              *)
DeliveredInv ==
    /\ Increasing(delivered)
    /\ \A k \in DOMAIN delivered :
          /\ delivered[k] <= sent
          /\ \A h \in HeldIds : delivered[k] < h
          /\ \A p \in InFlight : delivered[k] < p.id
HeldInv ==
    voq # None =>
        /\ \A j, k \in DOMAIN voq.queue : j < k => voq.queue[j].id < voq.queue[k].id
        /\ \A h \in HeldIds :
              h <= sent /\ \A p \in InFlight : IF Early(p, rx.epoch) THEN p.id < h ELSE h < p.id

OrderInv == ~ outlived => EpochInv /\ WaitInv /\ DeliveredInv /\ HeldInv

IInv ==
    /\ Types /\ HoldsWhileReordering /\ TxInv /\ Lined(wire) /\ FlightInv /\ PairInv /\ ReplyInv
    /\ SettledInv /\ RxInv /\ HoldInv /\ FreshInv /\ OrderInv /\ AssertionsHold

-----------------------------------------------------------------------------
(* Helpers                                                                 *)

LEMMA MaxOfTwo ==
    ASSUME NEW a \in Nat, NEW b \in Nat
    PROVE  Max({a, b}) = IF a >= b THEN a ELSE b
<1>1. \E x \in {a, b} : \A y \in {a, b} : x >= y
  OBVIOUS
<1>2. Max({a, b}) \in {a, b} /\ \A y \in {a, b} : Max({a, b}) >= y
  BY <1>1 DEF Max
<1>. QED  BY <1>2

LEMMA MinIsIn ==
    ASSUME NEW S, S \subseteq Nat, S # {}
    PROVE  Min(S) \in S
<1>1. \E k \in S : \A j \in S : ~ (j < k)
  BY LeastNatural
<1>2. \E k \in S : \A j \in S : k <= j
  BY <1>1
<1>. QED  BY <1>2 DEF Min

LEMMA Constants ==
    /\ BaseRTT \in Nat /\ ExtraReplyDeadline \in Nat /\ ExtraVOQFlushTime \in Nat
    /\ TxExpiryTime \in Nat /\ DefaultVOQWaitingTime \in Nat /\ AgingTime \in Nat
    /\ Jitter \in Nat /\ ReplyDelay \in Nat /\ MaxPackets \in Nat /\ MaxTime \in Nat
    /\ \A p \in Paths : MinDelay[p] \in Nat /\ Latest(p) \in Nat
    /\ None \notin Paths
  BY ConWeaveAssumption DEF Latest

LEMMA CarriedDef ==
    ASSUME NEW w \in [Paths -> Seq(Packet)], NEW p
    PROVE  p \in Carried(w) <=> \E path \in Paths : \E k \in 1 .. Len(w[path]) : p = w[path][k]
<1>1. \A path \in Paths : DOMAIN w[path] = 1 .. Len(w[path])
  OBVIOUS
<1>. QED  BY <1>1 DEF Carried

LEMMA CarriedType ==
    ASSUME NEW w \in [Paths -> Seq(Packet)]
    PROVE  Carried(w) \subseteq Packet
  BY CarriedDef

(* w2 is w with s in the place of one path's packets.                      *)
Replaced(w, w2, path, s) ==
    /\ w2 \in [Paths -> Seq(Packet)] /\ w2[path] = s
    /\ \A a \in Paths : a # path => w2[a] = w[a]

LEMMA ReplacedByExcept ==
    ASSUME NEW w \in [Paths -> Seq(Packet)], NEW path \in Paths, NEW s \in Seq(Packet)
    PROVE  Replaced(w, [w EXCEPT ![path] = s], path, s)
  BY DEF Replaced

(* A packet is put at the end of its path.                                 *)
LEMMA CarriedAppend ==
    ASSUME NEW w \in [Paths -> Seq(Packet)], NEW p \in Packet, Lined(w),
           \A q \in Carried(w) : q.id < p.id,
           NEW w2, Replaced(w, w2, p.path, Append(w[p.path], p))
    PROVE  /\ Carried(w2) = Carried(w) \cup {p}
           /\ Lined(w2)
<1>. DEFINE s == w[p.path]
            n == Len(s)
<1>1. p.path \in Paths
  BY DEF Packet
<1>2. s \in Seq(Packet) /\ n \in Nat
  BY <1>1
<1>3. /\ Append(s, p) \in Seq(Packet) /\ Len(Append(s, p)) = n + 1
      /\ Append(s, p)[n + 1] = p
      /\ \A k \in 1 .. n : Append(s, p)[k] = s[k]
  BY <1>2, AppendProperties
<1>4. w2 \in [Paths -> Seq(Packet)]
  BY DEF Replaced
<1>5. w2[p.path] = Append(s, p) /\ \A path \in Paths : path # p.path => w2[path] = w[path]
  BY DEF Replaced
<1>. HIDE DEF s
<1>6. Carried(w2) = Carried(w) \cup {p}
  <2>1. ASSUME NEW q \in Carried(w2) PROVE q \in Carried(w) \/ q = p
    <3>1. PICK path \in Paths : \E k \in 1 .. Len(w2[path]) : q = w2[path][k]
      BY <1>4, <2>1, CarriedDef
    <3>2. PICK k \in 1 .. Len(w2[path]) : q = w2[path][k]
      BY <3>1
    <3>3. CASE path # p.path
      BY <3>2, <3>3, <1>5, CarriedDef
    <3>4. CASE path = p.path
      <4>1. k = n + 1 \/ k \in 1 .. n
        BY <3>2, <3>4, <1>5, <1>3, <1>2
      <4>2. k = n + 1 => q = p
        BY <3>2, <3>4, <1>5, <1>3
      <4>3. k \in 1 .. n => q = s[k]
        BY <3>2, <3>4, <1>5, <1>3
      <4>. QED  BY <4>1, <4>2, <4>3, <1>1, CarriedDef DEF s
    <3>. QED  BY <3>3, <3>4
  <2>2. ASSUME NEW q \in Carried(w) PROVE q \in Carried(w2)
    <3>1. PICK path \in Paths : \E k \in 1 .. Len(w[path]) : q = w[path][k]
      BY <2>2, CarriedDef
    <3>2. PICK k \in 1 .. Len(w[path]) : q = w[path][k]
      BY <3>1
    <3>3. CASE path # p.path
      BY <3>2, <3>3, <1>4, <1>5, CarriedDef
    <3>4. CASE path = p.path
      <4>1. k \in 1 .. n /\ q = s[k]
        BY <3>2, <3>4 DEF s
      <4>2. k \in 1 .. Len(w2[path]) /\ q = w2[path][k]
        BY <4>1, <3>4, <1>5, <1>3, <1>2
      <4>. QED  BY <4>2, <1>4, CarriedDef
    <3>. QED  BY <3>3, <3>4
  <2>3. p \in Carried(w2)
    <3>1. n + 1 \in 1 .. Len(w2[p.path]) /\ p = w2[p.path][n + 1]
      BY <1>5, <1>3, <1>2
    <3>. QED  BY <3>1, <1>1, <1>4, CarriedDef
  <2>. QED  BY <2>1, <2>2, <2>3
<1>7. Lined(w2)
  <2>1. ASSUME NEW path \in Paths, path # p.path
        PROVE  /\ \A k \in DOMAIN w2[path] : w2[path][k].path = path
               /\ \A j, k \in DOMAIN w2[path] : j < k => w2[path][j].id < w2[path][k].id
    BY <2>1, <1>5 DEF Lined
  <2>2. DOMAIN s = 1 .. n /\ DOMAIN Append(s, p) = 1 .. n + 1
    BY <1>2, <1>3
  <2>3. \A k \in 1 .. n : s[k].path = p.path /\ s[k].id < p.id
    BY <2>2, <1>1, CarriedDef DEF Lined, s
  <2>4. \A j, k \in 1 .. n : j < k => s[j].id < s[k].id
    BY <2>2, <1>1 DEF Lined, s
  <2>5. ASSUME NEW k \in 1 .. n + 1 PROVE Append(s, p)[k].path = p.path
    BY <2>3, <1>2, <1>3
  <2>6. ASSUME NEW j \in 1 .. n + 1, NEW k \in 1 .. n + 1, j < k
        PROVE  Append(s, p)[j].id < Append(s, p)[k].id
    <3>. HIDE DEF n
    <3>1. j \in 1 .. n /\ (k \in 1 .. n \/ k = n + 1)
      BY <2>6, <1>2
    <3>. QED  BY <3>1, <2>3, <2>4, <2>6, <1>3
  <2>. QED  BY <2>1, <2>2, <2>5, <2>6, <1>5 DEF Lined
<1>. QED  BY <1>6, <1>7

(* The first packet of a path is taken off it.                             *)
LEMMA CarriedTail ==
    ASSUME NEW w \in [Paths -> Seq(Packet)], Lined(w),
           NEW path \in Paths, w[path] # << >>,
           NEW w2, Replaced(w, w2, path, Tail(w[path]))
    PROVE  LET p == Head(w[path])
           IN  /\ p \in Carried(w) /\ p.path = path
               /\ Carried(w2) = Carried(w) \ {p}
               /\ Lined(w2)
               /\ \A q \in Carried(w2) : q.path = path => p.id < q.id
<1>. DEFINE s == w[path]
            t == Tail(s)
            n == Len(s)
            p == Head(s)
<1>1. s \in Seq(Packet) /\ n \in Nat /\ s # << >>
  OBVIOUS
<1>2. /\ t \in Seq(Packet) /\ Len(t) = n - 1 /\ n >= 1 /\ p = s[1]
      /\ \A k \in 1 .. n - 1 : t[k] = s[k + 1]
  BY <1>1, HeadTailProperties, EmptySeq
<1>3. w2 \in [Paths -> Seq(Packet)] /\ w2[path] = t
      /\ \A q \in Paths : q # path => w2[q] = w[q]
  BY DEF Replaced
<1>4. p \in Carried(w)
  BY <1>2, <1>1, CarriedDef
<1>5. \A a \in Paths : /\ \A k \in 1 .. Len(w[a]) : w[a][k].path = a
                       /\ \A j, k \in 1 .. Len(w[a]) : j < k => w[a][j].id < w[a][k].id
  <2>1. \A a \in Paths : DOMAIN w[a] = 1 .. Len(w[a])
    OBVIOUS
  <2>. QED  BY <2>1 DEF Lined
<1>6. /\ \A k \in 1 .. n : s[k].path = path
      /\ \A j, k \in 1 .. n : j < k => s[j].id < s[k].id
  BY <1>5
<1>6a. \A k \in 1 .. n : s[k].id \in Nat
  <2>1. \A k \in 1 .. n : s[k] \in Packet
    BY <1>1
  <2>2. \A q \in Packet : q.id \in Nat
    BY Constants DEF Packet
  <2>. QED  BY <2>1, <2>2
<1>. HIDE DEF s, t, p
<1>7. p.path = path
  BY <1>2, <1>6, <1>1
<1>8. ASSUME NEW k \in 1 .. n - 1
      PROVE  t[k].path = path /\ p.id < t[k].id /\ t[k] # p /\ t[k] \in Carried(w)
  <2>1. k + 1 \in 1 .. n /\ 1 \in 1 .. n /\ 1 < k + 1 /\ t[k] = s[k + 1]
    BY <1>1, <1>2
  <2>2. t[k].path = path /\ p.id < t[k].id /\ p.id \in Nat
    BY <2>1, <1>2, <1>6, <1>6a
  <2>3. t[k] # p
    BY <2>2
  <2>4. t[k] \in Carried(w)
    BY <2>1, CarriedDef DEF s
  <2>. QED  BY <2>2, <2>3, <2>4
<1>9. Carried(w2) = Carried(w) \ {p}
  <2>1. ASSUME NEW q \in Carried(w2) PROVE q \in Carried(w) /\ q # p
    <3>1. PICK a \in Paths : \E k \in 1 .. Len(w2[a]) : q = w2[a][k]
      BY <1>3, <2>1, CarriedDef
    <3>2. PICK k \in 1 .. Len(w2[a]) : q = w2[a][k]
      BY <3>1
    <3>3. CASE a # path
      <4>1. q = w[a][k] /\ k \in 1 .. Len(w[a])
        BY <3>2, <3>3, <1>3
      <4>2. q.path = a
        BY <4>1, <1>5
      <4>. QED  BY <4>1, <4>2, <3>3, <1>7, CarriedDef
    <3>4. CASE a = path
      BY <3>2, <3>4, <1>2, <1>3, <1>8
    <3>. QED  BY <3>3, <3>4
  <2>2. ASSUME NEW q \in Carried(w), q # p PROVE q \in Carried(w2)
    <3>1. PICK a \in Paths : \E k \in 1 .. Len(w[a]) : q = w[a][k]
      BY <2>2, CarriedDef
    <3>2. PICK k \in 1 .. Len(w[a]) : q = w[a][k]
      BY <3>1
    <3>3. CASE a # path
      BY <3>2, <3>3, <1>3, CarriedDef
    <3>4. CASE a = path
      <4>1. q = s[k] /\ k \in 1 .. n
        BY <3>2, <3>4 DEF s
      <4>2. k # 1
        BY <4>1, <2>2, <1>2
      <4>3. k - 1 \in 1 .. n - 1 /\ (k - 1) + 1 = k
        BY <4>1, <4>2, <1>1
      <4>4. q = t[k - 1] /\ k - 1 \in 1 .. Len(w2[a])
        BY <4>1, <4>3, <1>2, <1>3, <3>4
      <4>. QED  BY <4>4, <1>3, <3>4, CarriedDef
    <3>. QED  BY <3>3, <3>4
  <2>. QED  BY <2>1, <2>2
<1>10. Lined(w2)
  <2>1. ASSUME NEW a \in Paths, a # path
        PROVE  /\ \A k \in DOMAIN w2[a] : w2[a][k].path = a
               /\ \A j, k \in DOMAIN w2[a] : j < k => w2[a][j].id < w2[a][k].id
    BY <2>1, <1>3 DEF Lined
  <2>2. DOMAIN t = 1 .. n - 1
    BY <1>2
  <2>3. ASSUME NEW j \in 1 .. n - 1, NEW k \in 1 .. n - 1, j < k
        PROVE  t[j].id < t[k].id
    <3>1. j + 1 \in 1 .. n /\ k + 1 \in 1 .. n /\ j + 1 < k + 1
      BY <2>3, <1>1
    <3>. QED  BY <3>1, <1>2, <1>6
  <2>. QED  BY <2>1, <2>2, <2>3, <1>3, <1>8 DEF Lined
<1>11. ASSUME NEW q \in Carried(w2), q.path = path PROVE p.id < q.id
  <2>1. PICK a \in Paths : \E k \in 1 .. Len(w2[a]) : q = w2[a][k]
    BY <1>3, <1>11, CarriedDef
  <2>2. PICK k \in 1 .. Len(w2[a]) : q = w2[a][k]
    BY <2>1
  <2>3. a = path
    <3>1. CASE a # path
      BY <3>1, <2>2, <1>3, <1>5, <1>11
    <3>. QED  BY <3>1
  <2>. QED  BY <2>2, <2>3, <1>2, <1>3, <1>8
<1>. QED  BY <1>3, <1>4, <1>7, <1>9, <1>10, <1>11 DEF p, s

-----------------------------------------------------------------------------
(* TxToR sends a packet                                                    *)

(* The host's packet p has been put on its path.                           *)
Sends(p) ==
    /\ p \in Packet /\ p.id = sent + 1 /\ p.tx = now
    /\ InFlight' = InFlight \cup {p} /\ Lined(wire') /\ wire' \in [Paths -> Seq(Packet)]
    /\ tx' \in TxType /\ tx'.path \in Paths /\ tx'.active = now /\ ~ tx'.stabilized
    /\ sent' = sent + 1 /\ failed' = failed
    /\ UNCHANGED <<now, rx, voq, replies, aging, delivered>>

BeginsEpoch(p) ==
    /\ tx = None \/ Expired(tx) \/ tx.stabilized
    /\ tx'.epoch = (IF tx = None THEN 1 ELSE tx.epoch + 1) /\ tx'.phase = 0 /\ tx'.tail = 0
    /\ tx # None /\ ~ Expired(tx) => tx'.path = tx.path
    /\ p.path = tx'.path /\ p.epoch = tx'.epoch /\ p.phase = 0 /\ p.flag = "INIT"
    /\ outlived' = (outlived \/ (tx = None /\ rx # None))

Reroutes(p) ==
    /\ tx # None /\ ~ Expired(tx) /\ ~ tx.stabilized /\ tx.phase = 0
    /\ tx'.epoch = tx.epoch /\ tx'.phase = 1 /\ tx'.tail = now /\ tx'.timer = MaxTime
    /\ p.path = tx.path /\ p.epoch = tx.epoch /\ p.phase = 0 /\ p.tail = now /\ p.flag = "TAIL"
    /\ outlived' = outlived

Continues(p) ==
    /\ tx # None /\ ~ Expired(tx) /\ ~ tx.stabilized
    /\ tx'.epoch = tx.epoch /\ tx'.phase = tx.phase /\ tx'.tail = tx.tail
    /\ tx'.timer = tx.timer /\ tx'.path = tx.path
    /\ p.path = tx.path /\ p.epoch = tx.epoch /\ p.phase = tx.phase
    /\ p.tail = tx.tail /\ p.flag = "DATA"
    /\ outlived' = outlived

LEMMA InFlightType == ASSUME Types PROVE InFlight \subseteq Packet
  BY CarriedType DEF Types, InFlight

LEMMA SendDataSteps ==
    ASSUME IInv, BeforeMaxTime, SendData
    PROVE  \E p : Sends(p) /\ (BeginsEpoch(p) \/ Reroutes(p) \/ Continues(p))
<1>. DEFINE old == Entry(tx, NewTx)
<1>1. PICK good \in IF old.path = None THEN Paths ELSE Paths \cup {None} :
          /\ tx' = TxEntry(old, good)
          /\ wire' = [wire EXCEPT ![Tagged(old, TxEntry(old, good)).path]
                         = Append(@, Tagged(old, TxEntry(old, good)))]
          /\ failed' = (failed \/ (old.path = None /\ ~ Expired(old))
                               \/ (Timeout(old) /\ old.phase # 0))
          /\ outlived' = (outlived \/ (old.path = None /\ rx # None))
  BY DEF SendData
<1>. DEFINE new == TxEntry(old, good)
            p   == Tagged(old, new)
<1>2. now \in Nat /\ now > TxExpiryTime /\ now <= MaxTime /\ sent \in 0 .. MaxPackets /\ sent < MaxPackets
  BY DEF IInv, Types, TxInv, BeforeMaxTime, SendData
<1>3. /\ tx # None => tx \in TxType /\ tx.path \in Paths /\ (tx.phase = 1 => tx.timer = MaxTime)
      /\ wire \in [Paths -> Seq(Packet)]
  BY DEF IInv, Types, TxInv
<1>4. old \in TxType
  BY <1>3, Constants DEF Entry, NewTx, TxType
<1>5. /\ old.path = None <=> tx = None
      /\ tx = None => old.epoch = 0 /\ Expired(old)
      /\ tx # None => old = tx
  BY <1>2, <1>3, Constants DEF Entry, NewTx, Expired, TxType
<1>6. Timeout(old) => old.phase = 0
  BY <1>2, <1>3, <1>4, <1>5, Constants DEF Timeout, NewEpoch, TxType
<1>. HIDE DEF old
<1>7. /\ ~ new.stabilized /\ new.active = now
      /\ new.epoch = (IF NewEpoch(old) THEN old.epoch + 1 ELSE old.epoch)
      /\ new.phase = NextPhase(old)
      /\ new.path  = NextPath(old, good)
      /\ new.tail  = (IF NewEpoch(old) THEN 0 ELSE IF Timeout(old) THEN now ELSE old.tail)
      /\ ~ NewEpoch(old) /\ Timeout(old) => new.timer = MaxTime
      /\ ~ NewEpoch(old) /\ ~ Timeout(old) => new.timer = old.timer
  BY DEF TxEntry
<1>8. new.path \in Paths
  BY <1>1, <1>4, <1>7 DEF NextPath, TxType
<1>9. new \in TxType
  BY <1>2, <1>4, <1>8, Constants DEF TxEntry, NextPhase, NextPath, TxType
<1>10. /\ p.id = sent + 1 /\ p.epoch = new.epoch /\ p.tx = now /\ p.tail = new.tail
       /\ p.path  = (IF Timeout(old) THEN old.path ELSE new.path)
       /\ p.phase = (IF Timeout(old) THEN 0 ELSE new.phase)
       /\ p.flag  = (IF NewEpoch(old) THEN "INIT" ELSE IF Timeout(old) THEN "TAIL" ELSE "DATA")
  BY DEF Tagged
<1>11. Timeout(old) => tx # None /\ ~ NewEpoch(old)
  BY <1>5 DEF Timeout, NewEpoch
<1>12. p \in Packet
  <2>1. p.path \in Paths /\ p.phase \in 0 .. 1 /\ p.flag \in Flags
    BY <1>3, <1>5, <1>8, <1>9, <1>10, <1>11 DEF TxType, Flags
  <2>2. p.id \in 1 .. MaxPackets /\ p.epoch \in Nat /\ p.tx \in Nat /\ p.tail \in Nat
    BY <1>2, <1>9, <1>10, Constants DEF TxType
  <2>3. p = [id |-> p.id, path |-> p.path, epoch |-> p.epoch, phase |-> p.phase, tx |-> p.tx,
             tail |-> p.tail, flag |-> p.flag]
    BY DEF Tagged
  <2>. QED  BY <2>1, <2>2, <2>3 DEF Packet
<1>. HIDE DEF new, p
<1>13. tx' = new /\ wire' = [wire EXCEPT ![p.path] = Append(@, p)]
  BY <1>1 DEF new, p
<1>14. InFlight' = InFlight \cup {p} /\ Lined(wire') /\ wire' \in [Paths -> Seq(Packet)]
  <2>1. p.path \in Paths /\ Append(wire[p.path], p) \in Seq(Packet)
    BY <1>3, <1>12, AppendProperties DEF Packet
  <2>2. Replaced(wire, wire', p.path, Append(wire[p.path], p))
    BY <1>3, <1>13, <2>1, ReplacedByExcept
  <2>3. \A q \in Carried(wire) : q.id < p.id
    <3>1. \A q \in InFlight : q.id <= sent /\ q \in Packet
      BY InFlightType DEF IInv, FlightInv
    <3>. QED  BY <3>1, <1>2, <1>10, Constants DEF InFlight, Packet
  <2>4. Carried(wire') = Carried(wire) \cup {p} /\ Lined(wire')
    BY <1>3, <1>12, <2>2, <2>3, CarriedAppend DEF IInv
  <2>. QED  BY <2>2, <2>4 DEF InFlight, Replaced
<1>15. failed' = failed
  BY <1>1, <1>5, <1>6 DEF IInv, Types
<1>16. Sends(p)
  BY <1>7, <1>8, <1>9, <1>10, <1>12, <1>13, <1>14, <1>15 DEF Sends, SendData
<1>17. CASE NewEpoch(old)
  <2>1. ~ Timeout(old) /\ new.phase = 0
    BY <1>7, <1>17 DEF Timeout, NextPhase
  <2>2. tx # None /\ ~ Expired(tx) => new.path = tx.path
    BY <1>5, <1>7, <2>1 DEF NextPath
  <2>3. new.epoch = (IF tx = None THEN 1 ELSE tx.epoch + 1)
    BY <1>5, <1>7, <1>17
  <2>4. tx = None \/ Expired(tx) \/ tx.stabilized
    BY <1>5, <1>17 DEF NewEpoch
  <2>5. outlived' = (outlived \/ (tx = None /\ rx # None))
    BY <1>1, <1>5
  <2>6. BeginsEpoch(p)
    BY <1>7, <1>10, <1>13, <1>17, <2>1, <2>2, <2>3, <2>4, <2>5 DEF BeginsEpoch
  <2>. QED  BY <1>16, <2>6
<1>18. CASE Timeout(old)
  <2>1. new.phase = 1 /\ ~ Expired(tx) /\ ~ tx.stabilized /\ old = tx /\ tx # None
    BY <1>5, <1>7, <1>11, <1>18 DEF NewEpoch, NextPhase
  <2>2. outlived' = outlived
    BY <1>1, <1>5, <2>1 DEF IInv, Types
  <2>3. Reroutes(p)
    BY <1>6, <1>7, <1>10, <1>11, <1>13, <1>18, <2>1, <2>2 DEF Reroutes
  <2>. QED  BY <1>16, <2>3
<1>19. CASE ~ NewEpoch(old) /\ ~ Timeout(old)
  <2>1. tx # None /\ old = tx /\ ~ Expired(tx) /\ ~ tx.stabilized
    BY <1>5, <1>19 DEF NewEpoch
  <2>2. new.phase = tx.phase /\ new.path = tx.path
    BY <1>5, <1>7, <1>19, <2>1 DEF NextPhase, NextPath, NewEpoch
  <2>3. outlived' = outlived
    BY <1>1, <1>5, <2>1 DEF IInv, Types
  <2>4. Continues(p)
    BY <1>7, <1>10, <1>13, <1>19, <2>1, <2>2, <2>3 DEF Continues
  <2>. QED  BY <1>16, <2>4
<1>. QED  BY <1>17, <1>18, <1>19

-----------------------------------------------------------------------------
(* The fields' types, to cite without the records                          *)

LEMMA PacketFields ==
    ASSUME NEW p \in Packet
    PROVE  /\ p.id \in Nat /\ p.id <= MaxPackets /\ p.path \in Paths /\ p.epoch \in Nat
           /\ (p.phase = 0 \/ p.phase = 1) /\ p.tx \in Nat /\ p.tail \in Nat /\ p.flag \in Flags
  BY Constants DEF Packet

LEMMA TxFields ==
    ASSUME NEW t \in TxType
    PROVE  /\ t.active \in Nat /\ t.timer \in Nat /\ t.epoch \in Nat /\ t.tail \in Nat
           /\ (t.phase = 0 \/ t.phase = 1) /\ t.stabilized \in BOOLEAN
  BY DEF TxType

LEMMA RxFields ==
    ASSUME NEW r \in RxType
    PROVE  /\ r.active \in Nat /\ r.epoch \in Nat /\ r.phase0Tx \in Nat /\ r.phase0Rx \in Nat
           /\ r.tail \in Nat /\ (r.phase = 0 \/ r.phase = 1)
           /\ r.cache \in BOOLEAN /\ r.reordering \in BOOLEAN
  BY DEF RxType

(* The types of everything but the queue's packets.                        *)
Fields ==
    /\ now \in Nat /\ sent \in Nat
    /\ tx # None => /\ tx.active \in Nat /\ tx.timer \in Nat /\ tx.epoch \in Nat /\ tx.tail \in Nat
                    /\ (tx.phase = 0 \/ tx.phase = 1)
    /\ rx # None => /\ rx.active \in Nat /\ rx.epoch \in Nat /\ rx.tail \in Nat
                    /\ rx.phase0Tx \in Nat /\ rx.phase0Rx \in Nat /\ (rx.phase = 0 \/ rx.phase = 1)
    /\ voq # None => voq.flushAt \in Nat /\ voq.since \in Nat
    /\ \A p \in InFlight : /\ p.id \in Nat /\ p.path \in Paths /\ p.epoch \in Nat
                           /\ (p.phase = 0 \/ p.phase = 1) /\ p.tx \in Nat /\ p.tail \in Nat
    /\ \A r \in replies : r.since \in Nat /\ r.epoch \in Nat
    /\ \A h \in HeldIds : h \in Nat
    /\ \A k \in DOMAIN delivered : delivered[k] \in Nat

LEMMA FieldsTyped == ASSUME Types PROVE Fields
<1>1. \A p \in InFlight : /\ p.id \in Nat /\ p.path \in Paths /\ p.epoch \in Nat
                          /\ (p.phase = 0 \/ p.phase = 1) /\ p.tx \in Nat /\ p.tail \in Nat
  BY InFlightType, PacketFields
<1>2. \A r \in replies : r.since \in Nat /\ r.epoch \in Nat
  BY DEF Types, ReplyType
<1>3. \A h \in HeldIds : h \in Nat
  <2>1. CASE voq = None
    BY <2>1 DEF HeldIds
  <2>2. CASE voq # None
    <3>1. voq.queue \in Seq(Packet)
      BY <2>2 DEF Types, VoqType
    <3>2. \A k \in DOMAIN voq.queue : voq.queue[k] \in Packet
      BY <3>1
    <3>3. \A k \in DOMAIN voq.queue : voq.queue[k].id \in Nat
      BY <3>2, PacketFields
    <3>. QED  BY <2>2, <3>3 DEF HeldIds
  <2>. QED  BY <2>1, <2>2
<1>4. \A k \in DOMAIN delivered : delivered[k] \in Nat
  <2>1. delivered \in Seq(Nat)
    BY SeqMonotone, 1 .. MaxPackets \subseteq Nat DEF Types
  <2>. QED  BY <2>1
<1>5. voq # None => voq.flushAt \in Nat /\ voq.since \in Nat
  BY DEF Types, VoqType
<1>6. tx # None => tx \in TxType
  BY DEF Types
<1>7. rx # None => rx \in RxType
  BY DEF Types
<1>8. now \in Nat /\ sent \in Nat
  BY Constants DEF Types
<1>. QED  BY <1>1, <1>2, <1>3, <1>4, <1>5, <1>6, <1>7, <1>8, TxFields, RxFields DEF Fields

-----------------------------------------------------------------------------
(* Facts about the parts of the invariant                                  *)

(* Packets are held since a packet came from the flow at the latest.       *)
LEMMA HoldFacts ==
    ASSUME IInv, voq # None
    PROVE  /\ voq.since <= now /\ voq.since \in Nat
           /\ voq.flushAt <= rx.active + DefaultVOQWaitingTime + ExtraVOQFlushTime
<1>1. Fields
  BY FieldsTyped DEF IInv
<1>2. rx # None /\ rx.active <= now
  BY DEF IInv, HoldInv, RxInv
<1>3. /\ voq.since <= rx.active
      /\ voq.flushAt <= voq.since + DefaultVOQWaitingTime + ExtraVOQFlushTime
  BY DEF IInv, HoldInv
<1>. QED  BY <1>1, <1>2, <1>3, Constants DEF Fields

(* While packets are held TxToR has lately sent, and is not stabilized.    *)
LEMMA HeldIsCurrent ==
    ASSUME IInv, TimesFit, voq # None
    PROVE  /\ tx # None /\ ~ Expired(tx) /\ ~ tx.stabilized
           /\ now <= rx.active + AgingTime /\ now <= tx.active + AgingTime
<1>1. Fields
  BY FieldsTyped DEF IInv
<1>2. /\ tx # None /\ rx # None /\ rx.phase = 0 /\ tx.phase = 1 /\ now <= voq.flushAt
      /\ voq.flushAt <= rx.active + DefaultVOQWaitingTime + ExtraVOQFlushTime
  BY HoldFacts DEF IInv, HoldInv
<1>3. PICK q \in Paths : rx.active <= tx.active + Latest(q)
  BY <1>2 DEF IInv, RxInv
<1>4. /\ Latest(q) + DefaultVOQWaitingTime + ExtraVOQFlushTime <= TxExpiryTime
      /\ TxExpiryTime + Latest(q) <= AgingTime
  BY DEF TimesFit
<1>5. now <= tx.active + TxExpiryTime /\ now <= rx.active + AgingTime /\ now <= tx.active + AgingTime
  BY <1>1, <1>2, <1>3, <1>4, Constants DEF Fields
<1>6. ~ Expired(tx)
  BY <1>1, <1>2, <1>5, Constants DEF Expired, Fields
<1>7. ~ tx.stabilized
  BY <1>2 DEF IInv, SettledInv
<1>. QED  BY <1>2, <1>5, <1>6, <1>7

(* An expired entry's packets have all come.                               *)
LEMMA ExpiredIsDrained ==
    ASSUME IInv, TimesFit, tx # None, Expired(tx)
    PROVE  InFlight = {}
<1>1. Fields
  BY FieldsTyped DEF IInv
<1>2. ASSUME NEW p \in InFlight PROVE FALSE
  <2>1. p.tx <= tx.active /\ now <= p.tx + Latest(p.path) /\ p.path \in Paths /\ p.tx \in Nat
    BY <1>1 DEF IInv, FlightInv, Fields
  <2>2. Latest(p.path) + DefaultVOQWaitingTime + ExtraVOQFlushTime <= TxExpiryTime
    BY <2>1 DEF TimesFit
  <2>. QED  BY <1>1, <2>1, <2>2, Constants DEF Expired, Fields
<1>. QED  BY <1>2

-----------------------------------------------------------------------------
(* Sending preserves the invariant                                         *)

LEMMA SendKeepsTypes ==
    ASSUME IInv, NEW p, Sends(p), SendData
    PROVE  Types' /\ HoldsWhileReordering' /\ Lined(wire)' /\ AssertionsHold'
<1>1. sent' \in 0 .. MaxPackets
  BY Constants DEF Sends, SendData, IInv, Types
<1>2. outlived' \in BOOLEAN
  BY DEF SendData, IInv, Types
<1>. QED  BY <1>1, <1>2 DEF IInv, Types, HoldsWhileReordering, Sends, AssertionsHold

LEMMA BeginsEpochSteps ==
    ASSUME IInv, TimesFit, NEW p, Sends(p), BeginsEpoch(p)
    PROVE  /\ TxInv' /\ FlightInv' /\ PairInv' /\ ReplyInv' /\ SettledInv' /\ RxInv' /\ HoldInv'
           /\ FreshInv' /\ OrderInv'
<1>1. Fields
  BY FieldsTyped DEF IInv
<1>2. /\ p.id \in Nat /\ p.path \in Paths /\ p.epoch \in Nat /\ p.tx \in Nat /\ p.tail \in Nat
      /\ p.id = sent + 1 /\ p.tx = now /\ p.phase = 0 /\ p.epoch = tx'.epoch /\ p.path = tx'.path
      /\ p.flag = "INIT"
  BY PacketFields DEF Sends, BeginsEpoch
<1>3. /\ InFlight' = InFlight \cup {p} /\ now' = now /\ rx' = rx /\ voq' = voq /\ sent' = sent + 1
      /\ replies' = replies /\ delivered' = delivered /\ HeldIds' = HeldIds
      /\ tx'.path \in Paths /\ tx'.active = now /\ ~ tx'.stabilized /\ tx'.phase = 0 /\ tx'.tail = 0
      /\ tx'.epoch \in Nat /\ tx'.epoch >= 1 /\ tx' # None
      /\ tx # None => tx'.epoch = tx.epoch + 1
  <2>1. tx' # None
    BY NoEntryAssumption DEF Sends
  <2>. QED  BY <1>1, <1>2, <2>1 DEF Sends, BeginsEpoch, HeldIds, Fields
<1>4. voq = None
  BY HeldIsCurrent DEF BeginsEpoch
<1>5. tx = None \/ InFlight # {} => tx = None \/ (tx.stabilized /\ tx'.path = tx.path)
  BY ExpiredIsDrained DEF BeginsEpoch
<1>6. tx = None => InFlight = {} /\ replies = {}
  BY DEF IInv, TxInv
<1>7. \A q \in InFlight : /\ q.id <= sent /\ q.tx <= now /\ now <= q.tx + Latest(q.path)
                          /\ q.epoch >= 1 /\ q.epoch < tx'.epoch /\ q.path = tx'.path
  BY <1>1, <1>3, <1>5, <1>6 DEF IInv, FlightInv, TxInv, Fields
<1>8. TxInv'
  BY <1>1, <1>3, Constants DEF IInv, TxInv, Fields
<1>9. FlightInv'
  <2>1. ASSUME NEW q \in InFlight
        PROVE  /\ q.id <= sent' /\ q.tx <= tx'.active /\ now' <= q.tx + Latest(q.path)
               /\ q.epoch >= 1 /\ q.epoch < tx'.epoch /\ q.path = tx'.path
               /\ q.flag = "TAIL" => q.phase = 0 /\ q.tail = q.tx
               /\ q.phase = 1 => q.tail <= q.tx /\ q.flag = "DATA"
    BY <1>1, <1>3, <1>7 DEF IInv, FlightInv, Fields
  <2>2. /\ p.id <= sent' /\ p.tx <= tx'.active /\ now' <= p.tx + Latest(p.path) /\ p.epoch >= 1
    BY <1>1, <1>2, <1>3, Constants DEF Fields
  <2>. QED  BY <1>1, <1>2, <1>3, <2>1, <2>2 DEF FlightInv, Fields
<1>10. PairInv'
  BY <1>1, <1>2, <1>3, <1>7 DEF IInv, PairInv, Early, Fields
<1>11. ReplyInv'
  <2>1. ASSUME NEW r \in replies
        PROVE  /\ r.since <= now /\ now <= r.since + ReplyDelay
               /\ r.phase = (IF r.flag = "TAIL" THEN 1 ELSE 0)
               /\ rx # None /\ r.since <= rx.active
               /\ r.epoch < tx'.epoch
               /\ \E q \in Paths : r.since <= tx'.active + Latest(q)
    <3>1. tx # None /\ r.epoch <= tx.epoch
      BY <1>6 DEF IInv, ReplyInv
    <3>2. r.epoch < tx'.epoch
      BY <1>1, <1>3, <3>1 DEF Fields
    <3>3. r.since <= now
      BY DEF IInv, ReplyInv
    <3>4. r.since <= tx'.active + Latest(tx'.path)
      BY <1>1, <1>3, <3>3, Constants DEF Fields
    <3>. QED  BY <1>3, <3>2, <3>4 DEF IInv, ReplyInv
  <2>. QED  BY <1>1, <1>3, <2>1 DEF ReplyInv, Fields
<1>12. SettledInv'
  <2>1. \A q \in InFlight' : q.phase = 1 /\ q.epoch < tx'.epoch =>
            rx # None /\ (rx.epoch > q.epoch \/ (rx.epoch = q.epoch /\ rx.phase = 1))
    <3>1. SUFFICES ASSUME NEW q \in InFlight, q.phase = 1
                   PROVE  rx # None /\ (rx.epoch > q.epoch \/ (rx.epoch = q.epoch /\ rx.phase = 1))
      BY <1>2, <1>3
    <3>2. tx # None /\ tx.stabilized
      BY <1>5, <1>6
    <3>3. CASE q.epoch < tx.epoch
      BY <3>1, <3>3 DEF IInv, SettledInv
    <3>4. CASE q.epoch = tx.epoch
      <4>1. tx.phase = 1
        BY <3>1, <3>4 DEF IInv, FlightInv
      <4>2. ~ Fresh /\ ~ Idle
        BY <3>2 DEF Fresh, Idle
      <4>3. rx # None
        BY <4>2 DEF IInv, FreshInv
      <4>. QED  BY <3>2, <3>4, <4>1, <4>3 DEF IInv, SettledInv
    <3>. QED  BY <1>1, <3>2, <3>3, <3>4 DEF IInv, FlightInv, Fields
  <2>. QED  BY <1>3, <2>1 DEF SettledInv
<1>13. RxInv'
  <2>1. rx # None => rx.active <= tx'.active + Latest(tx'.path)
    BY <1>1, <1>3, Constants DEF IInv, RxInv, Fields
  <2>2. rx # None /\ rx.cache => \A q \in InFlight' : q.phase = 1 /\ q.epoch = rx.epoch => rx.phase0Tx <= q.tail
    BY <1>2, <1>3 DEF IInv, RxInv
  <2>. QED  BY <1>3, <2>1, <2>2 DEF IInv, RxInv
<1>14. HoldInv'
  BY <1>3, <1>4 DEF HoldInv
<1>15. FreshInv'
  <2>1. InFlight = {} => Fresh'
    BY <1>1, <1>2, <1>3, <1>6 DEF Fresh, IInv, ReplyInv, Fields
  <2>2. InFlight # {} => ~ Fresh /\ tx # None
    BY <1>5, <1>6 DEF Fresh
  <2>3. rx = None => Fresh'
    BY <2>1, <2>2 DEF IInv, FreshInv, Idle
  <2>4. rx # None => Fresh' \/ \E q \in InFlight' : q.tx <= rx.active + TxExpiryTime
    BY <1>3, <2>1, <2>2 DEF IInv, FreshInv
  <2>. QED  BY <1>3, <2>3, <2>4 DEF FreshInv
<1>16. OrderInv'
  <2>. SUFFICES ASSUME ~ outlived'
                PROVE  EpochInv' /\ WaitInv' /\ DeliveredInv' /\ HeldInv'
    BY DEF OrderInv
  <2>1. ~ outlived /\ (rx # None => tx # None)
    BY DEF BeginsEpoch
  <2>2. EpochInv /\ WaitInv /\ DeliveredInv /\ HeldInv
    BY <2>1 DEF IInv, OrderInv
  <2>3. rx # None => rx.epoch < tx'.epoch
    BY <1>1, <1>3, <2>1, <2>2 DEF EpochInv, Fields
  <2>4. EpochInv'
    BY <1>1, <1>3, <2>3 DEF EpochInv, Fields
  <2>5. WaitInv'
    BY <1>1, <1>2, <1>3, <1>4, <2>2, <2>3 DEF WaitInv, Early, Fields
  <2>6. DeliveredInv'
    BY <1>1, <1>2, <1>3, <2>2 DEF DeliveredInv, Fields
  <2>7. HeldInv'
    BY <1>3, <1>4 DEF HeldInv
  <2>. QED  BY <2>4, <2>5, <2>6, <2>7
<1>. QED  BY <1>8, <1>9, <1>10, <1>11, <1>12, <1>13, <1>14, <1>15, <1>16

LEMMA ReroutesSteps ==
    ASSUME IInv, TimesFit, NEW p, Sends(p), Reroutes(p)
    PROVE  /\ TxInv' /\ FlightInv' /\ PairInv' /\ ReplyInv' /\ SettledInv' /\ RxInv' /\ HoldInv'
           /\ FreshInv' /\ OrderInv'
<1>1. Fields
  BY FieldsTyped DEF IInv
<1>2. /\ p.id \in Nat /\ p.path \in Paths /\ p.epoch \in Nat /\ p.tx \in Nat /\ p.tail \in Nat
      /\ p.id = sent + 1 /\ p.tx = now /\ p.phase = 0 /\ p.epoch = tx.epoch /\ p.path = tx.path
      /\ p.flag = "TAIL" /\ p.tail = now
  BY PacketFields DEF Sends, Reroutes
<1>3. /\ InFlight' = InFlight \cup {p} /\ now' = now /\ rx' = rx /\ voq' = voq /\ sent' = sent + 1
      /\ replies' = replies /\ delivered' = delivered /\ HeldIds' = HeldIds
      /\ tx'.path \in Paths /\ tx'.active = now /\ ~ tx'.stabilized /\ tx'.phase = 1 /\ tx'.tail = now
      /\ tx'.epoch = tx.epoch /\ tx' # None /\ tx'.timer = MaxTime
      /\ tx # None /\ ~ tx.stabilized /\ tx.phase = 0 /\ ~ Expired(tx)
      /\ outlived' = outlived
  <2>1. tx' # None
    BY NoEntryAssumption DEF Sends
  <2>. QED  BY <2>1 DEF Sends, Reroutes, HeldIds
<1>4. voq = None
  BY <1>3 DEF IInv, HoldInv
<1>5. tx.epoch \in Nat /\ tx.epoch >= 1 /\ tx.active \in Nat /\ tx.active <= now
  BY <1>1, <1>3 DEF IInv, TxInv, Fields
<1>6. \A q \in InFlight : /\ q.id <= sent /\ q.tx <= now /\ now <= q.tx + Latest(q.path)
                          /\ q.epoch >= 1 /\ q.epoch <= tx.epoch /\ q.path = tx.path
                          /\ q.epoch = tx.epoch => q.phase = 0 /\ q.flag # "TAIL"
  <2>1. SUFFICES ASSUME NEW q \in InFlight
                 PROVE  /\ q.id <= sent /\ q.tx <= now /\ now <= q.tx + Latest(q.path)
                        /\ q.epoch >= 1 /\ q.epoch <= tx.epoch /\ q.path = tx.path
                        /\ q.epoch = tx.epoch => q.phase = 0 /\ q.flag # "TAIL"
    OBVIOUS
  <2>2. q.epoch = tx.epoch => q.phase = 0 /\ q.flag # "TAIL"
    BY <1>1, <1>3 DEF IInv, FlightInv, Fields
  <2>3. Early(q, tx.epoch)
    BY <1>1, <1>3, <1>5, <2>2 DEF IInv, FlightInv, Early, Fields
  <2>. QED  BY <1>1, <1>3, <1>5, <2>2, <2>3 DEF IInv, FlightInv, Fields
<1>8. TxInv'
  BY <1>1, <1>3, <1>5, Constants DEF IInv, TxInv, Fields
<1>9. FlightInv'
  <2>1. ASSUME NEW q \in InFlight
        PROVE  /\ q.id <= sent' /\ q.tx <= tx'.active /\ now' <= q.tx + Latest(q.path)
               /\ q.epoch >= 1 /\ q.epoch <= tx'.epoch
               /\ q.flag = "TAIL" => q.phase = 0 /\ q.tail = q.tx
               /\ q.phase = 1 => q.tail <= q.tx /\ q.flag = "DATA"
               /\ q.epoch = tx'.epoch => q.phase = 0 /\ q.flag # "TAIL"
               /\ q.tx <= tx'.tail
    BY <1>1, <1>3, <1>6 DEF IInv, FlightInv, Fields
  <2>2. /\ p.id <= sent' /\ p.tx <= tx'.active /\ now' <= p.tx + Latest(p.path) /\ p.epoch >= 1
        /\ p.epoch <= tx'.epoch /\ p.tx <= tx'.tail
    BY <1>1, <1>2, <1>3, <1>5, Constants DEF Fields
  <2>. QED  BY <1>2, <1>3, <2>1, <2>2 DEF FlightInv
<1>10. PairInv'
  BY <1>1, <1>2, <1>3, <1>6 DEF IInv, PairInv, Early, Fields
<1>11. ReplyInv'
  <2>1. ASSUME NEW r \in replies
        PROVE  ~ (r.flag = "TAIL" /\ r.epoch = tx.epoch)
    BY <1>3 DEF IInv, ReplyInv
  <2>2. ASSUME NEW r \in replies
        PROVE  \E q \in Paths : r.since <= tx'.active + Latest(q)
    <3>1. r.since <= now
      BY DEF IInv, ReplyInv
    <3>2. r.since <= tx'.active + Latest(tx'.path)
      BY <1>1, <1>3, <3>1, Constants DEF Fields
    <3>. QED  BY <1>3, <3>2
  <2>. QED  BY <1>3, <2>1, <2>2 DEF IInv, ReplyInv
<1>12. SettledInv'
  BY <1>2, <1>3 DEF IInv, SettledInv
<1>13. RxInv'
  <2>1. rx # None => rx.active <= tx'.active + Latest(tx'.path)
    BY <1>1, <1>3, Constants DEF IInv, RxInv, Fields
  <2>2. rx # None /\ rx.cache => \A q \in InFlight' : q.phase = 1 /\ q.epoch = rx.epoch => rx.phase0Tx <= q.tail
    BY <1>2, <1>3 DEF IInv, RxInv
  <2>. QED  BY <1>3, <2>1, <2>2 DEF IInv, RxInv
<1>14. HoldInv'
  BY <1>3, <1>4 DEF HoldInv
<1>15. FreshInv'
  <2>1. Fresh => Fresh'
    BY <1>2, <1>3 DEF Fresh
  <2>2. ~ Idle
    BY <1>3 DEF Idle, Expired
  <2>3. rx # None => Fresh' \/ \E q \in InFlight' : q.tx <= rx.active + TxExpiryTime
    <3>1. CASE InFlight = {} /\ tx.active <= rx.active /\ rx # None
      <4>1. p.tx <= rx.active + TxExpiryTime
        BY <1>1, <1>2, <1>3, <1>5, <3>1, Constants DEF Expired, Fields
      <4>. QED  BY <1>3, <4>1
    <3>2. CASE \E q \in InFlight : q.tx <= rx.active + TxExpiryTime
      BY <1>3, <3>2
    <3>. QED  BY <1>3, <2>1, <3>1, <3>2 DEF IInv, FreshInv
  <2>. QED  BY <1>3, <2>1, <2>2, <2>3 DEF IInv, FreshInv
<1>16. OrderInv'
  <2>. SUFFICES ASSUME ~ outlived'
                PROVE  EpochInv' /\ WaitInv' /\ DeliveredInv' /\ HeldInv'
    BY DEF OrderInv
  <2>2. EpochInv /\ WaitInv /\ DeliveredInv /\ HeldInv
    BY <1>3 DEF IInv, OrderInv
  <2>3. rx # None => rx.epoch <= tx.epoch /\ ~ (rx.phase = 1 /\ rx.epoch = tx.epoch)
    BY <1>3, <2>2 DEF EpochInv
  <2>4. EpochInv'
    BY <1>2, <1>3, <2>2 DEF EpochInv, Early
  <2>5. WaitInv'
    BY <1>1, <1>2, <1>3, <1>4, <1>5, <2>2, <2>3 DEF WaitInv, Early, Fields
  <2>6. DeliveredInv'
    BY <1>1, <1>2, <1>3, <2>2 DEF DeliveredInv, Fields
  <2>7. HeldInv'
    BY <1>3, <1>4 DEF HeldInv
  <2>. QED  BY <2>4, <2>5, <2>6, <2>7
<1>. QED  BY <1>8, <1>9, <1>10, <1>11, <1>12, <1>13, <1>14, <1>15, <1>16

LEMMA ContinuesSteps ==
    ASSUME IInv, TimesFit, NEW p, Sends(p), Continues(p)
    PROVE  /\ TxInv' /\ FlightInv' /\ PairInv' /\ ReplyInv' /\ SettledInv' /\ RxInv' /\ HoldInv'
           /\ FreshInv' /\ OrderInv'
<1>1. Fields
  BY FieldsTyped DEF IInv
<1>2. /\ p.id \in Nat /\ p.path \in Paths /\ p.epoch \in Nat /\ p.tx \in Nat /\ p.tail \in Nat
      /\ p.id = sent + 1 /\ p.tx = now /\ p.phase = tx.phase /\ p.epoch = tx.epoch
      /\ p.path = tx.path /\ p.flag = "DATA" /\ p.tail = tx.tail
  BY PacketFields DEF Sends, Continues
<1>3. /\ InFlight' = InFlight \cup {p} /\ now' = now /\ rx' = rx /\ voq' = voq /\ sent' = sent + 1
      /\ replies' = replies /\ delivered' = delivered /\ HeldIds' = HeldIds
      /\ tx'.path = tx.path /\ tx'.active = now /\ ~ tx'.stabilized /\ tx'.phase = tx.phase
      /\ tx'.tail = tx.tail /\ tx'.timer = tx.timer /\ tx'.path \in Paths
      /\ tx'.epoch = tx.epoch /\ tx' # None
      /\ tx # None /\ ~ tx.stabilized /\ ~ Expired(tx)
      /\ outlived' = outlived
  <2>1. tx' # None
    BY NoEntryAssumption DEF Sends
  <2>. QED  BY <2>1 DEF Sends, Continues, HeldIds
<1>5. /\ tx.epoch \in Nat /\ tx.epoch >= 1 /\ tx.active \in Nat /\ tx.active <= now
      /\ tx.tail \in Nat /\ tx.tail <= tx.active /\ (tx.phase = 0 \/ tx.phase = 1)
  BY <1>1, <1>3 DEF IInv, TxInv, Fields
<1>6. \A q \in InFlight : q.id <= sent /\ q.tx <= now /\ now <= q.tx + Latest(q.path)
                          /\ q.epoch >= 1 /\ q.epoch <= tx.epoch
  BY <1>1, <1>3, <1>5 DEF IInv, FlightInv, Fields
<1>8. TxInv'
  BY <1>1, <1>3, <1>5, Constants DEF IInv, TxInv, Fields
<1>9. FlightInv'
  <2>1. ASSUME NEW q \in InFlight
        PROVE  /\ q.id <= sent' /\ q.tx <= tx'.active /\ now' <= q.tx + Latest(q.path)
    BY <1>1, <1>3, <1>6 DEF IInv, FlightInv, Fields
  <2>2. /\ p.id <= sent' /\ p.tx <= tx'.active /\ now' <= p.tx + Latest(p.path) /\ p.epoch >= 1
        /\ p.epoch <= tx'.epoch /\ p.tail <= p.tx
    BY <1>1, <1>2, <1>3, <1>5, Constants DEF Fields
  <2>3. Early(p, tx'.epoch) => tx'.phase = 0
    BY <1>2, <1>3, <1>5 DEF Early
  <2>. QED  BY <1>2, <1>3, <1>5, <2>1, <2>2, <2>3 DEF IInv, FlightInv
<1>10. PairInv'
  <2>1. ASSUME NEW q \in InFlight
        PROVE  /\ q.id # p.id /\ ~ (p.id < q.id)
               /\ Early(p, tx.epoch) /\ Early(q, tx.epoch) => p.path = q.path
               /\ q.epoch < p.epoch \/ (q.epoch = p.epoch /\ q.phase <= p.phase)
               /\ q.flag = "TAIL" => ~ Early(p, q.epoch)
               /\ q.epoch = p.epoch /\ q.phase = 0 /\ p.phase = 1 => q.tx <= p.tail
    <3>1. Early(p, tx.epoch) /\ Early(q, tx.epoch) => p.path = q.path
      BY <1>2, <1>5 DEF IInv, FlightInv, Early
    <3>2. /\ q.epoch < p.epoch \/ (q.epoch = p.epoch /\ q.phase <= p.phase)
          /\ q.flag = "TAIL" => ~ Early(p, q.epoch)
      BY <1>1, <1>2, <1>5 DEF IInv, FlightInv, Early, Fields
    <3>3. q.epoch = p.epoch /\ q.phase = 0 /\ p.phase = 1 => q.tx <= p.tail
      BY <1>1, <1>2, <1>5 DEF IInv, FlightInv, Early, Fields
    <3>4. q.id # p.id /\ ~ (p.id < q.id)
      BY <1>1, <1>2, <1>6 DEF Fields
    <3>. QED  BY <3>1, <3>2, <3>3, <3>4
  <2>2. ~ (p.id < p.id)
    BY <1>2
  <2>. QED  BY <1>3, <2>1, <2>2 DEF IInv, PairInv
<1>11. ReplyInv'
  <2>1. ASSUME NEW r \in replies, r.flag = "TAIL", r.epoch = tx.epoch
        PROVE  ~ Early(p, tx.epoch)
    BY <1>2, <1>5, <2>1 DEF IInv, ReplyInv, Early
  <2>2. ASSUME NEW r \in replies
        PROVE  \E q \in Paths : r.since <= tx'.active + Latest(q)
    <3>1. r.since <= now
      BY DEF IInv, ReplyInv
    <3>2. r.since <= tx'.active + Latest(tx'.path)
      BY <1>1, <1>3, <3>1, Constants DEF Fields
    <3>. QED  BY <1>3, <3>2
  <2>. QED  BY <1>3, <2>1, <2>2 DEF IInv, ReplyInv
<1>12. SettledInv'
  <2>1. ~ (p.epoch < tx'.epoch)
    BY <1>2, <1>3, <1>5
  <2>. QED  BY <1>3, <2>1 DEF IInv, SettledInv
<1>13. RxInv'
  <2>1. rx # None => rx.active <= tx'.active + Latest(tx'.path)
    BY <1>1, <1>3, Constants DEF IInv, RxInv, Fields
  <2>2. rx # None /\ rx.cache => \A q \in InFlight' : q.phase = 1 /\ q.epoch = rx.epoch => rx.phase0Tx <= q.tail
    BY <1>2, <1>3 DEF IInv, RxInv
  <2>. QED  BY <1>3, <2>1, <2>2 DEF IInv, RxInv
<1>14. HoldInv'
  BY <1>3 DEF IInv, HoldInv
<1>15. FreshInv'
  <2>1. Fresh => Fresh'
    BY <1>2, <1>3 DEF Fresh
  <2>2. ~ Idle
    BY <1>3 DEF Idle, Expired
  <2>3. rx # None => Fresh' \/ \E q \in InFlight' : q.tx <= rx.active + TxExpiryTime
    <3>1. CASE InFlight = {} /\ tx.active <= rx.active /\ rx # None
      <4>1. p.tx <= rx.active + TxExpiryTime
        BY <1>1, <1>2, <1>3, <1>5, <3>1, Constants DEF Expired, Fields
      <4>. QED  BY <1>3, <4>1
    <3>2. CASE \E q \in InFlight : q.tx <= rx.active + TxExpiryTime
      BY <1>3, <3>2
    <3>. QED  BY <1>3, <2>1, <3>1, <3>2 DEF IInv, FreshInv
  <2>. QED  BY <1>3, <2>1, <2>2, <2>3 DEF IInv, FreshInv
<1>16. OrderInv'
  <2>. SUFFICES ASSUME ~ outlived'
                PROVE  EpochInv' /\ WaitInv' /\ DeliveredInv' /\ HeldInv'
    BY DEF OrderInv
  <2>2. EpochInv /\ WaitInv /\ DeliveredInv /\ HeldInv
    BY <1>3 DEF IInv, OrderInv
  <2>3. Early(p, tx.epoch) => tx.phase = 0
    BY <1>2, <1>5 DEF Early
  <2>4. EpochInv'
    BY <1>2, <1>3, <2>2, <2>3 DEF EpochInv
  <2>5. rx # None /\ rx.phase = 1 => ~ Early(p, rx.epoch)
    BY <1>1, <1>2, <1>3, <1>5, <2>2 DEF EpochInv, Early, Fields
  <2>6. voq # None => rx # None /\ ~ Early(p, rx.epoch)
    BY <1>2, <1>5 DEF IInv, HoldInv, Early
  <2>7. WaitInv'
    BY <1>3, <2>2, <2>5, <2>6 DEF WaitInv
  <2>8. DeliveredInv'
    BY <1>1, <1>2, <1>3, <2>2 DEF DeliveredInv, Fields
  <2>9. HeldInv'
    BY <1>1, <1>2, <1>3, <2>2, <2>6 DEF HeldInv, Fields
  <2>. QED  BY <2>4, <2>7, <2>8, <2>9
<1>. QED  BY <1>8, <1>9, <1>10, <1>11, <1>12, <1>13, <1>14, <1>15, <1>16

LEMMA SendDataKeeps == ASSUME IInv, TimesFit, BeforeMaxTime, SendData PROVE IInv'
<1>1. PICK p : Sends(p) /\ (BeginsEpoch(p) \/ Reroutes(p) \/ Continues(p))
  BY SendDataSteps
<1>. QED  BY <1>1, SendKeepsTypes, BeginsEpochSteps, ReroutesSteps, ContinuesSteps DEF IInv

-----------------------------------------------------------------------------
(* A REPLY reaches TxToR                                                   *)

LEMMA ReceiveReplyKeeps == ASSUME IInv, ReceiveReply PROVE IInv'
<1>1. Fields
  BY FieldsTyped DEF IInv
<1>2. PICK r \in replies :
          /\ r.since < now
          /\ tx' = IF Stabilizes(r, Entry(tx, NewTx))
                   THEN [tx EXCEPT !.stabilized = TRUE, !.timer = MaxTime] ELSE Entry(tx, NewTx)
          /\ replies' = replies \ {r}
          /\ UNCHANGED <<now, rx, voq, wire, aging, sent, delivered, failed, outlived>>
  BY DEF ReceiveReply
<1>3. tx # None /\ Entry(tx, NewTx) = tx /\ tx \in TxType
  BY DEF IInv, Types, ReplyInv, Entry
<1>4. InFlight' = InFlight /\ HeldIds' = HeldIds
  BY <1>2 DEF InFlight, HeldIds
<1>5. CASE ~ Stabilizes(r, tx)
  <2>1. /\ tx' = tx /\ replies' \subseteq replies
        /\ UNCHANGED <<now, rx, voq, wire, aging, sent, delivered, failed, outlived>>
    BY <1>2, <1>3, <1>5
  <2>2. TxInv' /\ ReplyInv' /\ FreshInv'
    BY <1>4, <2>1 DEF IInv, TxInv, ReplyInv, FreshInv, Fresh, Idle
  <2>3. Types' /\ HoldsWhileReordering' /\ Lined(wire)' /\ AssertionsHold'
    BY <2>1 DEF IInv, Types, HoldsWhileReordering, AssertionsHold
  <2>4. FlightInv' /\ PairInv' /\ SettledInv' /\ RxInv' /\ HoldInv'
    BY <1>4, <2>1 DEF IInv, FlightInv, PairInv, SettledInv, RxInv, HoldInv
  <2>5. OrderInv'
    BY <1>4, <2>1 DEF IInv, OrderInv, EpochInv, WaitInv, DeliveredInv, HeldInv
  <2>. QED  BY <2>2, <2>3, <2>4, <2>5 DEF IInv
<1>6. CASE Stabilizes(r, tx)
  <2>1. tx' \in TxType
    BY <1>2, <1>3, <1>6, Constants DEF TxType
  <2>2. /\ tx'.stabilized /\ tx'.timer = MaxTime /\ tx'.active = tx.active /\ tx'.epoch = tx.epoch
        /\ tx'.phase = tx.phase /\ tx'.path = tx.path /\ tx'.tail = tx.tail /\ tx' # None
    BY <1>2, <1>3, <1>6, <2>1, NoEntryAssumption DEF TxType
  <2>3. r.epoch = tx.epoch /\ (tx.phase = 1 => r.flag = "TAIL")
    <3>1. r.epoch = tx.epoch /\ r.phase = tx.phase
      BY <1>6 DEF Stabilizes
    <3>2. r.phase = (IF r.flag = "TAIL" THEN 1 ELSE 0)
      BY DEF IInv, ReplyInv
    <3>. QED  BY <3>1, <3>2
  <2>4. Types' /\ HoldsWhileReordering' /\ TxInv' /\ Lined(wire)' /\ PairInv' /\ ReplyInv' /\ RxInv'
        /\ HoldInv' /\ AssertionsHold'
    BY <1>2, <1>3, <1>4, <2>1, <2>2
       DEF IInv, Types, HoldsWhileReordering, TxInv, PairInv, ReplyInv, RxInv, HoldInv, AssertionsHold
  <2>5. \A p \in InFlight : p.path = tx.path
    <3>. SUFFICES ASSUME NEW p \in InFlight PROVE p.path = tx.path
      OBVIOUS
    <3>1. CASE tx.phase = 0
      BY <1>1, <1>3, <3>1 DEF IInv, FlightInv, Early, Fields
    <3>2. CASE tx.phase = 1
      <4>1. ~ Early(p, tx.epoch)
        BY <2>3, <3>2 DEF IInv, ReplyInv
      <4>. QED  BY <1>1, <1>3, <4>1 DEF IInv, FlightInv, Early, Fields
    <3>. QED  BY <1>1, <1>3, <3>1, <3>2 DEF Fields
  <2>6. FlightInv'
    BY <1>2, <1>4, <2>2, <2>5 DEF IInv, FlightInv
  <2>7. tx.phase = 1 => rx # None /\ rx.epoch = tx.epoch /\ rx.phase = 1
    <3>1. SUFFICES ASSUME tx.phase = 1 PROVE rx # None /\ rx.epoch = tx.epoch /\ rx.phase = 1
      OBVIOUS
    <3>2. /\ rx # None /\ rx.epoch = tx.epoch
          /\ rx.phase = 1 \/ (voq # None /\ voq.flushAt <= r.since)
      BY <2>3, <3>1 DEF IInv, ReplyInv
    <3>3. voq # None => now <= voq.flushAt
      BY DEF IInv, HoldInv
    <3>. QED  BY <1>1, <1>2, <3>2, <3>3 DEF Fields
  <2>8. SettledInv'
    BY <1>2, <1>4, <2>2, <2>7 DEF IInv, SettledInv
  <2>9. ~ Fresh
    BY <2>3 DEF Fresh
  <2>10. FreshInv'
    BY <1>2, <1>4, <2>2, <2>9, <1>3 DEF IInv, FreshInv, Idle
  <2>11. OrderInv'
    BY <1>2, <1>3, <1>4, <2>2 DEF IInv, OrderInv, EpochInv, WaitInv, DeliveredInv, HeldInv
  <2>. QED  BY <2>4, <2>6, <2>8, <2>10, <2>11 DEF IInv
<1>. QED  BY <1>5, <1>6

-----------------------------------------------------------------------------
(* The queue is flushed                                                    *)

LEMMA FlushVOQKeeps == ASSUME IInv, TimesFit, FlushVOQ PROVE IInv'
<1>1. Fields
  BY FieldsTyped DEF IInv
<1>2. /\ voq # None /\ voq.flushAt <= now /\ voq' = None
      /\ delivered' = delivered \o [k \in DOMAIN voq.queue |-> voq.queue[k].id]
      /\ UNCHANGED <<now, tx, wire, replies, aging, sent, outlived>>
  BY DEF FlushVOQ
<1>3. /\ rx # None /\ rx.reordering /\ Entry(rx, NewRx) = rx /\ rx \in RxType /\ voq \in VoqType
      /\ tx # None /\ rx.epoch = tx.epoch /\ tx.phase = 1 /\ rx.tail = tx.tail /\ now <= voq.flushAt
  BY <1>2 DEF IInv, HoldInv, HoldsWhileReordering, Entry, Types
<1>4. rx' = [rx EXCEPT !.reordering = FALSE, !.phase = 1] /\ rx' \in RxType
  <2>1. rx' = [rx EXCEPT !.reordering = FALSE, !.phase = 1]
    BY <1>3 DEF FlushVOQ
  <2>2. rx' \in RxType
    <3>1. \A r \in RxType : [r EXCEPT !.reordering = FALSE] \in RxType
      BY DEF RxType
    <3>2. \A r \in RxType : [r EXCEPT !.phase = 1] \in RxType
      BY DEF RxType
    <3>3. \A r \in RxType : [r EXCEPT !.reordering = FALSE, !.phase = 1] \in RxType
      BY <3>1, <3>2
    <3>. QED  BY <1>3, <2>1, <3>3
  <2>. QED  BY <2>1, <2>2
<1>5. /\ rx' # None /\ ~ rx'.reordering /\ rx'.phase = 1 /\ rx'.active = rx.active
      /\ rx'.epoch = rx.epoch /\ rx'.phase0Tx = rx.phase0Tx /\ rx'.phase0Rx = rx.phase0Rx
      /\ rx'.cache = rx.cache /\ rx'.tail = rx.tail
  BY <1>3, <1>4, NoEntryAssumption DEF RxType
<1>6. failed' = failed
  BY <1>2, <1>3 DEF FlushVOQ, IInv, Types
<1>7. InFlight' = InFlight /\ HeldIds' = {}
  BY <1>2 DEF InFlight, HeldIds
<1>. DEFINE ids == [k \in DOMAIN voq.queue |-> voq.queue[k].id]
<1>8. /\ voq.queue \in Seq(Packet) /\ ids \in Seq(1 .. MaxPackets)
      /\ DOMAIN ids = 1 .. Len(ids) /\ DOMAIN voq.queue = 1 .. Len(ids) /\ Len(ids) \in Nat
      /\ \A k \in 1 .. Len(ids) : ids[k] = voq.queue[k].id /\ ids[k] \in HeldIds
  <2>1. voq.queue \in Seq(Packet)
    BY <1>3 DEF VoqType
  <2>2. /\ DOMAIN voq.queue = 1 .. Len(voq.queue) /\ Len(voq.queue) \in Nat
        /\ \A k \in 1 .. Len(voq.queue) : voq.queue[k] \in Packet
    BY <2>1
  <2>3. \A k \in 1 .. Len(voq.queue) : voq.queue[k].id \in 1 .. MaxPackets
    BY <2>2 DEF Packet
  <2>4. ids \in Seq(1 .. MaxPackets) /\ Len(ids) = Len(voq.queue)
    BY <2>2, <2>3
  <2>. QED  BY <1>2, <2>1, <2>2, <2>4 DEF HeldIds
<1>. HIDE DEF ids
<1>9. delivered' = delivered \o ids /\ delivered \in Seq(1 .. MaxPackets)
  BY <1>2 DEF ids, IInv, Types
<1>10. delivered' \in Seq(1 .. MaxPackets)
  BY <1>8, <1>9, ConcatType
<1>11. Types' /\ HoldsWhileReordering' /\ TxInv' /\ Lined(wire)' /\ FlightInv' /\ PairInv'
       /\ HoldInv' /\ AssertionsHold'
  BY <1>2, <1>4, <1>5, <1>6, <1>7, <1>10
     DEF IInv, Types, HoldsWhileReordering, TxInv, FlightInv, PairInv, HoldInv, AssertionsHold
<1>12. ReplyInv' /\ RxInv' /\ FreshInv'
  BY <1>2, <1>3, <1>5, <1>7 DEF IInv, ReplyInv, RxInv, FreshInv, Fresh, Idle
<1>13. SettledInv'
  BY <1>2, <1>3, <1>5, <1>7 DEF IInv, SettledInv
<1>14. OrderInv'
  <2>. SUFFICES ASSUME ~ outlived
                PROVE  EpochInv' /\ WaitInv' /\ DeliveredInv' /\ HeldInv'
    BY <1>2 DEF OrderInv
  <2>1. EpochInv /\ WaitInv /\ DeliveredInv /\ HeldInv
    BY DEF IInv, OrderInv
  <2>2. EpochInv'
    BY <1>2, <1>3, <1>5, <1>7, <2>1 DEF EpochInv
  <2>3. ASSUME NEW p \in InFlight, Early(p, rx.epoch) PROVE FALSE
    <3>1. p.path \in Paths /\ p.tx \in Nat
      BY <1>1 DEF Fields
    <3>2. voq.flushAt > rx.tail + Latest(p.path)
      BY <1>2, <2>1, <2>3 DEF WaitInv
    <3>3. p.tx <= tx.tail /\ now <= p.tx + Latest(p.path)
      BY <1>3, <2>3 DEF IInv, FlightInv
    <3>. QED  BY <1>1, <1>2, <1>3, <3>1, <3>2, <3>3, Constants DEF Fields
  <2>4. WaitInv'
    BY <1>2, <1>5, <1>7, <2>3 DEF WaitInv
  <2>5. HeldInv'
    BY <1>2 DEF HeldInv
  <2>6. DOMAIN delivered = 1 .. Len(delivered) /\ Len(delivered) \in Nat
    BY <1>9
  <2>7. \A j, k \in 1 .. Len(ids) : j < k => ids[j] < ids[k]
    BY <1>2, <1>8, <2>1 DEF HeldInv
  <2>8. \A h \in HeldIds : h <= sent /\ \A p \in InFlight : h < p.id
    BY <1>2, <2>1, <2>3 DEF HeldInv
  <2>9. /\ Len(delivered') = Len(delivered) + Len(ids) /\ DOMAIN delivered' = 1 .. Len(delivered) + Len(ids)
        /\ \A k \in 1 .. Len(delivered) + Len(ids) :
              delivered'[k] = IF k <= Len(delivered) THEN delivered[k] ELSE ids[k - Len(delivered)]
    BY <1>8, <1>9, <1>10, ConcatProperties
  <2>10. ASSUME NEW k \in 1 .. Len(delivered) + Len(ids)
         PROVE  \/ k \in 1 .. Len(delivered) /\ delivered'[k] = delivered[k]
                \/ /\ k > Len(delivered) /\ k - Len(delivered) \in 1 .. Len(ids)
                   /\ delivered'[k] = ids[k - Len(delivered)]
    BY <1>8, <2>6, <2>9
  <2>11. \A k \in 1 .. Len(delivered) : \A h \in HeldIds : delivered[k] < h
    BY <2>1, <2>6 DEF DeliveredInv
  <2>12. ASSUME NEW j \in 1 .. Len(delivered) + Len(ids), NEW k \in 1 .. Len(delivered) + Len(ids), j < k
         PROVE  delivered'[j] < delivered'[k]
    <3>1. CASE k \in 1 .. Len(delivered)
      <4>1. j \in 1 .. Len(delivered) /\ delivered'[j] = delivered[j] /\ delivered'[k] = delivered[k]
        BY <2>6, <2>10, <2>12, <3>1, <1>8
      <4>. QED  BY <4>1, <3>1, <2>1, <2>6, <2>12 DEF DeliveredInv, Increasing
    <3>2. CASE k > Len(delivered) /\ j \in 1 .. Len(delivered)
      <4>1. delivered'[j] = delivered[j] /\ k - Len(delivered) \in 1 .. Len(ids)
            /\ delivered'[k] = ids[k - Len(delivered)]
        BY <2>6, <2>10, <3>2, <1>8
      <4>. QED  BY <4>1, <3>2, <2>11, <1>8
    <3>3. CASE k > Len(delivered) /\ j > Len(delivered)
      <4>1. /\ j - Len(delivered) \in 1 .. Len(ids) /\ delivered'[j] = ids[j - Len(delivered)]
            /\ k - Len(delivered) \in 1 .. Len(ids) /\ delivered'[k] = ids[k - Len(delivered)]
        BY <2>6, <2>10, <3>3, <1>8
      <4>2. j - Len(delivered) < k - Len(delivered)
        BY <2>6, <2>12, <1>8
      <4>. QED  BY <4>1, <4>2, <2>7
    <3>. QED  BY <3>1, <3>2, <3>3, <2>6, <1>8
  <2>13. DeliveredInv'
    <3>1. ASSUME NEW k \in 1 .. Len(delivered) + Len(ids)
          PROVE  delivered'[k] <= sent /\ \A p \in InFlight : delivered'[k] < p.id
      BY <2>1, <2>6, <2>8, <2>10, <1>8 DEF DeliveredInv
    <3>. QED  BY <3>1, <2>9, <2>12, <1>2, <1>7 DEF DeliveredInv, Increasing
  <2>. QED  BY <2>2, <2>4, <2>5, <2>13
<1>. QED  BY <1>11, <1>12, <1>13, <1>14 DEF IInv

-----------------------------------------------------------------------------
(* Entries age away                                                        *)

(* An aged entry of TxToR has nothing under way any more, and an aged one  *)
(* of RxToR is of a flow that is idle or about to begin an epoch.          *)
LEMMA AgedTxIsDrained ==
    ASSUME IInv, TimesFit, tx # None, now - tx.active > AgingTime
    PROVE  InFlight = {} /\ replies = {} /\ voq = None
<1>1. Fields
  BY FieldsTyped DEF IInv
<1>2. voq = None
  <2>1. ASSUME voq # None PROVE FALSE
    <3>1. now <= tx.active + AgingTime
      BY <2>1, HeldIsCurrent
    <3>. QED  BY <1>1, <3>1, Constants DEF Fields
  <2>. QED  BY <2>1
<1>3. tx.path \in Paths
  BY DEF IInv, TxInv
<1>4. TxExpiryTime <= AgingTime
  <2>1. TxExpiryTime + Latest(tx.path) <= AgingTime
    BY <1>3 DEF TimesFit
  <2>. QED  BY <1>3, <2>1, Constants
<1>5. Expired(tx)
  BY <1>1, <1>4, Constants DEF Expired, Fields
<1>6. InFlight = {}
  BY <1>5, ExpiredIsDrained
<1>7. ASSUME NEW r \in replies PROVE FALSE
  <2>1. PICK q \in Paths : r.since <= tx.active + Latest(q)
    BY DEF IInv, ReplyInv
  <2>2. now <= r.since + ReplyDelay /\ Latest(q) + ReplyDelay <= AgingTime
    BY DEF IInv, ReplyInv, TimesFit
  <2>. QED  BY <1>1, <2>1, <2>2, Constants DEF Fields
<1>. QED  BY <1>2, <1>6, <1>7

LEMMA AgedRxIsIdle ==
    ASSUME IInv, TimesFit, rx # None, now - rx.active > AgingTime
    PROVE  (Fresh \/ Idle) /\ replies = {} /\ voq = None
<1>1. Fields
  BY FieldsTyped DEF IInv
<1>2. voq = None
  <2>1. ASSUME voq # None PROVE FALSE
    <3>1. now <= rx.active + AgingTime
      BY <2>1, HeldIsCurrent
    <3>. QED  BY <1>1, <3>1, Constants DEF Fields
  <2>. QED  BY <2>1
<1>3. ASSUME NEW r \in replies PROVE FALSE
  <2>1. PICK q \in Paths : r.since <= tx.active + Latest(q)
    BY DEF IInv, ReplyInv
  <2>2. now <= r.since + ReplyDelay /\ Latest(q) + ReplyDelay <= AgingTime /\ r.since <= rx.active
    BY DEF IInv, ReplyInv, TimesFit
  <2>. QED  BY <1>1, <2>2, Constants DEF Fields
<1>4. tx = None => Idle
  BY DEF IInv, TxInv, Idle
<1>5. ASSUME tx # None PROVE Fresh \/ Idle
  <2>1. ASSUME NEW q \in InFlight, q.tx <= rx.active + TxExpiryTime PROVE FALSE
    <3>1. now <= q.tx + Latest(q.path) /\ q.path \in Paths /\ q.tx \in Nat
      BY <1>1 DEF IInv, FlightInv, Fields
    <3>2. TxExpiryTime + Latest(q.path) <= AgingTime
      BY <3>1 DEF TimesFit
    <3>. QED  BY <1>1, <2>1, <3>1, <3>2, Constants DEF Fields
  <2>2. ASSUME InFlight = {}, tx.active <= rx.active PROVE Idle
    <3>1. tx.path \in Paths
      BY <1>5 DEF IInv, TxInv
    <3>2. TxExpiryTime + Latest(tx.path) <= AgingTime
      BY <3>1 DEF TimesFit
    <3>3. tx.active + TxExpiryTime < now
      BY <1>1, <1>5, <2>2, <3>1, <3>2, Constants DEF Fields
    <3>. QED  BY <2>2, <3>3 DEF Idle
  <2>. QED  BY <1>5, <2>1, <2>2 DEF IInv, FreshInv
<1>. QED  BY <1>2, <1>3, <1>4, <1>5

LEMMA AgingEventTxKeeps == ASSUME IInv, TimesFit, AgingEventTx PROVE IInv'
<1>1. Fields
  BY FieldsTyped DEF IInv
<1>2. /\ tx' = Aged(tx) /\ aging' = [aging EXCEPT !.tx = now + AgingTime]
      /\ UNCHANGED <<now, rx, voq, wire, replies, sent, delivered, failed, outlived>>
  BY DEF AgingEventTx
<1>3. aging' \in [tx : Nat, rx : Nat]
  <2>1. aging \in [tx : Nat, rx : Nat]
    BY DEF IInv, Types
  <2>2. now + AgingTime \in Nat
    BY <1>1, Constants DEF Fields
  <2>. QED  BY <1>2, <2>1, <2>2
<1>4. InFlight' = InFlight /\ HeldIds' = HeldIds
  BY <1>2 DEF InFlight, HeldIds
<1>5. tx' = tx \/ (tx' = None /\ InFlight = {} /\ replies = {} /\ voq = None)
  <2>1. tx' = tx \/ (tx' = None /\ tx # None /\ now - tx.active > AgingTime)
    BY <1>2 DEF Aged
  <2>. QED  BY <2>1, AgedTxIsDrained
<1>6. Types' /\ HoldsWhileReordering' /\ Lined(wire)' /\ AssertionsHold'
  BY <1>2, <1>3, <1>5 DEF IInv, Types, HoldsWhileReordering, AssertionsHold
<1>7. CASE tx' = tx
  <2>1. TxInv' /\ FlightInv' /\ PairInv' /\ ReplyInv' /\ SettledInv'
    BY <1>2, <1>4, <1>7 DEF IInv, TxInv, FlightInv, PairInv, ReplyInv, SettledInv
  <2>2. RxInv' /\ HoldInv' /\ FreshInv' /\ OrderInv'
    BY <1>2, <1>4, <1>7 DEF IInv, RxInv, HoldInv, FreshInv, Fresh, Idle, OrderInv, EpochInv,
                            WaitInv, DeliveredInv, HeldInv
  <2>. QED  BY <1>6, <2>1, <2>2 DEF IInv
<1>8. CASE tx' = None /\ InFlight = {} /\ replies = {} /\ voq = None
  <2>1. TxInv' /\ FlightInv' /\ PairInv' /\ ReplyInv' /\ SettledInv'
    BY <1>2, <1>4, <1>8 DEF IInv, TxInv, FlightInv, PairInv, ReplyInv, SettledInv
  <2>2. RxInv' /\ HoldInv' /\ FreshInv' /\ OrderInv'
    BY <1>2, <1>4, <1>8 DEF IInv, RxInv, HoldInv, FreshInv, Idle, OrderInv, EpochInv,
                            WaitInv, DeliveredInv, HeldInv
  <2>. QED  BY <1>6, <2>1, <2>2 DEF IInv
<1>. QED  BY <1>5, <1>7, <1>8

LEMMA AgingEventRxKeeps == ASSUME IInv, TimesFit, AgingEventRx PROVE IInv'
<1>1. Fields
  BY FieldsTyped DEF IInv
<1>2. /\ rx' = Aged(rx) /\ aging' = [aging EXCEPT !.rx = now + AgingTime]
      /\ UNCHANGED <<now, tx, voq, wire, replies, sent, delivered, failed, outlived>>
  BY DEF AgingEventRx
<1>3. aging' \in [tx : Nat, rx : Nat]
  <2>1. aging \in [tx : Nat, rx : Nat]
    BY DEF IInv, Types
  <2>2. now + AgingTime \in Nat
    BY <1>1, Constants DEF Fields
  <2>. QED  BY <1>2, <2>1, <2>2
<1>4. InFlight' = InFlight /\ HeldIds' = HeldIds
  BY <1>2 DEF InFlight, HeldIds
<1>5. rx' = rx \/ (rx' = None /\ (Fresh \/ Idle) /\ replies = {} /\ voq = None)
  <2>1. rx' = rx \/ (rx' = None /\ rx # None /\ now - rx.active > AgingTime)
    BY <1>2 DEF Aged
  <2>. QED  BY <2>1, AgedRxIsIdle
<1>6. CASE rx' = rx
  <2>0. Types' /\ HoldsWhileReordering' /\ Lined(wire)' /\ AssertionsHold'
    BY <1>2, <1>3, <1>6 DEF IInv, Types, HoldsWhileReordering, AssertionsHold
  <2>1. TxInv' /\ FlightInv' /\ PairInv' /\ ReplyInv' /\ SettledInv'
    BY <1>2, <1>4, <1>6 DEF IInv, TxInv, FlightInv, PairInv, ReplyInv, SettledInv
  <2>2. RxInv' /\ HoldInv' /\ FreshInv' /\ OrderInv'
    BY <1>2, <1>4, <1>6 DEF IInv, RxInv, HoldInv, FreshInv, Fresh, Idle, OrderInv, EpochInv,
                            WaitInv, DeliveredInv, HeldInv
  <2>. QED  BY <2>0, <2>1, <2>2 DEF IInv
<1>7. CASE rx' = None /\ (Fresh \/ Idle) /\ replies = {} /\ voq = None
  <2>0. Types' /\ HoldsWhileReordering' /\ Lined(wire)' /\ AssertionsHold'
    BY <1>2, <1>3, <1>7 DEF IInv, Types, HoldsWhileReordering, AssertionsHold
  <2>1. TxInv' /\ FlightInv' /\ PairInv' /\ ReplyInv'
    BY <1>2, <1>4, <1>7 DEF IInv, TxInv, FlightInv, PairInv, ReplyInv
  <2>2. \A p \in InFlight : ~ (p.epoch < tx.epoch)
    BY <1>1, <1>7 DEF Fresh, Idle, Fields
  <2>3. SettledInv'
    BY <1>2, <1>4, <1>7, <2>2 DEF SettledInv
  <2>4. RxInv' /\ HoldInv' /\ FreshInv' /\ OrderInv'
    BY <1>2, <1>4, <1>7 DEF IInv, RxInv, HoldInv, FreshInv, Fresh, Idle, OrderInv, EpochInv,
                            WaitInv, DeliveredInv, HeldInv
  <2>. QED  BY <2>0, <2>1, <2>3, <2>4 DEF IInv
<1>. QED  BY <1>5, <1>6, <1>7

-----------------------------------------------------------------------------
(* Time passes                                                             *)

LEMMA TickSteps ==
    ASSUME IInv, Tick
    PROVE  /\ now' \in Nat /\ now' > now
           /\ \A p \in InFlight : now' <= p.tx + Latest(p.path)
           /\ \A r \in replies : now' <= r.since + ReplyDelay
           /\ voq # None => now' <= voq.flushAt
<1>1. Fields
  BY FieldsTyped DEF IInv
<1>2. wire \in [Paths -> Seq(Packet)] /\ aging \in [tx : Nat, rx : Nat] /\ NothingDue
  BY DEF IInv, Types, Tick
<1>3. CASE Quiet
  <2>1. InFlight = {}
    <3>1. ASSUME NEW p \in InFlight PROVE FALSE
      <4>1. PICK path \in Paths : \E k \in 1 .. Len(wire[path]) : p = wire[path][k]
        BY <1>2, CarriedDef DEF InFlight
      <4>2. wire[path] = << >>
        BY <1>3 DEF Quiet
      <4>. QED  BY <4>1, <4>2
    <3>. QED  BY <3>1
  <2>2. replies = {} /\ voq = None
    BY <1>3 DEF Quiet
  <2>. DEFINE S == {t \in Instants : t > now}
  <2>3. Instants \subseteq Nat /\ aging.tx \in Instants
    BY <1>1, <1>2, Constants DEF Instants, Fields
  <2>4. S \subseteq Nat /\ aging.tx \in S
    BY <1>2, <2>3 DEF NothingDue
  <2>5. Min(S) \in S
    BY <2>4, MinIsIn
  <2>6. now' = Min(S)
    BY <1>3 DEF Tick
  <2>. QED  BY <2>1, <2>2, <2>4, <2>5, <2>6
<1>4. CASE ~ Quiet
  <2>1. now' = now + 1
    BY <1>4 DEF Tick
  <2>2. ASSUME NEW p \in InFlight PROVE now' <= p.tx + Latest(p.path)
    <3>1. PICK path \in Paths : \E k \in 1 .. Len(wire[path]) : p = wire[path][k]
      BY <1>2, CarriedDef DEF InFlight
    <3>2. PICK k \in 1 .. Len(wire[path]) : p = wire[path][k]
      BY <3>1
    <3>3. k \in DOMAIN wire[path]
      BY <1>2, <3>2
    <3>4. p.path = path /\ now < p.tx + MinDelay[path] + Jitter
      BY <1>2, <3>2, <3>3 DEF NothingDue, IInv, Lined
    <3>. QED  BY <1>1, <2>1, <3>4, Constants DEF Fields, Latest
  <2>3. \A r \in replies : now' <= r.since + ReplyDelay
    BY <1>1, <1>2, <2>1, Constants DEF NothingDue, Fields
  <2>4. voq # None => now' <= voq.flushAt
    BY <1>1, <1>2, <2>1 DEF NothingDue, Fields
  <2>. QED  BY <1>1, <2>1, <2>2, <2>3, <2>4 DEF Fields
<1>. QED  BY <1>3, <1>4

LEMMA TickKeeps == ASSUME IInv, Tick PROVE IInv'
<1>1. Fields
  BY FieldsTyped DEF IInv
<1>2. UNCHANGED <<tx, rx, voq, wire, replies, aging, sent, delivered, failed, outlived>>
  BY DEF Tick
<1>3. InFlight' = InFlight /\ HeldIds' = HeldIds
  BY <1>2 DEF InFlight, HeldIds
<1>4. /\ now' \in Nat /\ now' > now
      /\ \A p \in InFlight : now' <= p.tx + Latest(p.path)
      /\ \A r \in replies : now' <= r.since + ReplyDelay
      /\ voq # None => now' <= voq.flushAt
  BY TickSteps
<1>5. \A t \in Nat : (t <= now => t <= now') /\ (t < now => t < now')
  BY <1>1, <1>4 DEF Fields
<1>6. Types' /\ HoldsWhileReordering' /\ Lined(wire)' /\ AssertionsHold'
  BY <1>2, <1>4 DEF IInv, Types, HoldsWhileReordering, AssertionsHold
<1>7. TxInv'
  BY <1>1, <1>2, <1>3, <1>5, Constants DEF IInv, TxInv, Fields
<1>8. FlightInv' /\ PairInv' /\ SettledInv'
  BY <1>2, <1>3, <1>4 DEF IInv, FlightInv, PairInv, SettledInv
<1>9. ReplyInv'
  BY <1>1, <1>2, <1>3, <1>4, <1>5 DEF IInv, ReplyInv, Fields
<1>10. RxInv'
  BY <1>1, <1>2, <1>3, <1>5 DEF IInv, RxInv, Fields
<1>11. HoldInv'
  BY <1>2, <1>4 DEF IInv, HoldInv
<1>12. FreshInv'
  <2>1. Idle => Idle'
    BY <1>1, <1>2, <1>3, <1>5, Constants DEF Idle, Fields
  <2>2. Fresh => Fresh'
    BY <1>2, <1>3 DEF Fresh
  <2>. QED  BY <1>2, <1>3, <2>1, <2>2 DEF IInv, FreshInv
<1>13. OrderInv'
  BY <1>2, <1>3 DEF IInv, OrderInv, EpochInv, WaitInv, DeliveredInv, HeldInv
<1>. QED  BY <1>6, <1>7, <1>8, <1>9, <1>10, <1>11, <1>12, <1>13 DEF IInv

LEMMA ConWeaveInitHolds == ConWeaveInit => IInv
<1>. SUFFICES ASSUME ConWeaveInit PROVE IInv
  OBVIOUS
<1>1. /\ now = TxExpiryTime + 1 /\ now \in Nat /\ now > TxExpiryTime
      /\ tx = None /\ rx = None /\ voq = None
      /\ wire = [path \in Paths |-> << >>] /\ replies = {}
      /\ sent = 0 /\ delivered = << >> /\ failed = FALSE /\ outlived = FALSE
  BY Constants DEF ConWeaveInit
<1>2. wire \in [Paths -> Seq(Packet)] /\ \A path \in Paths : Len(wire[path]) = 0
  BY <1>1, EmptySeq
<1>3. InFlight = {}
  BY <1>2, CarriedDef DEF InFlight
<1>4. Lined(wire)
  <2>1. \A path \in Paths : DOMAIN wire[path] = {}
    BY <1>1
  <2>. QED  BY <2>1 DEF Lined
<1>5. aging \in [tx : Nat, rx : Nat]
  <2>1. Phases \subseteq Nat
    BY ConWeaveAssumption
  <2>2. ASSUME NEW d \in Nat PROVE now + d \in Nat
    BY <1>1, <2>2
  <2>3. {now + d : d \in Phases} \subseteq Nat
    BY <2>1, <2>2
  <2>. QED  BY <2>3 DEF ConWeaveInit
<1>6. Types
  <2>1. delivered \in Seq(1 .. MaxPackets) /\ sent \in 0 .. MaxPackets
    BY <1>1, Constants, EmptySeq
  <2>2. wire \in [Paths -> Seq(Packet)]
    BY <1>2
  <2>. QED  BY <1>1, <1>5, <2>1, <2>2 DEF Types
<1>7. HoldsWhileReordering /\ TxInv /\ FlightInv /\ PairInv /\ ReplyInv /\ SettledInv
      /\ RxInv /\ HoldInv /\ FreshInv /\ AssertionsHold
  BY <1>1, <1>3 DEF HoldsWhileReordering, TxInv, FlightInv, PairInv, ReplyInv, SettledInv, RxInv,
                    HoldInv, FreshInv, Idle, AssertionsHold
<1>8. OrderInv
  <2>1. DOMAIN delivered = {}
    BY <1>1
  <2>. QED  BY <1>1, <1>3, <2>1 DEF OrderInv, EpochInv, WaitInv, DeliveredInv, HeldInv, Increasing
<1>. QED  BY <1>4, <1>6, <1>7, <1>8 DEF IInv

-----------------------------------------------------------------------------
(* A packet reaches RxToR                                                  *)

(* p is the first packet of its path, and has come.                        *)
Arrives(p) ==
    /\ p \in Packet /\ p \in InFlight /\ now >= p.tx + MinDelay[p.path]
    /\ InFlight' = InFlight \ {p} /\ wire' \in [Paths -> Seq(Packet)] /\ Lined(wire')
    /\ \A q \in InFlight' : q.path = p.path => p.id < q.id
    /\ UNCHANGED <<now, tx, aging, sent, outlived>>

LEMMA ReceiveDataSteps ==
    ASSUME IInv, ReceiveData
    PROVE  \E p : /\ Arrives(p)
                  /\ PreviousEpoch(Entry(rx, NewRx), p) \/ CurrentOrNewEpoch(Entry(rx, NewRx), p)
<1>1. PICK path \in Paths :
          /\ wire[path] # << >> /\ now >= Head(wire[path]).tx + MinDelay[path]
          /\ PreviousEpoch(Entry(rx, NewRx), Head(wire[path]))
                \/ CurrentOrNewEpoch(Entry(rx, NewRx), Head(wire[path]))
          /\ wire' = [wire EXCEPT ![path] = Tail(@)]
          /\ UNCHANGED <<now, tx, aging, sent, outlived>>
  BY DEF ReceiveData
<1>. DEFINE p == Head(wire[path])
<1>2. wire \in [Paths -> Seq(Packet)] /\ Lined(wire)
  BY DEF IInv, Types
<1>3. Tail(wire[path]) \in Seq(Packet)
  BY <1>1, <1>2, HeadTailProperties
<1>4. Replaced(wire, wire', path, Tail(wire[path]))
  BY <1>1, <1>2, <1>3, ReplacedByExcept
<1>5. /\ p \in Carried(wire) /\ p.path = path
      /\ Carried(wire') = Carried(wire) \ {p}
      /\ Lined(wire')
      /\ \A q \in Carried(wire') : q.path = path => p.id < q.id
  BY <1>1, <1>2, <1>4, CarriedTail
<1>6. p \in Packet
  BY <1>2, <1>5, CarriedType
<1>. HIDE DEF p
<1>7. Arrives(p)
  BY <1>1, <1>4, <1>5, <1>6 DEF Arrives, InFlight, Replaced, p
<1>. QED  BY <1>1, <1>7 DEF p

(* What holds whatever RxToR does with the packet.                         *)
LEMMA ArrivesFacts ==
    ASSUME IInv, NEW p, Arrives(p)
    PROVE  /\ tx # None /\ now \in Nat
           /\ p.id \in Nat /\ p.path \in Paths /\ p.epoch \in Nat /\ (p.phase = 0 \/ p.phase = 1)
           /\ p.tx \in Nat /\ p.tail \in Nat /\ p.id <= sent /\ p.id \in 1 .. MaxPackets
           /\ p.tx <= tx.active /\ p.tx <= now /\ now <= p.tx + Latest(p.path)
           /\ p.epoch >= 1 /\ p.epoch <= tx.epoch
           /\ \A q \in InFlight' : q \in InFlight /\ q # p /\ q.id # p.id
<1>1. Fields
  BY FieldsTyped DEF IInv
<1>2. p \in InFlight /\ p \in Packet /\ tx # None
  BY DEF Arrives, IInv, TxInv
<1>3. p.tx <= tx.active /\ tx.active <= now
  BY <1>2 DEF IInv, FlightInv, TxInv
<1>4. \A q \in InFlight' : q \in InFlight /\ q # p /\ q.id # p.id
  BY <1>2 DEF Arrives, IInv, PairInv
<1>5. p.id \in 1 .. MaxPackets
  BY <1>2 DEF Packet
<1>. QED  BY <1>1, <1>2, <1>3, <1>4, <1>5, PacketFields DEF IInv, FlightInv, Fields

LEMMA ArrivesKeeps ==
    ASSUME IInv, NEW p, Arrives(p), rx' # None, rx'.active = now
    PROVE  /\ TxInv' /\ FlightInv' /\ PairInv' /\ FreshInv' /\ Lined(wire)'
           /\ \E q \in Paths : rx'.active <= tx'.active + Latest(q)
<1>1. Fields
  BY FieldsTyped DEF IInv
<1>2. /\ tx # None /\ p.path \in Paths /\ p.tx \in Nat /\ p.tx <= tx.active
      /\ now <= p.tx + Latest(p.path)
      /\ \A q \in InFlight' : q \in InFlight
  BY ArrivesFacts
<1>3. UNCHANGED <<now, tx, aging, sent, outlived>>
  BY DEF Arrives
<1>4. TxInv' /\ FlightInv' /\ PairInv'
  BY <1>2, <1>3 DEF IInv, TxInv, FlightInv, PairInv
<1>5. FreshInv'
  <2>1. CASE InFlight' = {}
    BY <1>2, <1>3, <2>1 DEF IInv, TxInv, FreshInv
  <2>2. CASE InFlight' # {}
    <3>1. PICK q \in InFlight' : TRUE
      BY <2>2
    <3>2. q.tx <= tx.active /\ tx.active <= now /\ q.tx \in Nat
      BY <1>1, <1>2 DEF IInv, FlightInv, TxInv, Fields
    <3>3. q.tx <= rx'.active + TxExpiryTime
      BY <1>1, <1>2, <3>2, Constants DEF Fields
    <3>. QED  BY <3>3 DEF FreshInv
  <2>. QED  BY <2>1, <2>2
<1>6. rx'.active <= tx'.active + Latest(p.path)
  BY <1>1, <1>2, <1>3, Constants DEF Fields
<1>7. Lined(wire)'
  BY DEF Arrives
<1>. QED  BY <1>2, <1>4, <1>5, <1>6, <1>7

(* One packet more is passed on, in its order.                             *)
LEMMA PassOnKeepsOrder ==
    ASSUME Types, DeliveredInv, NEW id \in 1 .. MaxPackets, id <= sent,
           delivered' = Append(delivered, id), sent' = sent,
           \A k \in DOMAIN delivered : delivered[k] < id,
           \A h \in HeldIds' : h \in HeldIds /\ id < h,
           \A q \in InFlight' : q \in InFlight /\ id < q.id
    PROVE  DeliveredInv' /\ delivered' \in Seq(1 .. MaxPackets)
<1>. DEFINE n == Len(delivered)
<1>1. delivered \in Seq(1 .. MaxPackets) /\ n \in Nat /\ DOMAIN delivered = 1 .. n
  BY DEF Types
<1>2. /\ delivered' \in Seq(1 .. MaxPackets) /\ DOMAIN delivered' = 1 .. n + 1
      /\ delivered'[n + 1] = id /\ \A k \in 1 .. n : delivered'[k] = delivered[k]
  BY <1>1, AppendProperties
<1>. HIDE DEF n
<1>3. \A k \in 1 .. n + 1 : k \in 1 .. n \/ k = n + 1
  BY <1>1
<1>4. ASSUME NEW j \in 1 .. n + 1, NEW k \in 1 .. n + 1, j < k
      PROVE  delivered'[j] < delivered'[k]
  <2>1. j \in 1 .. n
    BY <1>1, <1>4
  <2>. QED  BY <1>1, <1>2, <1>3, <1>4, <2>1 DEF DeliveredInv, Increasing
<1>5. ASSUME NEW k \in 1 .. n + 1
      PROVE  /\ delivered'[k] <= sent'
             /\ \A h \in HeldIds' : delivered'[k] < h
             /\ \A q \in InFlight' : delivered'[k] < q.id
  BY <1>1, <1>2, <1>3 DEF DeliveredInv
<1>. QED  BY <1>2, <1>4, <1>5 DEF DeliveredInv, Increasing

-----------------------------------------------------------------------------
(* A packet of an epoch gone by                                            *)

LEMMA PreviousEpochKeeps ==
    ASSUME IInv, TimesFit, NEW p, Arrives(p), PreviousEpoch(Entry(rx, NewRx), p)
    PROVE  IInv'
<1>1. Fields
  BY FieldsTyped DEF IInv
<1>2. /\ tx # None /\ now \in Nat /\ p.id \in 1 .. MaxPackets
      /\ p.id \in Nat /\ p.path \in Paths /\ p.epoch \in Nat /\ (p.phase = 0 \/ p.phase = 1)
      /\ p.tx \in Nat /\ p.tail \in Nat /\ p.id <= sent /\ p.epoch >= 1 /\ p.epoch <= tx.epoch
      /\ \A q \in InFlight' : q \in InFlight /\ q # p /\ q.id # p.id
  BY ArrivesFacts
<1>3. /\ p \in InFlight /\ UNCHANGED <<now, tx, aging, sent, outlived>>
      /\ \A q \in InFlight' : q.path = p.path => p.id < q.id
  BY DEF Arrives
<1>4. rx # None /\ p.epoch < rx.epoch /\ rx' = [rx EXCEPT !.active = now] /\ rx \in RxType
  <2>1. p.epoch < Entry(rx, NewRx).epoch
    BY DEF PreviousEpoch
  <2>2. rx # None
    <3>1. CASE rx = None
      <4>1. Entry(rx, NewRx).epoch = 1
        BY <3>1 DEF Entry, NewRx
      <4>. QED  BY <1>2, <2>1, <4>1
    <3>. QED  BY <3>1
  <2>. QED  BY <2>1, <2>2 DEF PreviousEpoch, Entry, IInv, Types
<1>5. delivered' = Append(delivered, p.id) /\ UNCHANGED <<voq, replies, failed>>
  BY DEF PreviousEpoch, PassOn
<1>6. /\ rx' \in RxType /\ rx' # None /\ rx'.active = now /\ rx'.epoch = rx.epoch
      /\ rx'.phase = rx.phase /\ rx'.phase0Tx = rx.phase0Tx /\ rx'.phase0Rx = rx.phase0Rx
      /\ rx'.cache = rx.cache /\ rx'.tail = rx.tail /\ rx'.reordering = rx.reordering
  <2>1. rx' \in RxType
    BY <1>2, <1>4 DEF RxType
  <2>. QED  BY <1>4, <2>1, NoEntryAssumption DEF RxType
<1>7. HeldIds' = HeldIds
  BY <1>5 DEF HeldIds
<1>8. TxInv' /\ FlightInv' /\ PairInv' /\ FreshInv' /\ Lined(wire)'
      /\ \E q \in Paths : rx'.active <= tx'.active + Latest(q)
  BY <1>6, ArrivesKeeps
<1>9. HoldsWhileReordering' /\ AssertionsHold'
  BY <1>4, <1>5, <1>6 DEF IInv, HoldsWhileReordering, AssertionsHold
<1>10. ReplyInv'
  <2>1. ASSUME NEW r \in replies PROVE r.since <= rx'.active
    BY <1>6 DEF IInv, ReplyInv
  <2>. QED  BY <1>2, <1>3, <1>4, <1>5, <1>6, <2>1 DEF IInv, ReplyInv
<1>11. SettledInv'
  BY <1>2, <1>3, <1>4, <1>6 DEF IInv, SettledInv
<1>12. RxInv'
  BY <1>1, <1>2, <1>3, <1>4, <1>6, <1>8 DEF IInv, RxInv, Fields
<1>13. HoldInv'
  <2>1. voq # None => voq.since <= rx'.active
    BY <1>6, HoldFacts
  <2>. QED  BY <1>3, <1>5, <1>6, <2>1 DEF IInv, HoldInv
<1>14. /\ ~ outlived' => EpochInv' /\ WaitInv' /\ HeldInv' /\ DeliveredInv'
       /\ delivered' \in Seq(1 .. MaxPackets)
  <2>1. delivered' \in Seq(1 .. MaxPackets)
    BY <1>2, <1>5, AppendProperties DEF IInv, Types
  <2>. SUFFICES ASSUME ~ outlived
                PROVE  EpochInv' /\ WaitInv' /\ HeldInv' /\ DeliveredInv'
    BY <1>3, <2>1
  <2>2. EpochInv /\ WaitInv /\ DeliveredInv /\ HeldInv
    BY DEF IInv, OrderInv
  <2>3. EpochInv'
    BY <1>2, <1>3, <1>4, <1>6, <2>2 DEF EpochInv
  <2>4. WaitInv'
    BY <1>2, <1>4, <1>5, <1>6, <2>2 DEF WaitInv
  <2>5. HeldInv'
    BY <1>2, <1>3, <1>5, <1>6, <1>7, <2>2 DEF HeldInv
  <2>6. \A h \in HeldIds' : h \in HeldIds /\ p.id < h
    <3>1. Early(p, rx.epoch)
      BY <1>4 DEF Early
    <3>2. voq = None => HeldIds = {}
      BY DEF HeldIds
    <3>. QED  BY <1>3, <1>7, <2>2, <3>1, <3>2 DEF HeldInv
  <2>7. ASSUME NEW q \in InFlight' PROVE q \in InFlight /\ p.id < q.id
    <3>0. q \in InFlight /\ q.id # p.id /\ q.id \in Nat /\ q.epoch \in Nat /\ (q.phase = 0 \/ q.phase = 1)
      BY <1>1, <1>2 DEF Fields
    <3>1. CASE q.path = p.path
      BY <1>3, <3>0, <3>1
    <3>2. CASE q.path # p.path
      <4>1. Early(p, tx.epoch) /\ p.epoch < tx.epoch
        BY <1>1, <1>2, <1>4, <2>2 DEF EpochInv, Early, Fields
      <4>2. ~ Early(q, tx.epoch)
        BY <1>3, <3>0, <3>2, <4>1 DEF IInv, PairInv
      <4>3. ~ (q.id < p.id)
        <5>1. q.epoch >= tx.epoch
          BY <1>1, <1>2, <3>0, <4>2 DEF Early, Fields
        <5>2. q.id < p.id => q.epoch <= p.epoch
          BY <1>1, <1>2, <1>3, <3>0 DEF IInv, PairInv, Fields
        <5>. QED  BY <1>1, <1>2, <3>0, <4>1, <5>1, <5>2 DEF Fields
      <4>. QED  BY <1>2, <3>0, <4>3
    <3>. QED  BY <3>1, <3>2
  <2>8. DeliveredInv'
    <3>1. \A k \in DOMAIN delivered : delivered[k] < p.id
      BY <1>3, <2>2 DEF DeliveredInv
    <3>. QED  BY <1>2, <1>3, <1>5, <2>2, <2>6, <2>7, <3>1, PassOnKeepsOrder DEF IInv
  <2>. QED  BY <2>3, <2>4, <2>5, <2>8
<1>15. Types'
  BY <1>3, <1>5, <1>6, <1>14 DEF Arrives, IInv, Types
<1>. QED  BY <1>8, <1>9, <1>10, <1>11, <1>12, <1>13, <1>14, <1>15 DEF IInv, OrderInv

-----------------------------------------------------------------------------
(* A packet of the current epoch or a new one, by what RxToR does with it  *)

(* RxToR knows nothing of the epoch of p that would put it in phase 1.     *)
Updates(p) ==
    /\ rx' \in RxType /\ rx' # None /\ rx'.active = now /\ rx'.epoch = p.epoch
    /\ rx # None => rx.epoch <= p.epoch
    /\ voq # None => rx # None /\ rx.epoch = p.epoch
    /\ failed' = failed

(* The time from p to the TAIL when they were sent, as far as known.       *)
Gap(tail, t) == IF tail > t THEN tail - t ELSE 0

(* A packet of phase 0 is passed on, and may put off the flush.            *)
TakesEarly(p) ==
    /\ p.phase = 0
    /\ rx'.phase0Tx = p.tx /\ rx'.phase0Rx = now /\ rx'.cache
    /\ p.flag # "TAIL" => (rx'.phase = 1 <=> rx # None /\ rx.epoch = p.epoch /\ rx.phase = 1)
    /\ p.flag = "TAIL" => rx'.phase = 1 \/ voq # None
    /\ rx # None /\ rx.epoch = p.epoch /\ rx.phase = 1 => rx'.phase = 1
    /\ voq = None => voq' = None /\ ~ rx'.reordering
    /\ voq # None =>
          /\ voq' \in VoqType /\ voq' # None /\ rx'.reordering /\ rx'.phase = 0
          /\ voq'.queue = voq.queue /\ voq'.since = voq.since
          /\ p.flag = "TAIL" => voq'.flushAt = now /\ rx'.tail = p.tail
          /\ p.flag # "TAIL" =>
                /\ rx'.tail = rx.tail
                /\ voq'.flushAt = now + Gap(rx.tail, p.tx) + ExtraVOQFlushTime
    /\ delivered' = Append(delivered, p.id)
    /\ replies' = replies \cup SendReply(p)

(* A packet of phase 1 that phase 0 has preceded is passed on.             *)
TakesLate(p) ==
    /\ p.phase = 1 /\ rx # None /\ rx.epoch = p.epoch /\ rx.phase = 1 /\ voq = None
    /\ rx'.phase = 1 /\ rx'.phase0Tx = rx.phase0Tx /\ rx'.phase0Rx = rx.phase0Rx
    /\ (rx'.cache <=> rx.cache) /\ ~ rx'.reordering
    /\ voq' = None
    /\ delivered' = Append(delivered, p.id)
    /\ replies' = replies

(* A packet of phase 1 ahead of phase 0 is held.                           *)
Holds(p) ==
    /\ p.phase = 1 /\ (rx # None /\ rx.epoch = p.epoch => rx.phase = 0)
    /\ rx'.phase = 0 /\ rx'.tail = p.tail /\ rx'.reordering
    /\ rx'.phase0Tx = (IF rx = None THEN 0 ELSE rx.phase0Tx)
    /\ rx'.phase0Rx = (IF rx = None THEN 0 ELSE rx.phase0Rx)
    /\ rx'.cache <=> (rx # None /\ rx.epoch = p.epoch /\ rx.cache)
    /\ voq' \in VoqType /\ voq' # None
    /\ voq # None => /\ voq'.queue = Append(voq.queue, p)
                     /\ voq'.since = voq.since /\ voq'.flushAt = voq.flushAt
    /\ voq = None =>
          /\ voq'.queue = <<p>> /\ voq'.since = now
          /\ LET due == IF rx'.cache
                        THEN rx'.phase0Rx + Gap(p.tail, rx'.phase0Tx) + ExtraVOQFlushTime
                        ELSE now + DefaultVOQWaitingTime + ExtraVOQFlushTime
             IN  voq'.flushAt = IF now >= due THEN now ELSE due
    /\ delivered' = delivered
    /\ replies' = replies

LEMMA RxEntryFields ==
    ASSUME NEW old \in RxType, NEW p \in Packet, now \in Nat, NEW new, new = RxEntry(old, p)
    PROVE  /\ new \in RxType /\ new # None
           /\ new.active = now /\ new.epoch = p.epoch /\ new.phase = RxPhase(old, p)
           /\ new.phase0Tx = (IF p.phase = 0 THEN p.tx ELSE old.phase0Tx)
           /\ new.phase0Rx = (IF p.phase = 0 THEN now ELSE old.phase0Rx)
           /\ new.cache <=> (p.phase = 0 \/ (old.cache /\ p.epoch = old.epoch))
           /\ new.tail = (IF IsTail(p) \/ p.phase = 1 THEN p.tail ELSE old.tail)
           /\ new.reordering <=> (old.reordering \/ (p.phase = 1 /\ OutOfOrder(old, p)))
<1>1. RxPhase(old, p) \in 0 .. 1
  BY DEF RxPhase, RxType
<1>. DEFINE c == p.phase = 0 \/ (old.cache /\ p.epoch = old.epoch)
            r == old.reordering \/ (p.phase = 1 /\ OutOfOrder(old, p))
            t0 == IF p.phase = 0 THEN p.tx ELSE old.phase0Tx
            r0 == IF p.phase = 0 THEN now ELSE old.phase0Rx
            tl == IF IsTail(p) \/ p.phase = 1 THEN p.tail ELSE old.tail
<1>2. /\ p.epoch \in Nat /\ p.tx \in Nat /\ p.tail \in Nat
      /\ old.phase0Tx \in Nat /\ old.phase0Rx \in Nat /\ old.tail \in Nat
      /\ old.cache \in BOOLEAN /\ old.reordering \in BOOLEAN
  BY PacketFields, RxFields
<1>3. c \in BOOLEAN /\ r \in BOOLEAN /\ t0 \in Nat /\ r0 \in Nat /\ tl \in Nat
  BY <1>2
<1>4. new = [old EXCEPT !.active = now, !.epoch = p.epoch, !.phase = RxPhase(old, p),
                        !.phase0Tx = t0, !.phase0Rx = r0, !.cache = c, !.tail = tl, !.reordering = r]
  BY DEF RxEntry
<1>. HIDE DEF c, r, t0, r0, tl
<1>5. new = [active |-> now, epoch |-> p.epoch, phase |-> RxPhase(old, p), phase0Tx |-> t0,
             phase0Rx |-> r0, cache |-> c, tail |-> tl, reordering |-> r]
  BY <1>4 DEF RxType
<1>6. new \in RxType
  BY <1>1, <1>2, <1>3, <1>5 DEF RxType
<1>7. /\ new.active = now /\ new.epoch = p.epoch /\ new.phase = RxPhase(old, p)
      /\ new.phase0Tx = t0 /\ new.phase0Rx = r0 /\ new.cache = c /\ new.tail = tl
      /\ new.reordering = r
  BY <1>5
<1>. QED  BY <1>6, <1>7, NoEntryAssumption DEF c, r, t0, r0, tl

LEMMA CurrentOrNewEpochSteps ==
    ASSUME IInv, NEW p, Arrives(p), CurrentOrNewEpoch(Entry(rx, NewRx), p)
    PROVE  Updates(p) /\ (TakesEarly(p) \/ TakesLate(p) \/ Holds(p))
<1>. DEFINE old  == Entry(rx, NewRx)
            new  == RxEntry(old, p)
            hold == p.phase = 1 /\ OutOfOrder(old, p)
<1>1. Fields
  BY FieldsTyped DEF IInv
<1>2. /\ tx # None /\ now \in Nat /\ p \in Packet /\ p \in InFlight
      /\ p.id \in Nat /\ p.epoch \in Nat /\ (p.phase = 0 \/ p.phase = 1)
      /\ p.tx \in Nat /\ p.tail \in Nat /\ p.epoch >= 1 /\ p.epoch <= tx.epoch /\ p.tx <= now
  BY ArrivesFacts DEF Arrives
<1>3. /\ old \in RxType /\ (rx = None => old = NewRx) /\ (rx # None => old = rx)
  BY DEF Entry, NewRx, IInv, Types, RxType
<1>4. rx = None => /\ old.epoch = 1 /\ old.phase = 0 /\ ~ old.cache /\ ~ old.reordering
                   /\ old.phase0Tx = 0 /\ old.phase0Rx = 0
  BY <1>3 DEF NewRx
<1>5. /\ p.epoch >= old.epoch
      /\ rx' = new
      /\ failed' = (failed \/ AssertionFails(old, new, p))
      /\ voq' = CASE hold        -> Held(old, new, p)
                  [] p.phase = 0 -> Rescheduled(old, new, p)
                  [] OTHER       -> voq
      /\ IF hold THEN UNCHANGED delivered ELSE delivered' = Append(delivered, p.id)
      /\ replies' = replies \cup SendReply(p)
  BY DEF CurrentOrNewEpoch, PassOn
<1>. HIDE DEF old
<1>6. /\ old.reordering <=> voq # None
      /\ voq # None => /\ rx # None /\ old = rx /\ voq \in VoqType /\ rx.phase = 0 /\ rx.epoch = tx.epoch
                       /\ rx.tail \in Nat
  BY <1>1, <1>3, <1>4 DEF IInv, HoldsWhileReordering, HoldInv, Types, Fields
<1>7. voq # None => rx.epoch = p.epoch
  BY <1>1, <1>2, <1>5, <1>6 DEF Fields
<1>8. /\ p.flag = "TAIL" => p.phase = 0 /\ p.tail = p.tx
      /\ p.phase = 1 => p.flag = "DATA"
  BY <1>2 DEF IInv, FlightInv
<1>9. /\ new \in RxType /\ new # None
      /\ new.active = now /\ new.epoch = p.epoch /\ new.phase = RxPhase(old, p)
      /\ new.phase0Tx = (IF p.phase = 0 THEN p.tx ELSE old.phase0Tx)
      /\ new.phase0Rx = (IF p.phase = 0 THEN now ELSE old.phase0Rx)
      /\ new.cache <=> (p.phase = 0 \/ (old.cache /\ p.epoch = old.epoch))
      /\ new.tail = (IF IsTail(p) \/ p.phase = 1 THEN p.tail ELSE old.tail)
      /\ new.reordering <=> (old.reordering \/ hold)
  BY <1>2, <1>3, RxEntryFields
<1>10. /\ old.epoch \in Nat /\ (old.phase = 0 \/ old.phase = 1)
       /\ old.cache \in BOOLEAN /\ old.reordering \in BOOLEAN
       /\ old.phase0Tx \in Nat /\ old.phase0Rx \in Nat /\ old.tail \in Nat
  BY <1>3, RxFields
<1>11. hold <=> p.phase = 1 /\ (p.epoch > old.epoch \/ old.phase = 0)
  BY <1>2, <1>5, <1>8, <1>10 DEF OutOfOrder, RxPhase, IsTail
<1>. HIDE DEF new, hold
<1>12. ~ AssertionFails(old, new, p)
  <2>1. ~ (p.epoch > old.epoch /\ old.reordering # (voq # None))
    BY <1>6, <1>10
  <2>2. ~ (old.reordering /\ voq = None)
    BY <1>6
  <2>3. ~ (p.phase = 1 /\ ~ OutOfOrder(old, p) /\ (old.reordering \/ voq # None))
    BY <1>6, <1>11 DEF hold
  <2>4. ASSUME p.phase = 1 \/ IsTail(p), new.cache PROVE ~ (new.tail < new.phase0Tx)
    <3>1. CASE IsTail(p)
      BY <1>2, <1>8, <1>9, <3>1 DEF IsTail
    <3>2. CASE p.phase = 1
      <4>1. old.cache /\ p.epoch = old.epoch /\ new.phase0Tx = old.phase0Tx /\ new.tail = p.tail
        BY <1>9, <2>4, <3>2
      <4>2. rx # None /\ old = rx
        BY <1>3, <1>4, <4>1
      <4>3. rx.phase0Tx <= p.tail
        BY <1>2, <3>2, <4>1, <4>2 DEF IInv, RxInv
      <4>. QED  BY <1>2, <1>10, <4>1, <4>2, <4>3
    <3>. QED  BY <2>4, <3>1, <3>2
  <2>. QED  BY <2>1, <2>2, <2>3, <2>4 DEF AssertionFails
<1>13. Updates(p)
  BY <1>3, <1>5, <1>6, <1>7, <1>9, <1>12 DEF Updates, IInv, Types, AssertionsHold
<1>14. ASSUME p.phase = 0 PROVE TakesEarly(p)
  <2>1. ~ hold
    BY <1>11, <1>14
  <2>2. voq' = Rescheduled(old, new, p) /\ delivered' = Append(delivered, p.id)
    BY <1>5, <1>14, <2>1
  <2>3. /\ rx'.phase0Tx = p.tx /\ rx'.phase0Rx = now /\ rx'.cache
        /\ rx'.reordering <=> (voq # None)
    BY <1>5, <1>6, <1>9, <1>10, <1>14, <2>1
  <2>4. voq = None => voq' = None
    BY <1>6, <2>2 DEF Rescheduled
  <2>5. /\ p.flag # "TAIL" => (rx'.phase = 1 <=> rx # None /\ rx.epoch = p.epoch /\ rx.phase = 1)
        /\ p.flag = "TAIL" => rx'.phase = 1 \/ voq # None
        /\ rx # None /\ rx.epoch = p.epoch /\ rx.phase = 1 => rx'.phase = 1
    BY <1>2, <1>3, <1>4, <1>5, <1>6, <1>9, <1>10 DEF RxPhase, IsTail
  <2>6. ASSUME voq # None
        PROVE  /\ voq' \in VoqType /\ voq' # None /\ rx'.phase = 0
               /\ voq'.queue = voq.queue /\ voq'.since = voq.since
               /\ p.flag = "TAIL" => voq'.flushAt = now /\ rx'.tail = p.tail
               /\ p.flag # "TAIL" =>
                     /\ rx'.tail = rx.tail
                     /\ voq'.flushAt = now + Gap(rx.tail, p.tx) + ExtraVOQFlushTime
    <3>1. old = rx /\ voq \in VoqType /\ old.reordering /\ rx.phase = 0 /\ rx.epoch = p.epoch
      BY <1>6, <1>7, <2>6
    <3>2. rx'.phase = 0
      BY <1>2, <1>5, <1>9, <3>1 DEF RxPhase
    <3>. DEFINE due == TimeExpectedToFlush(new, p)
    <3>3. voq' = [voq EXCEPT !.flushAt = Max({now, due})]
      BY <2>2, <3>1 DEF Rescheduled
    <3>4. due = IF p.flag = "TAIL" THEN now ELSE now + Gap(rx.tail, p.tx) + ExtraVOQFlushTime
      BY <1>9, <1>14, <3>1 DEF TimeExpectedToFlush, TimegapAtTx, Gap, IsTail
    <3>5. Gap(rx.tail, p.tx) \in Nat
      BY <1>2, <1>6, <2>6 DEF Gap
    <3>6. due \in Nat /\ due >= now
      BY <1>2, <3>4, <3>5, Constants
    <3>. HIDE DEF due
    <3>7. Max({now, due}) = due
      BY <1>2, <3>6, MaxOfTwo
    <3>8. voq' = [voq EXCEPT !.flushAt = due]
      BY <3>3, <3>7
    <3>9. /\ voq' \in VoqType /\ voq'.queue = voq.queue /\ voq'.since = voq.since
          /\ voq'.flushAt = due
      BY <3>1, <3>6, <3>8 DEF VoqType
    <3>10. rx'.tail = IF p.flag = "TAIL" THEN p.tail ELSE rx.tail
      BY <1>5, <1>9, <1>14, <3>1 DEF IsTail
    <3>. QED  BY <3>2, <3>4, <3>9, <3>10, NoEntryAssumption
  <2>. QED  BY <1>5, <1>14, <2>2, <2>3, <2>4, <2>5, <2>6 DEF TakesEarly
<1>15. ASSUME p.phase = 1 PROVE p.flag = "DATA" /\ replies' = replies
  BY <1>5, <1>8, <1>15 DEF SendReply
<1>16. ASSUME p.phase = 1, ~ hold PROVE TakesLate(p)
  <2>1. p.epoch = old.epoch /\ old.phase = 1
    BY <1>2, <1>5, <1>10, <1>11, <1>16
  <2>2. rx # None /\ old = rx /\ voq = None
    BY <1>3, <1>4, <1>6, <2>1
  <2>3. voq' = None /\ delivered' = Append(delivered, p.id)
    BY <1>5, <1>16, <2>2
  <2>4. /\ rx'.phase = 1 /\ rx'.phase0Tx = rx.phase0Tx /\ rx'.phase0Rx = rx.phase0Rx
        /\ (rx'.cache <=> rx.cache) /\ ~ rx'.reordering
    BY <1>5, <1>6, <1>8, <1>9, <1>10, <1>16, <2>1, <2>2 DEF RxPhase, IsTail
  <2>. QED  BY <1>15, <1>16, <2>1, <2>2, <2>3, <2>4 DEF TakesLate
<1>17. ASSUME p.phase = 1, hold PROVE Holds(p)
  <2>1. p.epoch > old.epoch \/ old.phase = 0
    BY <1>11, <1>17
  <2>2. voq' = Held(old, new, p) /\ delivered' = delivered
    BY <1>5, <1>17
  <2>3. /\ rx'.phase = 0 /\ rx'.tail = p.tail /\ rx'.reordering
        /\ rx'.phase0Tx = old.phase0Tx /\ rx'.phase0Rx = old.phase0Rx
        /\ rx'.cache <=> (old.cache /\ p.epoch = old.epoch)
    BY <1>2, <1>5, <1>8, <1>9, <1>10, <1>17, <2>1 DEF RxPhase, IsTail
  <2>4. rx # None /\ rx.epoch = p.epoch => rx.phase = 0
    BY <1>2, <1>3, <2>1
  <2>5. ASSUME voq # None
        PROVE  /\ voq' \in VoqType /\ voq'.queue = Append(voq.queue, p)
               /\ voq'.since = voq.since /\ voq'.flushAt = voq.flushAt
    <3>1. voq' = [voq EXCEPT !.queue = Append(@, p)] /\ voq \in VoqType
      BY <1>6, <2>2, <2>5 DEF Held
    <3>2. Append(voq.queue, p) \in Seq(Packet)
      BY <1>2, <3>1, AppendProperties DEF VoqType
    <3>. QED  BY <3>1, <3>2 DEF VoqType
  <2>6. ASSUME voq = None
        PROVE  /\ voq' \in VoqType /\ voq'.queue = <<p>> /\ voq'.since = now
               /\ LET due == IF rx'.cache
                             THEN rx'.phase0Rx + Gap(p.tail, rx'.phase0Tx) + ExtraVOQFlushTime
                             ELSE now + DefaultVOQWaitingTime + ExtraVOQFlushTime
                  IN  voq'.flushAt = IF now >= due THEN now ELSE due
    <3>. DEFINE due == TimeExpectedToFlush(new, p)
                d   == IF rx'.cache
                       THEN rx'.phase0Rx + Gap(p.tail, rx'.phase0Tx) + ExtraVOQFlushTime
                       ELSE now + DefaultVOQWaitingTime + ExtraVOQFlushTime
    <3>1. voq' = [queue |-> Append(<< >>, p), since |-> now, flushAt |-> Max({now, due})]
      BY <1>6, <2>2, <2>6 DEF Held
    <3>2. due = d
      BY <1>5, <1>8, <1>9, <1>17 DEF TimeExpectedToFlush, TimegapAtTx, Gap, IsTail
    <3>3. Gap(p.tail, rx'.phase0Tx) \in Nat
      BY <1>2, <1>10, <2>3 DEF Gap
    <3>4. d \in Nat
      BY <1>2, <1>10, <2>3, <3>3, Constants
    <3>. HIDE DEF d, due
    <3>5. Max({now, due}) = IF now >= d THEN now ELSE d
      BY <1>2, <3>2, <3>4, MaxOfTwo
    <3>6. Append(<< >>, p) = <<p>> /\ <<p>> \in Seq(Packet)
      BY <1>2
    <3>7. Max({now, due}) \in Nat
      BY <1>2, <3>4, <3>5
    <3>8. voq' \in VoqType
      BY <1>2, <3>1, <3>6, <3>7 DEF VoqType
    <3>9. voq'.queue = <<p>> /\ voq'.since = now /\ voq'.flushAt = IF now >= d THEN now ELSE d
      BY <3>1, <3>5, <3>6
    <3>. QED  BY <3>8, <3>9 DEF d
  <2>7. /\ rx'.phase0Tx = (IF rx = None THEN 0 ELSE rx.phase0Tx)
        /\ rx'.phase0Rx = (IF rx = None THEN 0 ELSE rx.phase0Rx)
        /\ rx'.cache <=> (rx # None /\ rx.epoch = p.epoch /\ rx.cache)
    BY <1>3, <1>4, <2>3
  <2>8. voq' \in VoqType /\ voq' # None
    BY <2>5, <2>6, NoEntryAssumption
  <2>9. delivered' = delivered /\ replies' = replies
    BY <1>15, <1>17, <2>2
  <2>. QED  BY <1>17, <2>3, <2>4, <2>5, <2>6, <2>7, <2>8, <2>9 DEF Holds
<1>. QED  BY <1>2, <1>13, <1>14, <1>16, <1>17

LEMMA TakesEarlyKeeps ==
    ASSUME IInv, TimesFit, NEW p, Arrives(p), Updates(p), TakesEarly(p)
    PROVE  IInv'
<1>1. Fields
  BY FieldsTyped DEF IInv
<1>2. /\ tx # None /\ now \in Nat /\ p.id \in 1 .. MaxPackets
      /\ p.id \in Nat /\ p.path \in Paths /\ p.epoch \in Nat /\ p.phase = 0
      /\ p.tx \in Nat /\ p.tail \in Nat /\ p.id <= sent /\ p.epoch >= 1 /\ p.epoch <= tx.epoch
      /\ p.tx <= now /\ p.tx <= tx.active /\ now <= p.tx + Latest(p.path)
      /\ now >= p.tx + MinDelay[p.path]
      /\ \A q \in InFlight' : q \in InFlight /\ q # p /\ q.id # p.id
  BY ArrivesFacts DEF Arrives, TakesEarly
<1>3. /\ p \in InFlight /\ UNCHANGED <<now, tx, aging, sent, outlived>>
      /\ \A q \in InFlight' : q.path = p.path => p.id < q.id
  BY DEF Arrives
<1>4. /\ rx' \in RxType /\ rx' # None /\ rx'.active = now /\ rx'.epoch = p.epoch
      /\ rx'.phase0Tx = p.tx /\ rx'.phase0Rx = now /\ rx'.cache
      /\ rx # None => rx.epoch <= p.epoch
      /\ failed' = failed /\ delivered' = Append(delivered, p.id)
      /\ replies' = replies \cup SendReply(p)
      /\ (rx'.phase = 0 \/ rx'.phase = 1)
  BY RxFields DEF Updates, TakesEarly
<1>5. voq # None =>
         /\ rx # None /\ rx.phase = 0 /\ rx.epoch = p.epoch /\ p.epoch = tx.epoch
         /\ tx.phase = 1 /\ rx.tail = tx.tail /\ rx.tail \in Nat
  BY <1>1 DEF Updates, IInv, HoldInv, Fields
<1>6. HeldIds' = HeldIds
  BY DEF HeldIds, TakesEarly
<1>7. \A q \in InFlight' : /\ q.id \in Nat /\ q.epoch \in Nat /\ (q.phase = 0 \/ q.phase = 1)
                           /\ q.tx \in Nat /\ q.path \in Paths /\ q.tail \in Nat
  BY <1>1, <1>2 DEF Fields
<1>8. Early(p, tx.epoch) /\ tx.epoch \in Nat /\ (tx.phase = 0 \/ tx.phase = 1)
  BY <1>1, <1>2 DEF Early, Fields
<1>9. \A q \in InFlight' : Early(q, tx.epoch) => q.path = p.path
  BY <1>2, <1>3, <1>8 DEF IInv, PairInv
<1>10. \A q \in InFlight' : p.id < q.id
  <2>. SUFFICES ASSUME NEW q \in InFlight', ~ (p.id < q.id) PROVE FALSE
    OBVIOUS
  <2>1. q.id < p.id
    BY <1>2, <1>7
  <2>2. q.epoch < p.epoch \/ (q.epoch = p.epoch /\ q.phase <= p.phase)
    BY <1>2, <1>3, <2>1 DEF IInv, PairInv
  <2>3. Early(q, tx.epoch)
    BY <1>2, <1>7, <1>8, <2>2 DEF Early
  <2>. QED  BY <1>3, <1>9, <2>3
<1>11. p.flag = "TAIL" => \A q \in InFlight' : ~ Early(q, p.epoch)
  BY <1>2, <1>3, <1>10 DEF IInv, PairInv
<1>12. \A q \in InFlight' : q.epoch = p.epoch /\ q.phase = 1 => p.tx <= q.tail
  BY <1>2, <1>3, <1>10 DEF IInv, PairInv
<1>13. /\ p.flag = "TAIL" => p.tail = p.tx
       /\ p.epoch = tx.epoch /\ p.flag = "TAIL" => tx.phase = 1 /\ p.tail = tx.tail
       /\ tx.phase = 0 => p.path = tx.path
       /\ tx.phase = 1 => p.tx <= tx.tail
  BY <1>3, <1>8 DEF IInv, FlightInv
<1>14. TxInv' /\ FlightInv' /\ PairInv' /\ FreshInv' /\ Lined(wire)'
       /\ \E q \in Paths : rx'.active <= tx'.active + Latest(q)
  BY <1>4, ArrivesKeeps
<1>15. voq = None => voq' = None /\ ~ rx'.reordering
  BY DEF TakesEarly
<1>16. voq # None =>
          /\ voq' \in VoqType /\ voq' # None /\ rx'.reordering /\ rx'.phase = 0
          /\ voq'.queue = voq.queue /\ voq'.since = voq.since /\ rx'.tail = rx.tail
          /\ p.flag = "TAIL" => voq'.flushAt = now
          /\ p.flag # "TAIL" => voq'.flushAt = now + Gap(rx.tail, p.tx) + ExtraVOQFlushTime
  BY <1>5, <1>13 DEF TakesEarly
<1>17. voq # None => Gap(rx.tail, p.tx) \in Nat /\ rx.tail - p.tx <= Gap(rx.tail, p.tx)
  BY <1>2, <1>5 DEF Gap
<1>18. HoldsWhileReordering' /\ AssertionsHold'
  BY <1>4, <1>15, <1>16 DEF IInv, HoldsWhileReordering, AssertionsHold
<1>19. ReplyInv'
  <2>1. ASSUME NEW r \in replies, r.flag = "TAIL", r.epoch = tx.epoch
        PROVE  FALSE
    <3>1. rx # None /\ rx.epoch = tx.epoch /\ ~ Early(p, tx.epoch)
      BY <1>3, <2>1 DEF IInv, ReplyInv
    <3>. QED  BY <1>8, <3>1
  <2>2. ASSUME NEW r \in replies
        PROVE  /\ r.since <= now /\ now <= r.since + ReplyDelay
               /\ r.phase = (IF r.flag = "TAIL" THEN 1 ELSE 0)
               /\ r.since <= rx'.active /\ r.epoch <= tx.epoch
               /\ \E q \in Paths : r.since <= tx.active + Latest(q)
    BY <1>4 DEF IInv, ReplyInv
  <2>3. ASSUME NEW r \in SendReply(p)
        PROVE  /\ r.since = now /\ r.epoch = p.epoch /\ r.flag = p.flag
               /\ r.phase = (IF r.flag = "TAIL" THEN 1 ELSE 0)
    BY DEF SendReply, IsTail
  <2>4. now <= now + ReplyDelay /\ now <= tx.active + Latest(p.path)
    BY <1>1, <1>2, Constants DEF Fields
  <2>5. ASSUME p.flag = "TAIL", p.epoch = tx.epoch
        PROVE  /\ tx.phase = 1 /\ \A q \in InFlight' : ~ Early(q, tx.epoch)
               /\ rx'.phase = 1 \/ (voq' # None /\ voq'.flushAt <= now)
    BY <1>2, <1>11, <1>13, <1>16, <2>5 DEF TakesEarly
  <2>6. \A r \in replies' : r \in replies \/ r \in SendReply(p)
    BY <1>4
  <2>7. ASSUME NEW r \in replies', r \in SendReply(p)
        PROVE  /\ r.since <= now /\ now <= r.since + ReplyDelay
               /\ r.phase = (IF r.flag = "TAIL" THEN 1 ELSE 0)
               /\ r.since <= rx'.active /\ r.epoch <= tx.epoch
               /\ \E q \in Paths : r.since <= tx.active + Latest(q)
               /\ r.flag = "TAIL" /\ r.epoch = tx.epoch =>
                     /\ tx.phase = 1 /\ \A q \in InFlight' : ~ Early(q, tx.epoch)
                     /\ rx'.phase = 1 \/ (voq' # None /\ voq'.flushAt <= r.since)
    <3>1. r.since = now /\ r.epoch = p.epoch /\ r.flag = p.flag
      BY <2>3, <2>7
    <3>2. \E q \in Paths : r.since <= tx.active + Latest(q)
      BY <1>2, <2>4, <3>1
    <3>3. r.flag = "TAIL" /\ r.epoch = tx.epoch =>
             /\ tx.phase = 1 /\ \A q \in InFlight' : ~ Early(q, tx.epoch)
             /\ rx'.phase = 1 \/ (voq' # None /\ voq'.flushAt <= r.since)
      BY <2>5, <3>1
    <3>4. r.since <= now /\ now <= r.since + ReplyDelay /\ r.since <= rx'.active /\ r.epoch <= tx.epoch
      BY <1>2, <1>4, <2>4, <3>1
    <3>. QED  BY <2>3, <2>7, <3>2, <3>3, <3>4
  <2>8. ASSUME NEW r \in replies', r.flag = "TAIL", r.epoch = tx.epoch
        PROVE  r \in SendReply(p) /\ p.epoch = tx.epoch
    BY <2>1, <2>3, <2>6, <2>8
  <2>9. ASSUME NEW r \in replies'
        PROVE  /\ r.since <= now' /\ now' <= r.since + ReplyDelay
               /\ r.phase = (IF r.flag = "TAIL" THEN 1 ELSE 0)
               /\ rx' # None /\ r.since <= rx'.active
               /\ tx' # None /\ r.epoch <= tx'.epoch
               /\ \E q \in Paths : r.since <= tx'.active + Latest(q)
    <3>1. CASE r \in replies
      BY <1>2, <1>3, <1>4, <2>2, <3>1
    <3>2. CASE r \in SendReply(p)
      BY <1>2, <1>3, <1>4, <2>7, <3>2
    <3>. QED  BY <2>6, <3>1, <3>2
  <2>10. ASSUME NEW r \in replies', r.flag = "TAIL", r.epoch = tx'.epoch
         PROVE  /\ tx'.phase = 1
                /\ \A q \in InFlight' : ~ Early(q, tx'.epoch)
                /\ rx'.epoch = tx'.epoch
                /\ rx'.phase = 1 \/ (voq' # None /\ voq'.flushAt <= r.since)
    BY <1>3, <1>4, <2>7, <2>8, <2>10
  <2>. QED  BY <2>9, <2>10 DEF ReplyInv
<1>20. SettledInv'
  <2>1. ASSUME tx.stabilized, tx.phase = 1 PROVE rx'.epoch = tx.epoch /\ rx'.phase = 1
    <3>1. ~ Fresh /\ ~ Idle
      BY <1>3, <2>1 DEF Fresh, Idle
    <3>2. rx # None
      BY <3>1 DEF IInv, FreshInv
    <3>3. rx.epoch = tx.epoch /\ rx.phase = 1
      BY <1>2, <2>1, <3>2 DEF IInv, SettledInv
    <3>. QED  BY <1>1, <1>2, <1>4, <3>2, <3>3 DEF TakesEarly, Fields
  <2>2. ASSUME NEW q \in InFlight', q.phase = 1, q.epoch < tx.epoch
        PROVE  rx'.epoch > q.epoch \/ (rx'.epoch = q.epoch /\ rx'.phase = 1)
    <3>1. rx # None /\ (rx.epoch > q.epoch \/ (rx.epoch = q.epoch /\ rx.phase = 1))
      BY <1>2, <2>2 DEF IInv, SettledInv
    <3>2. q.epoch \in Nat /\ rx.epoch \in Nat /\ p.epoch \in Nat
      BY <1>1, <1>2, <1>7, <3>1 DEF Fields
    <3>3. rx'.epoch = p.epoch /\ rx.epoch <= p.epoch
      BY <1>4, <3>1
    <3>4. CASE p.epoch > q.epoch
      BY <3>3, <3>4
    <3>5. CASE ~ (p.epoch > q.epoch)
      <4>1. rx.epoch = q.epoch /\ rx.epoch = p.epoch /\ rx.phase = 1
        BY <3>1, <3>2, <3>3, <3>5
      <4>2. rx'.phase = 1
        BY <3>1, <4>1 DEF TakesEarly
      <4>. QED  BY <3>3, <4>1, <4>2
    <3>. QED  BY <3>4, <3>5
  <2>. QED  BY <1>3, <1>4, <2>1, <2>2 DEF SettledInv
<1>21. RxInv'
  <2>1. now <= p.tx + Latest(p.path)
    BY <1>2
  <2>. QED  BY <1>2, <1>3, <1>4, <1>12, <1>13, <1>14 DEF RxInv
<1>22. HoldInv'
  <2>. SUFFICES ASSUME voq # None
                PROVE  /\ \E q \in Paths : rx'.tail + MinDelay[q] <= voq'.since
                       /\ voq'.since <= now
                       /\ now <= voq'.flushAt
                       /\ voq'.flushAt <= voq'.since + DefaultVOQWaitingTime + ExtraVOQFlushTime
    BY <1>2, <1>3, <1>4, <1>5, <1>15, <1>16 DEF HoldInv
  <2>1. PICK q \in Paths : rx.tail + MinDelay[q] <= voq.since
    BY DEF IInv, HoldInv
  <2>2. Latest(p.path) <= MinDelay[q] + DefaultVOQWaitingTime
    BY <1>2 DEF TimesFit
  <2>3. voq.since \in Nat /\ voq.since <= now
    BY HoldFacts
  <2>4. p.tx <= rx.tail
    BY <1>5, <1>13
  <2>5. Gap(rx.tail, p.tx) = rx.tail - p.tx
    BY <1>2, <1>5, <2>4 DEF Gap
  <2>6. now + (rx.tail - p.tx) <= rx.tail + Latest(p.path)
    BY <1>2, <1>5, Constants DEF Latest
  <2>7. rx.tail + Latest(p.path) <= voq.since + DefaultVOQWaitingTime
    BY <1>2, <1>5, <2>1, <2>2, <2>3, Constants DEF Latest
  <2>8. now + Gap(rx.tail, p.tx) <= voq.since + DefaultVOQWaitingTime
    BY <1>2, <1>5, <2>3, <2>5, <2>6, <2>7, Constants DEF Latest
  <2>9. now <= voq'.flushAt
    BY <1>2, <1>16, <1>17, Constants
  <2>10. voq'.flushAt <= voq.since + DefaultVOQWaitingTime + ExtraVOQFlushTime
    <3>1. CASE p.flag = "TAIL"
      <4>1. voq.flushAt <= voq.since + DefaultVOQWaitingTime + ExtraVOQFlushTime /\ now <= voq.flushAt
        BY DEF IInv, HoldInv
      <4>2. voq'.flushAt = now /\ voq.flushAt \in Nat
        BY <1>1, <1>16, <3>1 DEF Fields
      <4>. QED  BY <1>2, <2>3, <4>1, <4>2, Constants
    <3>2. CASE p.flag # "TAIL"
      <4>1. voq'.flushAt = now + Gap(rx.tail, p.tx) + ExtraVOQFlushTime
        BY <1>16, <3>2
      <4>. QED  BY <1>2, <1>17, <2>3, <2>8, <4>1, Constants
    <3>. QED  BY <3>1, <3>2
  <2>. QED  BY <1>16, <2>1, <2>3, <2>9, <2>10
<1>23. /\ ~ outlived' => EpochInv' /\ WaitInv' /\ HeldInv' /\ DeliveredInv'
       /\ delivered' \in Seq(1 .. MaxPackets)
  <2>1. delivered' \in Seq(1 .. MaxPackets)
    BY <1>2, <1>4, AppendProperties DEF IInv, Types
  <2>. SUFFICES ASSUME ~ outlived
                PROVE  EpochInv' /\ WaitInv' /\ HeldInv' /\ DeliveredInv'
    BY <1>3, <2>1
  <2>2. EpochInv /\ WaitInv /\ DeliveredInv /\ HeldInv
    BY DEF IInv, OrderInv
  <2>3. EpochInv'
    <3>1. rx'.phase = 1 /\ p.epoch = tx.epoch => tx.phase = 1
      BY <1>2, <1>13, <2>2 DEF TakesEarly, EpochInv
    <3>2. tx.phase = 0 => now >= p.tx + MinDelay[tx.path]
      BY <1>2, <1>13
    <3>3. \A q \in InFlight' : Early(q, tx.epoch) => now >= p.tx + MinDelay[q.path]
      BY <1>2, <1>9
    <3>. QED  BY <1>2, <1>3, <1>4, <3>1, <3>2, <3>3 DEF EpochInv
  <2>4. rx'.phase = 1 => \A q \in InFlight' : ~ Early(q, p.epoch)
    BY <1>2, <1>11, <2>2 DEF TakesEarly, WaitInv
  <2>5. ASSUME voq # None, NEW q \in InFlight', Early(q, p.epoch)
        PROVE  voq'.flushAt > rx'.tail + Latest(q.path)
    <3>1. p.flag # "TAIL" /\ q.path = p.path
      BY <1>5, <1>9, <1>11, <2>5
    <3>2. voq'.flushAt = now + Gap(rx.tail, p.tx) + ExtraVOQFlushTime /\ rx'.tail = rx.tail
      BY <1>16, <2>5, <3>1
    <3>3. now + Gap(rx.tail, p.tx) >= rx.tail + MinDelay[p.path]
      BY <1>2, <1>5, <1>17, <2>5, Constants
    <3>4. Jitter < ExtraVOQFlushTime
      BY DEF TimesFit
    <3>. QED  BY <1>2, <1>5, <1>17, <2>5, <3>1, <3>2, <3>3, <3>4, Constants DEF Latest
  <2>6. WaitInv'
    BY <1>4, <1>15, <2>4, <2>5 DEF WaitInv
  <2>7. HeldInv'
    BY <1>2, <1>3, <1>4, <1>5, <1>6, <1>15, <1>16, <2>2 DEF HeldInv
  <2>8. \A h \in HeldIds' : h \in HeldIds /\ p.id < h
    <3>1. voq # None => Early(p, rx.epoch)
      BY <1>2, <1>5 DEF Early
    <3>2. voq = None => HeldIds = {}
      BY DEF HeldIds
    <3>. QED  BY <1>3, <1>6, <2>2, <3>1, <3>2 DEF HeldInv
  <2>9. \A k \in DOMAIN delivered : delivered[k] < p.id
    BY <1>3, <2>2 DEF DeliveredInv
  <2>10. DeliveredInv'
    BY <1>2, <1>3, <1>4, <1>10, <2>2, <2>8, <2>9, PassOnKeepsOrder DEF IInv
  <2>. QED  BY <2>3, <2>6, <2>7, <2>10
<1>24. Types'
  <2>1. SendReply(p) \subseteq ReplyType
    <3>1. p.flag \in Flags /\ 0 \in 0 .. 1 /\ 1 \in 0 .. 1
      BY PacketFields DEF Arrives
    <3>. QED  BY <1>2, <3>1 DEF SendReply, ReplyType
  <2>2. replies' \subseteq ReplyType
    BY <1>4, <2>1 DEF IInv, Types
  <2>3. voq' = None \/ voq' \in VoqType
    BY <1>15, <1>16
  <2>4. wire' \in [Paths -> Seq(Packet)]
    BY DEF Arrives
  <2>. QED  BY <1>3, <1>4, <1>23, <2>2, <2>3, <2>4 DEF IInv, Types
<1>. QED  BY <1>14, <1>18, <1>19, <1>20, <1>21, <1>22, <1>23, <1>24 DEF IInv, OrderInv

LEMMA TakesLateKeeps ==
    ASSUME IInv, TimesFit, NEW p, Arrives(p), Updates(p), TakesLate(p)
    PROVE  IInv'
<1>1. Fields
  BY FieldsTyped DEF IInv
<1>2. /\ tx # None /\ now \in Nat /\ p.id \in 1 .. MaxPackets
      /\ p.id \in Nat /\ p.path \in Paths /\ p.epoch \in Nat /\ p.phase = 1
      /\ p.tx \in Nat /\ p.tail \in Nat /\ p.id <= sent /\ p.epoch >= 1 /\ p.epoch <= tx.epoch
      /\ \A q \in InFlight' : q \in InFlight /\ q # p /\ q.id # p.id
  BY ArrivesFacts DEF TakesLate
<1>3. /\ p \in InFlight /\ UNCHANGED <<now, tx, aging, sent, outlived>>
      /\ \A q \in InFlight' : q.path = p.path => p.id < q.id
  BY DEF Arrives
<1>4. /\ rx' \in RxType /\ rx' # None /\ rx'.active = now /\ rx'.epoch = rx.epoch
      /\ rx # None /\ rx.epoch = p.epoch /\ rx.phase = 1 /\ rx'.phase = 1
      /\ rx'.phase0Tx = rx.phase0Tx /\ rx'.phase0Rx = rx.phase0Rx
      /\ (rx'.cache <=> rx.cache) /\ ~ rx'.reordering
      /\ voq = None /\ voq' = None
      /\ failed' = failed /\ delivered' = Append(delivered, p.id) /\ replies' = replies
  BY DEF Updates, TakesLate
<1>5. HeldIds' = {}
  BY <1>4 DEF HeldIds
<1>6. TxInv' /\ FlightInv' /\ PairInv' /\ FreshInv' /\ Lined(wire)'
      /\ \E q \in Paths : rx'.active <= tx'.active + Latest(q)
  BY <1>4, ArrivesKeeps
<1>7. HoldsWhileReordering' /\ AssertionsHold' /\ HoldInv' /\ HeldInv'
  BY <1>4 DEF IInv, HoldsWhileReordering, AssertionsHold, HoldInv, HeldInv
<1>8. ReplyInv'
  <2>1. ASSUME NEW r \in replies PROVE r.since <= rx'.active
    BY <1>4 DEF IInv, ReplyInv
  <2>. QED  BY <1>2, <1>3, <1>4, <2>1 DEF IInv, ReplyInv
<1>9. SettledInv'
  BY <1>2, <1>3, <1>4 DEF IInv, SettledInv
<1>10. RxInv'
  BY <1>1, <1>2, <1>3, <1>4, <1>6 DEF IInv, RxInv, Fields
<1>11. /\ ~ outlived' => EpochInv' /\ WaitInv' /\ DeliveredInv'
       /\ delivered' \in Seq(1 .. MaxPackets)
  <2>1. delivered' \in Seq(1 .. MaxPackets)
    BY <1>2, <1>4, AppendProperties DEF IInv, Types
  <2>. SUFFICES ASSUME ~ outlived
                PROVE  EpochInv' /\ WaitInv' /\ DeliveredInv'
    BY <1>3, <2>1
  <2>2. EpochInv /\ WaitInv /\ DeliveredInv
    BY DEF IInv, OrderInv
  <2>3. EpochInv'
    BY <1>2, <1>3, <1>4, <2>2 DEF EpochInv
  <2>4. WaitInv'
    BY <1>2, <1>4, <2>2 DEF WaitInv
  <2>5. ASSUME NEW q \in InFlight' PROVE q \in InFlight /\ p.id < q.id
    <3>0. q \in InFlight /\ q.id # p.id /\ q.id \in Nat /\ q.epoch \in Nat /\ (q.phase = 0 \/ q.phase = 1)
      BY <1>1, <1>2 DEF Fields
    <3>1. ~ Early(q, p.epoch)
      BY <1>4, <3>0, <2>2 DEF WaitInv
    <3>2. ASSUME q.id < p.id PROVE FALSE
      <4>1. q.epoch = p.epoch /\ q.phase = 1
        BY <1>2, <1>3, <3>0, <3>1, <3>2 DEF IInv, PairInv, Early
      <4>2. CASE p.epoch = tx.epoch
        <5>1. p.path = tx.path /\ q.path = tx.path
          BY <1>2, <1>3, <3>0, <4>1, <4>2 DEF IInv, FlightInv
        <5>. QED  BY <1>2, <1>3, <3>0, <3>2, <5>1
      <4>3. CASE p.epoch # tx.epoch
        <5>1. Early(p, tx.epoch) /\ Early(q, tx.epoch)
          BY <1>1, <1>2, <4>1, <4>3 DEF Early, Fields
        <5>2. p.path = q.path
          BY <1>3, <3>0, <5>1 DEF IInv, PairInv
        <5>. QED  BY <1>2, <1>3, <3>0, <3>2, <5>2
      <4>. QED  BY <4>2, <4>3
    <3>. QED  BY <1>2, <3>0, <3>2
  <2>6. \A k \in DOMAIN delivered : delivered[k] < p.id
    BY <1>3, <2>2 DEF DeliveredInv
  <2>7. DeliveredInv'
    BY <1>2, <1>3, <1>4, <1>5, <2>2, <2>5, <2>6, PassOnKeepsOrder DEF IInv
  <2>. QED  BY <2>3, <2>4, <2>7
<1>12. Types'
  BY <1>3, <1>4, <1>11 DEF Arrives, IInv, Types
<1>. QED  BY <1>6, <1>7, <1>8, <1>9, <1>10, <1>11, <1>12 DEF IInv, OrderInv

LEMMA HoldsKeeps ==
    ASSUME IInv, TimesFit, NEW p, Arrives(p), Updates(p), Holds(p)
    PROVE  IInv'
<1>1. Fields
  BY FieldsTyped DEF IInv
<1>2. /\ tx # None /\ now \in Nat /\ p \in Packet
      /\ p.id \in Nat /\ p.path \in Paths /\ p.epoch \in Nat /\ p.phase = 1
      /\ p.tx \in Nat /\ p.tail \in Nat /\ p.id <= sent /\ p.epoch >= 1 /\ p.epoch <= tx.epoch
      /\ p.tx <= now /\ now >= p.tx + MinDelay[p.path]
      /\ \A q \in InFlight' : q \in InFlight /\ q # p /\ q.id # p.id
  BY ArrivesFacts DEF Arrives, Holds
<1>3. /\ p \in InFlight /\ UNCHANGED <<now, tx, aging, sent, outlived>>
      /\ \A q \in InFlight' : q.path = p.path => p.id < q.id
  BY DEF Arrives
<1>4. /\ rx' \in RxType /\ rx' # None /\ rx'.active = now /\ rx'.epoch = p.epoch
      /\ rx'.phase = 0 /\ rx'.tail = p.tail /\ rx'.reordering
      /\ rx # None => rx.epoch <= p.epoch
      /\ rx # None /\ rx.epoch = p.epoch => rx.phase = 0
      /\ rx'.phase0Tx = (IF rx = None THEN 0 ELSE rx.phase0Tx)
      /\ rx'.phase0Rx = (IF rx = None THEN 0 ELSE rx.phase0Rx)
      /\ rx'.cache <=> (rx # None /\ rx.epoch = p.epoch /\ rx.cache)
      /\ voq' \in VoqType /\ voq' # None
      /\ failed' = failed /\ delivered' = delivered /\ replies' = replies
  BY DEF Updates, Holds
<1>5. voq # None => /\ voq'.queue = Append(voq.queue, p)
                    /\ voq'.since = voq.since /\ voq'.flushAt = voq.flushAt
  BY DEF Holds
<1>6. p.epoch = tx.epoch
  <2>1. ASSUME p.epoch < tx.epoch PROVE FALSE
    <3>1. rx # None /\ (rx.epoch > p.epoch \/ (rx.epoch = p.epoch /\ rx.phase = 1))
      BY <1>2, <1>3, <2>1 DEF IInv, SettledInv
    <3>. QED  BY <1>1, <1>2, <1>4, <3>1 DEF Fields
  <2>. QED  BY <1>1, <1>2, <2>1 DEF Fields
<1>7. p.path = tx.path /\ tx.phase = 1 /\ p.tail = tx.tail /\ p.tail <= p.tx
  BY <1>2, <1>3, <1>6 DEF IInv, FlightInv
<1>8. \A q \in InFlight' : /\ q.id \in Nat /\ q.epoch \in Nat /\ (q.phase = 0 \/ q.phase = 1)
                           /\ q.tx \in Nat /\ q.path \in Paths /\ q.tail \in Nat
  BY <1>1, <1>2 DEF Fields
<1>9. rx'.phase0Tx \in Nat /\ rx'.phase0Rx \in Nat /\ rx'.phase0Tx <= now /\ rx'.phase0Rx <= now
  BY <1>1, <1>4 DEF IInv, RxInv, Fields
<1>10. voq # None => /\ rx # None /\ rx.epoch = p.epoch /\ rx.tail = p.tail
                     /\ now <= voq.flushAt /\ voq.flushAt \in Nat /\ voq.since <= now
                     /\ voq.flushAt <= voq.since + DefaultVOQWaitingTime + ExtraVOQFlushTime
                     /\ \E q \in Paths : rx.tail + MinDelay[q] <= voq.since
  BY <1>1, <1>6, <1>7, HoldFacts DEF IInv, HoldInv, Fields
<1>. DEFINE due == IF rx'.cache
                   THEN rx'.phase0Rx + Gap(p.tail, rx'.phase0Tx) + ExtraVOQFlushTime
                   ELSE now + DefaultVOQWaitingTime + ExtraVOQFlushTime
<1>11. voq = None => voq'.queue = <<p>> /\ voq'.since = now /\ voq'.flushAt = IF now >= due THEN now ELSE due
  BY DEF Holds
<1>12. /\ Gap(p.tail, rx'.phase0Tx) \in Nat
       /\ p.tail - rx'.phase0Tx <= Gap(p.tail, rx'.phase0Tx)
       /\ Gap(p.tail, rx'.phase0Tx) = 0 \/ Gap(p.tail, rx'.phase0Tx) = p.tail - rx'.phase0Tx
  BY <1>2, <1>9 DEF Gap
<1>13. due \in Nat
  BY <1>2, <1>9, <1>12, Constants
<1>14. HeldIds' = HeldIds \cup {p.id}
  <2>1. CASE voq = None
    <3>1. voq'.queue = <<p>> /\ DOMAIN <<p>> = {1} /\ <<p>>[1] = p
      BY <1>11, <2>1
    <3>. QED  BY <1>4, <2>1, <3>1 DEF HeldIds
  <2>2. CASE voq # None
    <3>. DEFINE s == voq.queue
                n == Len(s)
    <3>1. s \in Seq(Packet) /\ n \in Nat /\ DOMAIN s = 1 .. n
      BY <2>2 DEF IInv, Types, VoqType
    <3>2. /\ DOMAIN Append(s, p) = 1 .. n + 1 /\ Append(s, p)[n + 1] = p
          /\ \A k \in 1 .. n : Append(s, p)[k] = s[k]
      BY <1>2, <3>1, AppendProperties
    <3>3. HeldIds = {s[k].id : k \in 1 .. n}
      BY <2>2, <3>1 DEF HeldIds
    <3>4. HeldIds' = {Append(s, p)[k].id : k \in 1 .. n + 1}
      BY <1>4, <1>5, <2>2, <3>2 DEF HeldIds
    <3>. HIDE DEF s, n
    <3>5. \A k \in 1 .. n + 1 : k \in 1 .. n \/ k = n + 1
      BY <3>1
    <3>6. \A k \in 1 .. n : k \in 1 .. n + 1
      BY <3>1
    <3>7. n + 1 \in 1 .. n + 1
      BY <3>1
    <3>. QED  BY <3>2, <3>3, <3>4, <3>5, <3>6, <3>7
  <2>. QED  BY <2>1, <2>2
<1>15. TxInv' /\ FlightInv' /\ PairInv' /\ FreshInv' /\ Lined(wire)'
       /\ \E q \in Paths : rx'.active <= tx'.active + Latest(q)
  BY <1>4, ArrivesKeeps
<1>16. HoldsWhileReordering' /\ AssertionsHold'
  BY <1>4 DEF IInv, HoldsWhileReordering, AssertionsHold
<1>17. ReplyInv'
  <2>1. ASSUME NEW r \in replies PROVE r.since <= rx'.active
    BY <1>4 DEF IInv, ReplyInv
  <2>2. ASSUME NEW r \in replies, r.flag = "TAIL", r.epoch = tx.epoch
        PROVE  voq # None /\ voq.flushAt <= r.since
    BY <1>4, <1>6, <2>2 DEF IInv, ReplyInv
  <2>. QED  BY <1>2, <1>3, <1>4, <1>5, <1>6, <2>1, <2>2 DEF IInv, ReplyInv
<1>18. SettledInv'
  <2>1. ~ tx.stabilized
    <3>1. ASSUME tx.stabilized PROVE FALSE
      <4>1. ~ Fresh /\ ~ Idle
        BY <1>3, <3>1 DEF Fresh, Idle
      <4>2. rx # None
        BY <4>1 DEF IInv, FreshInv
      <4>3. rx.epoch = tx.epoch /\ rx.phase = 1
        BY <1>2, <1>7, <3>1, <4>2 DEF IInv, SettledInv
      <4>. QED  BY <1>4, <1>6, <4>2, <4>3
    <3>. QED  BY <3>1
  <2>. QED  BY <1>1, <1>2, <1>3, <1>4, <1>6, <2>1 DEF SettledInv, Fields
<1>19. RxInv'
  <2>1. ASSUME rx'.cache
        PROVE  /\ \E q \in Paths : rx'.phase0Rx <= rx'.phase0Tx + Latest(q)
               /\ \A q \in InFlight' : q.phase = 1 /\ q.epoch = rx'.epoch => rx'.phase0Tx <= q.tail
               /\ rx'.phase0Tx <= tx.tail
    BY <1>2, <1>4, <1>6, <1>7, <2>1 DEF IInv, RxInv
  <2>. QED  BY <1>2, <1>3, <1>4, <1>9, <1>15, <2>1 DEF RxInv
<1>20. p.tail + MinDelay[p.path] <= now
  BY <1>2, <1>7, Constants
<1>21. HoldInv'
  <2>1. now <= voq'.flushAt
    BY <1>2, <1>5, <1>10, <1>11, <1>13
  <2>2. /\ voq'.since <= now
        /\ voq'.flushAt <= voq'.since + DefaultVOQWaitingTime + ExtraVOQFlushTime
        /\ \E q \in Paths : rx'.tail + MinDelay[q] <= voq'.since
    <3>1. CASE voq # None
      BY <1>4, <1>5, <1>10, <3>1
    <3>2. CASE voq = None
      <4>1. due <= now + DefaultVOQWaitingTime + ExtraVOQFlushTime
        <5>1. CASE ~ rx'.cache
          BY <1>2, <5>1, Constants
        <5>2. CASE rx'.cache
          <6>1. PICK q \in Paths : rx'.phase0Rx <= rx'.phase0Tx + Latest(q)
            BY <1>4, <5>2 DEF IInv, RxInv
          <6>2. Latest(q) <= MinDelay[p.path] + DefaultVOQWaitingTime
            BY <1>2 DEF TimesFit
          <6>3. rx'.phase0Rx + (p.tail - rx'.phase0Tx) <= now + DefaultVOQWaitingTime
            BY <1>2, <1>9, <1>20, <6>1, <6>2, Constants
          <6>4. rx'.phase0Rx + Gap(p.tail, rx'.phase0Tx) <= now + DefaultVOQWaitingTime
            BY <1>2, <1>9, <1>12, <6>3, Constants
          <6>. QED  BY <1>2, <1>9, <1>12, <5>2, <6>4, Constants
        <5>. QED  BY <5>1, <5>2
      <4>2. now <= now + DefaultVOQWaitingTime + ExtraVOQFlushTime
        BY <1>2, Constants
      <4>3. now <= now
        BY <1>2
      <4>. QED  BY <1>2, <1>4, <1>11, <1>20, <3>2, <4>1, <4>2, <4>3
    <3>. QED  BY <3>1, <3>2
  <2>. QED  BY <1>2, <1>3, <1>4, <1>6, <1>7, <2>1, <2>2 DEF HoldInv
<1>22. ~ outlived' => EpochInv' /\ WaitInv' /\ HeldInv' /\ DeliveredInv'
  <2>. SUFFICES ASSUME ~ outlived
                PROVE  EpochInv' /\ WaitInv' /\ HeldInv' /\ DeliveredInv'
    BY <1>3
  <2>1. EpochInv /\ WaitInv /\ DeliveredInv /\ HeldInv
    BY DEF IInv, OrderInv
  <2>2. EpochInv'
    <3>1. ASSUME rx'.cache
          PROVE  \A q \in InFlight' : Early(q, tx.epoch) => rx'.phase0Rx >= rx'.phase0Tx + MinDelay[q.path]
      BY <1>2, <1>4, <1>6, <2>1, <3>1 DEF EpochInv
    <3>2. tx.epoch <= tx.epoch
      BY <1>2, <1>6
    <3>. QED  BY <1>3, <1>4, <1>6, <1>7, <3>1, <3>2 DEF EpochInv
  <2>3. ASSUME NEW q \in InFlight', Early(q, p.epoch)
        PROVE  voq'.flushAt > p.tail + Latest(q.path)
    <3>0. q.path \in Paths /\ MinDelay[q.path] \in Nat /\ MinDelay[p.path] \in Nat
          /\ Latest(q.path) = MinDelay[q.path] + Jitter
      BY <1>2, <1>8, Constants DEF Latest
    <3>1. CASE voq # None
      BY <1>2, <1>5, <1>10, <2>1, <2>3, <3>1 DEF WaitInv
    <3>2. CASE voq = None
      <4>1. due > p.tail + Latest(q.path)
        <5>1. CASE ~ rx'.cache
          <6>1. Latest(q.path) <= MinDelay[p.path] + DefaultVOQWaitingTime /\ Jitter < ExtraVOQFlushTime
            BY <1>2, <3>0 DEF TimesFit
          <6>. QED  BY <1>2, <1>20, <3>0, <5>1, <6>1, Constants
        <5>2. CASE rx'.cache
          <6>1. rx'.phase0Rx >= rx'.phase0Tx + MinDelay[q.path]
            BY <1>2, <1>4, <1>6, <2>1, <2>3, <5>2 DEF EpochInv
          <6>2. rx'.phase0Rx + Gap(p.tail, rx'.phase0Tx) >= p.tail + MinDelay[q.path]
            BY <1>2, <1>9, <1>12, <3>0, <6>1
          <6>3. Jitter < ExtraVOQFlushTime
            BY DEF TimesFit
          <6>. QED  BY <1>2, <1>9, <1>12, <3>0, <5>2, <6>2, <6>3, Constants
        <5>. QED  BY <5>1, <5>2
      <4>2. voq'.flushAt >= due
        BY <1>2, <1>11, <1>13, <3>2
      <4>3. voq'.flushAt \in Nat
        BY <1>4 DEF VoqType
      <4>. QED  BY <1>2, <1>13, <3>0, <4>1, <4>2, <4>3, Constants
    <3>. QED  BY <3>1, <3>2
  <2>4. WaitInv'
    BY <1>4, <2>3 DEF WaitInv
  <2>5. ASSUME NEW q \in InFlight' PROVE IF Early(q, p.epoch) THEN q.id < p.id ELSE p.id < q.id
    <3>0. q \in InFlight /\ q.id # p.id /\ q.id \in Nat /\ q.epoch \in Nat /\ (q.phase = 0 \/ q.phase = 1)
          /\ q.epoch <= tx.epoch
      BY <1>1, <1>2 DEF IInv, FlightInv, Fields
    <3>1. CASE Early(q, p.epoch)
      <4>1. ~ (p.id < q.id)
        BY <1>2, <1>3, <3>0, <3>1 DEF IInv, PairInv, Early
      <4>. QED  BY <1>2, <3>0, <3>1, <4>1
    <3>2. CASE ~ Early(q, p.epoch)
      <4>1. q.epoch = tx.epoch /\ q.phase = 1
        BY <1>1, <1>2, <1>6, <3>0, <3>2 DEF Early, Fields
      <4>2. q.path = p.path
        BY <1>7, <3>0, <4>1 DEF IInv, FlightInv
      <4>. QED  BY <1>3, <3>2, <4>2
    <3>. QED  BY <3>1, <3>2
  <2>6. \A h \in HeldIds : /\ voq # None /\ h < p.id /\ h <= sent
                           /\ \A q \in InFlight' : IF Early(q, p.epoch) THEN q.id < h ELSE h < q.id
    <3>1. voq = None => HeldIds = {}
      BY DEF HeldIds
    <3>2. voq # None => ~ Early(p, rx.epoch)
      BY <1>2, <1>10 DEF Early
    <3>. QED  BY <1>2, <1>3, <1>10, <2>1, <3>1, <3>2 DEF HeldInv
  <2>7. \A j, k \in DOMAIN voq'.queue : j < k => voq'.queue[j].id < voq'.queue[k].id
    <3>1. CASE voq = None
      <4>1. voq'.queue = <<p>> /\ DOMAIN <<p>> = {1}
        BY <1>11, <3>1
      <4>2. ~ (1 < 1)
        OBVIOUS
      <4>. QED  BY <4>1, <4>2
    <3>2. CASE voq # None
      <4>. DEFINE s == voq.queue
                  n == Len(s)
      <4>1. s \in Seq(Packet) /\ n \in Nat /\ DOMAIN s = 1 .. n
        BY <3>2 DEF IInv, Types, VoqType
      <4>2. /\ DOMAIN Append(s, p) = 1 .. n + 1 /\ Append(s, p)[n + 1] = p
            /\ \A k \in 1 .. n : Append(s, p)[k] = s[k]
        BY <1>2, <4>1, AppendProperties
      <4>3. /\ \A j, k \in 1 .. n : j < k => s[j].id < s[k].id
            /\ \A k \in 1 .. n : s[k].id < p.id
        <5>1. \A k \in 1 .. n : s[k].id \in HeldIds
          BY <3>2, <4>1 DEF HeldIds
        <5>. QED  BY <2>1, <2>6, <3>2, <4>1, <5>1 DEF HeldInv
      <4>4. voq'.queue = Append(s, p)
        BY <1>5, <3>2
      <4>. HIDE DEF s, n
      <4>5. ASSUME NEW j \in 1 .. n + 1, NEW k \in 1 .. n + 1, j < k
            PROVE  Append(s, p)[j].id < Append(s, p)[k].id
        <5>1. j \in 1 .. n /\ (k \in 1 .. n \/ k = n + 1)
          BY <4>1, <4>5
        <5>. QED  BY <4>2, <4>3, <4>5, <5>1
      <4>. QED  BY <4>2, <4>4, <4>5
    <3>. QED  BY <3>1, <3>2
  <2>8. HeldInv'
    BY <1>2, <1>3, <1>4, <1>14, <2>5, <2>6, <2>7 DEF HeldInv
  <2>9. DeliveredInv'
    BY <1>2, <1>3, <1>4, <1>14, <2>1 DEF DeliveredInv
  <2>. QED  BY <2>2, <2>4, <2>8, <2>9
<1>23. Types'
  <2>1. wire' \in [Paths -> Seq(Packet)]
    BY DEF Arrives
  <2>. QED  BY <1>3, <1>4, <2>1 DEF IInv, Types
<1>. QED  BY <1>15, <1>16, <1>17, <1>18, <1>19, <1>21, <1>22, <1>23 DEF IInv, OrderInv

LEMMA ReceiveDataKeeps == ASSUME IInv, TimesFit, ReceiveData PROVE IInv'
<1>1. PICK p : /\ Arrives(p)
               /\ PreviousEpoch(Entry(rx, NewRx), p) \/ CurrentOrNewEpoch(Entry(rx, NewRx), p)
  BY ReceiveDataSteps
<1>2. CASE PreviousEpoch(Entry(rx, NewRx), p)
  BY <1>1, <1>2, PreviousEpochKeeps
<1>3. CASE CurrentOrNewEpoch(Entry(rx, NewRx), p)
  <2>1. Updates(p) /\ (TakesEarly(p) \/ TakesLate(p) \/ Holds(p))
    BY <1>1, <1>3, CurrentOrNewEpochSteps
  <2>. QED  BY <1>1, <2>1, TakesEarlyKeeps, TakesLateKeeps, HoldsKeeps
<1>. QED  BY <1>1, <1>2, <1>3

-----------------------------------------------------------------------------
(* Every step keeps the invariant                                          *)

LEMMA IInvInductive ==
    ASSUME TimesFit
    PROVE  IInv /\ BeforeMaxTime /\ [ConWeaveNext]_conWeaveVars => IInv'
<1>. SUFFICES ASSUME IInv, BeforeMaxTime, [ConWeaveNext]_conWeaveVars
              PROVE  IInv'
  OBVIOUS
<1>1. CASE SendData
  BY <1>1, SendDataKeeps
<1>2. CASE ReceiveReply
  BY <1>2, ReceiveReplyKeeps
<1>3. CASE ReceiveData
  BY <1>3, ReceiveDataKeeps
<1>4. CASE FlushVOQ
  BY <1>4, FlushVOQKeeps
<1>5. CASE AgingEventTx
  BY <1>5, AgingEventTxKeeps
<1>6. CASE AgingEventRx
  BY <1>6, AgingEventRxKeeps
<1>7. CASE Tick
  BY <1>7, TickKeeps
<1>8. CASE UNCHANGED conWeaveVars
  <2>1. InFlight' = InFlight /\ HeldIds' = HeldIds
    BY <1>8 DEF conWeaveVars, InFlight, HeldIds
  <2>2. UNCHANGED <<now, tx, rx, voq, wire, replies, aging, sent, delivered, failed, outlived>>
    BY <1>8 DEF conWeaveVars
  <2>3. TxInv' /\ FlightInv' /\ PairInv' /\ ReplyInv' /\ SettledInv'
    BY <2>1, <2>2 DEF IInv, TxInv, FlightInv, PairInv, ReplyInv, SettledInv
  <2>4. RxInv' /\ HoldInv' /\ FreshInv' /\ OrderInv'
    BY <2>1, <2>2 DEF IInv, RxInv, HoldInv, FreshInv, Fresh, Idle, OrderInv, EpochInv, WaitInv,
                      DeliveredInv, HeldInv
  <2>5. Types' /\ HoldsWhileReordering' /\ Lined(wire)' /\ AssertionsHold'
    BY <2>2 DEF IInv, Types, HoldsWhileReordering, AssertionsHold
  <2>. QED  BY <2>3, <2>4, <2>5 DEF IInv
<1>. QED  BY <1>1, <1>2, <1>3, <1>4, <1>5, <1>6, <1>7, <1>8 DEF ConWeaveNext

LEMMA IInvHolds ==
    ASSUME TimesFit
    PROVE  ConWeaveSpec /\ []BeforeMaxTime => []IInv
<1>1. IInv /\ BeforeMaxTime /\ [ConWeaveNext]_conWeaveVars => IInv'
  BY IInvInductive
<1>. QED  BY <1>1, ConWeaveInitHolds, PTL DEF ConWeaveSpec

-----------------------------------------------------------------------------
(* What follows                                                            *)

(* The tables, the queue and the packets have their types, and RxToR holds *)
(* packets exactly while its entry says that it is reordering.             *)
THEOREM ConWeaveIsTyped ==
    TimesFit => (ConWeaveSpec /\ []BeforeMaxTime => []ConWeaveTypeOK)
<1>. SUFFICES ASSUME TimesFit PROVE ConWeaveSpec /\ []BeforeMaxTime => []ConWeaveTypeOK
  OBVIOUS
<1>1. IInv => ConWeaveTypeOK
  BY DEF IInv, Types, HoldsWhileReordering, ConWeaveTypeOK
<1>2. ConWeaveSpec /\ []BeforeMaxTime => []IInv
  BY IInvHolds
<1>. QED  BY <1>1, <1>2, PTL

(* No assertion of ConWeave's code fails, and it never calls exit(1).      *)
THEOREM ConWeaveAssertionsHold ==
    TimesFit => (ConWeaveSpec /\ []BeforeMaxTime => []AssertionsHold)
<1>. SUFFICES ASSUME TimesFit PROVE ConWeaveSpec /\ []BeforeMaxTime => []AssertionsHold
  OBVIOUS
<1>1. IInv => AssertionsHold
  BY DEF IInv
<1>2. ConWeaveSpec /\ []BeforeMaxTime => []IInv
  BY IInvHolds
<1>. QED  BY <1>1, <1>2, PTL

(* The host gets the flow's packets in their order, whatever paths TxToR   *)
(* chooses and whenever it reroutes.                                       *)
THEOREM ConWeaveKeepsOrder ==
    TimesFit => (ConWeaveSpec /\ []BeforeMaxTime => []InOrder)
<1>. SUFFICES ASSUME TimesFit PROVE ConWeaveSpec /\ []BeforeMaxTime => []InOrder
  OBVIOUS
<1>1. IInv => InOrder
  BY DEF IInv, OrderInv, DeliveredInv, Increasing, InOrder
<1>2. ConWeaveSpec /\ []BeforeMaxTime => []IInv
  BY IInvHolds
<1>. QED  BY <1>1, <1>2, PTL

(* A stabilized flow, which alone may be rerouted, has nothing under way   *)
(* but on its current path.                                                *)
THEOREM ConWeaveStableOnOnePath ==
    TimesFit => (ConWeaveSpec /\ []BeforeMaxTime => []StableOnOnePath)
<1>. SUFFICES ASSUME TimesFit PROVE ConWeaveSpec /\ []BeforeMaxTime => []StableOnOnePath
  OBVIOUS
<1>1. IInv => StableOnOnePath
  <2>. SUFFICES ASSUME IInv, tx # None, tx.stabilized, NEW path \in Paths, wire[path] # << >>
                PROVE  path = tx.path
    BY DEF StableOnOnePath
  <2>1. wire \in [Paths -> Seq(Packet)] /\ wire[path] \in Seq(Packet)
    BY DEF IInv, Types
  <2>2. 1 \in 1 .. Len(wire[path]) /\ 1 \in DOMAIN wire[path]
    BY <2>1, EmptySeq
  <2>3. wire[path][1] \in InFlight
    BY <2>1, <2>2, CarriedDef DEF InFlight
  <2>. QED  BY <2>2, <2>3 DEF IInv, FlightInv, Lined
<1>2. ConWeaveSpec /\ []BeforeMaxTime => []IInv
  BY IInvHolds
<1>. QED  BY <1>1, <1>2, PTL

(* No packet is held for longer than the default waiting time and the      *)
(* extra time, counted from when the first packet of the queue was held:   *)
(* however often the flush is rescheduled, it is not put off beyond that.  *)
THEOREM ConWeaveHoldIsBounded ==
    TimesFit => (ConWeaveSpec /\ []BeforeMaxTime => []HoldBounded)
<1>. SUFFICES ASSUME TimesFit PROVE ConWeaveSpec /\ []BeforeMaxTime => []HoldBounded
  OBVIOUS
<1>1. IInv => HoldBounded
  BY DEF IInv, HoldInv, HoldBounded
<1>2. ConWeaveSpec /\ []BeforeMaxTime => []IInv
  BY IInvHolds
<1>. QED  BY <1>1, <1>2, PTL
=============================================================================
