------------------------- MODULE NicScheduler_proofs -------------------------
(* Proofs about the transmitter of a host's NIC, for any flows, windows,   *)
(* rates and priority groups, and any answers, pauses and NACKs.           *)
EXTENDS NicScheduler, Library_proofs

-----------------------------------------------------------------------------
(* Constants                                                               *)

(* A finite set of natural numbers has a greatest one.                     *)
LEMMA MaxIsIn ==
    ASSUME NEW S, S \subseteq Nat, S # {}, IsFiniteSet(S)
    PROVE  Max(S) \in S /\ \A x \in S : x <= Max(S)
<1>1. PICK Q \in Seq(S) : \A x \in S : \E k \in 1 .. Len(Q) : Q[k] = x
  BY DEF IsFiniteSet
<1>2. Len(Q) \in Nat /\ \A k \in 1 .. Len(Q) : Q[k] \in Nat /\ Q[k] \in S
  <2>1. Len(Q) \in Nat /\ \A k \in 1 .. Len(Q) : Q[k] \in S
    OBVIOUS
  <2>. QED  BY <2>1
<1>. DEFINE T == {i \in 0 .. Len(Q) : \E m \in Nat : \A k \in 1 .. i : Q[k] <= m}
            B == {m \in Nat : \A x \in S : x <= m}
<1>3. 0 \in T
  BY <1>2
<1>4. ASSUME NEW i \in 1 .. Len(Q), i - 1 \in T PROVE i \in T
  <2>1. PICK m \in Nat : \A k \in 1 .. i - 1 : Q[k] <= m
    BY <1>4
  <2>. DEFINE h == IF Q[i] <= m THEN m ELSE Q[i]
  <2>2. h \in Nat /\ m <= h /\ Q[i] <= h
    BY <1>2, <2>1
  <2>. HIDE DEF h
  <2>3. ASSUME NEW k \in 1 .. i PROVE Q[k] <= h
    <3>1. k \in 1 .. i - 1 \/ k = i
      BY <1>2
    <3>2. k \in 1 .. i - 1 => Q[k] <= m /\ Q[k] \in Nat
      BY <1>2, <2>1
    <3>. QED  BY <2>1, <2>2, <3>1, <3>2
  <2>4. \E m1 \in Nat : \A k \in 1 .. i : Q[k] <= m1
    BY <2>2, <2>3
  <2>5. i \in 0 .. Len(Q)
    BY <1>2
  <2>. QED  BY <2>4, <2>5
<1>5. Len(Q) \in T
  <2>. HIDE DEF T
  <2>1. \A i \in 0 .. Len(Q) : i \in T
    BY <1>2, <1>3, <1>4, IndexInduction
  <2>. QED  BY <1>2, <2>1
<1>6. B # {} /\ B \subseteq Nat
  BY <1>1, <1>5
<1>. HIDE DEF T
<1>7. PICK m \in B : \A j \in B : ~ (j < m)
  <2>. HIDE DEF B
  <2>. QED  BY <1>6, LeastNatural
<1>8. m \in S
  <2>. SUFFICES ASSUME m \notin S PROVE FALSE
    OBVIOUS
  <2>1. PICK x \in S : TRUE
    OBVIOUS
  <2>2. m \in Nat /\ \A y \in S : y <= m /\ y \in Nat /\ y # m
    BY <1>7
  <2>3. m - 1 \in Nat /\ \A y \in S : y <= m - 1
    BY <2>1, <2>2
  <2>. QED  BY <1>7, <2>2, <2>3
<1>9. \E z \in S : \A x \in S : z >= x
  BY <1>7, <1>8
<1>10. Max(S) \in S /\ \A x \in S : Max(S) >= x
  BY <1>9 DEF Max
<1>. QED  BY <1>10

LEMMA MinOfInts ==
    ASSUME NEW S, S \subseteq Int, S # {}, NEW b \in Int, \A x \in S : b <= x
    PROVE  Min(S) \in S /\ \A x \in S : Min(S) <= x
<1>. DEFINE D == {x - b : x \in S}
<1>1. D \subseteq Nat /\ D # {}
  <2>1. ASSUME NEW x \in S PROVE x - b \in Nat
    <3>1. x \in Int /\ b <= x
      OBVIOUS
    <3>. QED  BY <3>1
  <2>. QED  BY <2>1
<1>2. PICK k \in D : \A j \in D : ~ (j < k)
  <2>. HIDE DEF D
  <2>. QED  BY <1>1, LeastNatural
<1>3. PICK z \in S : k = z - b
  BY <1>2
<1>4. ASSUME NEW x \in S PROVE z <= x
  <2>1. ~ (x - b < z - b)
    BY <1>2, <1>3
  <2>. QED  BY <2>1
<1>5. \E y \in S : \A x \in S : y <= x
  BY <1>4
<1>. QED  BY <1>5 DEF Min

LEMMA Numbers ==
    /\ N \in Nat /\ N >= 1 /\ Flows = 1 .. N /\ Uint64 \in Nat
    /\ \A f \in Flows : /\ f \in Nat /\ f <= N
                        /\ Size[f] \in Nat /\ Size[f] >= 1 /\ Size[f] < Uint64
                        /\ Window[f] \in Nat /\ Window[f] < Uint64 - Size[f]
                        /\ Gaps[f] \subseteq Nat \ {0}
    /\ MaxAnswers \in Nat
    /\ None \notin Int
  BY NicAssumption, NoTimeAssumption DEF Flows

LEMMA GapFacts ==
    ASSUME NEW f \in Flows
    PROVE  /\ MaxGap(f) \in Nat /\ MaxGap(f) >= 1
           /\ \A g \in Gaps[f] : g \in Nat /\ g >= 1 /\ g <= MaxGap(f)
           /\ Min(Gaps[f]) \in Gaps[f]
<1>1. Gaps[f] \subseteq Nat \ {0} /\ IsFiniteSet(Gaps[f]) /\ Gaps[f] # {}
  BY NicAssumption
<1>2. Gaps[f] \subseteq Nat /\ Gaps[f] \subseteq Int /\ \A g \in Gaps[f] : g \in Nat /\ g >= 1
  BY <1>1
<1>3. MaxGap(f) \in Gaps[f] /\ \A g \in Gaps[f] : g <= MaxGap(f)
  BY <1>1, <1>2, MaxIsIn DEF MaxGap
<1>4. Min(Gaps[f]) \in Gaps[f]
  <2>1. 0 \in Int /\ \A g \in Gaps[f] : 0 <= g
    BY <1>2
  <2>. QED  BY <1>1, <1>2, <2>1, MinOfInts
<1>. QED  BY <1>2, <1>3, <1>4

LEMMA LongestFacts ==
    /\ Longest \in Nat
    /\ \A f \in Flows : MaxGap(f) <= Longest
<1>. DEFINE S == {MaxGap(f) : f \in Flows}
<1>1. S \subseteq Nat /\ S # {}
  <2>1. 1 \in Flows
    BY Numbers
  <2>. QED  BY <2>1, GapFacts
<1>2. IsFiniteSet(S)
  <2>. DEFINE Q == [f \in 1 .. N |-> MaxGap(f)]
  <2>1. Q \in Seq(S) /\ Len(Q) = N
    <3>1. N \in Nat /\ \A f \in 1 .. N : Q[f] \in S
      BY Numbers
    <3>2. Q \in [1 .. N -> S]
      BY <3>1
    <3>. HIDE DEF Q, S
    <3>. QED  BY <3>1, <3>2
  <2>2. \A x \in S : \E k \in 1 .. Len(Q) : Q[k] = x
    BY Numbers, <2>1
  <2>. QED  BY <2>1, <2>2 DEF IsFiniteSet
<1>3. Max(S) \in S /\ \A x \in S : x <= Max(S)
  <2>. HIDE DEF S
  <2>. QED  BY <1>1, <1>2, MaxIsIn
<1>. QED  BY <1>1, <1>3 DEF Longest

-----------------------------------------------------------------------------
(* Places in the group, seen from the one served last                      *)

LEMMA Remainder ==
    ASSUME NEW n \in Nat, n # 0, NEW a \in Nat
    PROVE  a % n \in 0 .. n - 1
  OBVIOUS

LEMMA RemainderIs ==
    ASSUME NEW n \in Nat, n # 0, NEW q \in Nat, NEW i \in 0 .. n - 1
    PROVE  (q * n + i) % n = i
  OBVIOUS

LEMMA RemainderOnto ==
    ASSUME NEW n \in Nat, n # 0, NEW r \in Nat, NEW i \in 0 .. n - 1
    PROVE  \E k \in 1 .. n : (k + r) % n = i
<1>. DEFINE q == r \div n
            m == r % n
<1>1. q \in Nat /\ m \in 0 .. n - 1 /\ r = q * n + m
  OBVIOUS
<1>. HIDE DEF q, m
<1>2. CASE i > m
  <2>1. i - m \in 1 .. n /\ (i - m) + r = q * n + i
    BY <1>1, <1>2
  <2>. QED  BY <1>1, <2>1, RemainderIs
<1>3. CASE ~ (i > m)
  <2>1. i - m + n \in 1 .. n /\ q + 1 \in Nat
    BY <1>1, <1>3
  <2>2. (i - m + n) + r = (q + 1) * n + i
    <3>1. (q + 1) * n = q * n + n /\ q * n \in Nat
      BY <1>1
    <3>. QED  BY <1>1, <3>1
  <2>. QED  BY <2>1, <2>2, RemainderIs
<1>. QED  BY <1>2, <1>3

LEMMA RemainderSmall ==
    ASSUME NEW n \in Nat, NEW r \in 0 .. n - 1, NEW k \in 1 .. n
    PROVE  (k + r) % n = IF k + r < n THEN k + r ELSE k + r - n
<1>1. CASE k + r < n
  BY <1>1, RemainderIs
<1>2. CASE ~ (k + r < n)
  <2>1. k + r = 1 * n + (k + r - n) /\ k + r - n \in 0 .. n - 1 /\ n # 0
    BY <1>2
  <2>. QED  BY <1>2, <2>1, RemainderIs
<1>. QED  BY <1>1, <1>2

-----------------------------------------------------------------------------
(* States of the device                                                    *)

QpType == [snd_nxt : Nat, snd_una : Nat, gap : Nat, nextAvail : Int]

Device == [qp : [Flows -> QpType], grp : Seq(Flows), rrlast : Nat, ackQ : Nat,
           paused : [Pgs -> BOOLEAN], txEnd : {None, 0, 1}, nextSend : {None} \cup Nat,
           skipped : [Flows -> Nat], strayed : BOOLEAN]

(* The settings under which no queue pair is finished and sendable.        *)
Sound == setting.windows \/ ~ setting.lateNacks

QpOK(s, f) ==
    /\ s.qp[f].snd_nxt <= Size[f] /\ s.qp[f].snd_una <= Size[f] /\ s.qp[f].gap \in Gaps[f]
    /\ -MaxGap(f) <= s.qp[f].nextAvail /\ s.qp[f].nextAvail <= MaxGap(f)
    /\ setting.shifts => /\ s.qp[f].gap - MaxGap(f) <= s.qp[f].nextAvail
                         /\ s.qp[f].nextAvail <= s.qp[f].gap
    /\ ~ setting.shifts => 0 <= s.qp[f].nextAvail
    /\ setting.lateNacks \/ s.qp[f].snd_una <= s.qp[f].snd_nxt

(* The group keeps the order in which the flows started.                   *)
Rising(grp) == \A j, k \in 1 .. Len(grp) : j < k => grp[j] < grp[k]

(* How many places after the one served last.                              *)
Distance(s, j) == IF j > s.rrlast THEN j - s.rrlast ELSE j - s.rrlast + Len(s.grp)

(* Whoever was passed over is as much nearer to its turn.                  *)
Nearer(s) ==
    \A f \in Flows : s.skipped[f] > 0 =>
        /\ s.rrlast < Len(s.grp)
        /\ \E j \in 0 .. Len(s.grp) - 1 :
              FlowAt(s, j) = f /\ s.skipped[f] + Distance(s, j) <= Len(s.grp)

DeviceInv(s) ==
    /\ s \in Device
    /\ \A f \in Flows : QpOK(s, f)
    /\ Rising(s.grp) /\ s.rrlast <= N
    /\ s.nextSend # None => s.nextSend <= Longest
    /\ Nearer(s)
    /\ Sound => ~ s.strayed

(* StallsOnlyBehindABlockedFlow, of a device state.                        *)
StallsBehind(s) ==
    \A f \in Flows :
        f \in ToSet(s.grp) /\ Sendable(s, f) /\ s.txEnd = None /\ s.nextSend = None =>
            \E g \in ToSet(s.grp) \ {f} : BytesLeft(s, g) > 0 /\ Blocked(s, g) /\ Due(s, g)

LEMMA DeviceFields ==
    ASSUME NEW s \in Device
    PROVE  /\ s.grp \in Seq(Flows) /\ Len(s.grp) \in Nat
           /\ \A k \in 1 .. Len(s.grp) : s.grp[k] \in Flows
           /\ s.rrlast \in Nat /\ s.ackQ \in Nat /\ s.txEnd \in {None, 0, 1}
           /\ s.paused \in [Pgs -> BOOLEAN] /\ s.nextSend \in {None} \cup Nat
           /\ s.skipped \in [Flows -> Nat] /\ s.strayed \in BOOLEAN
           /\ s.qp \in [Flows -> QpType]
           /\ \A f \in Flows : /\ s.qp[f] \in QpType
                               /\ s.qp[f].snd_nxt \in Nat /\ s.qp[f].snd_una \in Nat
                               /\ s.qp[f].gap \in Nat /\ s.qp[f].nextAvail \in Int
<1>1. s.grp \in Seq(Flows) /\ s.qp \in [Flows -> QpType]
  BY DEF Device
<1>2. Len(s.grp) \in Nat /\ \A k \in 1 .. Len(s.grp) : s.grp[k] \in Flows
  BY <1>1
<1>3. /\ s.rrlast \in Nat /\ s.ackQ \in Nat /\ s.txEnd \in {None, 0, 1}
      /\ s.paused \in [Pgs -> BOOLEAN] /\ s.nextSend \in {None} \cup Nat
      /\ s.skipped \in [Flows -> Nat] /\ s.strayed \in BOOLEAN
  BY DEF Device
<1>4. \A f \in Flows : /\ s.qp[f] \in QpType
                       /\ s.qp[f].snd_nxt \in Nat /\ s.qp[f].snd_una \in Nat
                       /\ s.qp[f].gap \in Nat /\ s.qp[f].nextAvail \in Int
  BY <1>1 DEF QpType
<1>. QED  BY <1>1, <1>2, <1>3, <1>4

LEMMA FlowAtType ==
    ASSUME NEW s \in Device
    PROVE  /\ \A i \in 0 .. Len(s.grp) - 1 : FlowAt(s, i) \in Flows /\ FlowAt(s, i) \in ToSet(s.grp)
           /\ \A f \in ToSet(s.grp) : f \in Flows /\ \E i \in 0 .. Len(s.grp) - 1 : f = FlowAt(s, i)
<1>1. s.grp \in Seq(Flows) /\ Len(s.grp) \in Nat /\ \A k \in 1 .. Len(s.grp) : s.grp[k] \in Flows
  BY DeviceFields
<1>2. DOMAIN s.grp = 1 .. Len(s.grp)
  BY <1>1
<1>3. ASSUME NEW i \in 0 .. Len(s.grp) - 1
      PROVE  FlowAt(s, i) \in Flows /\ FlowAt(s, i) \in ToSet(s.grp)
  <2>1. i + 1 \in 1 .. Len(s.grp)
    BY <1>1
  <2>. QED  BY <1>1, <1>2, <2>1 DEF FlowAt, ToSet
<1>4. ASSUME NEW f \in ToSet(s.grp)
      PROVE  f \in Flows /\ \E i \in 0 .. Len(s.grp) - 1 : f = FlowAt(s, i)
  <2>1. PICK k \in 1 .. Len(s.grp) : f = s.grp[k]
    BY <1>2 DEF ToSet
  <2>2. k - 1 \in 0 .. Len(s.grp) - 1 /\ (k - 1) + 1 = k
    BY <1>1
  <2>3. f = FlowAt(s, k - 1)
    BY <2>1, <2>2 DEF FlowAt
  <2>. QED  BY <1>1, <2>1, <2>2, <2>3
<1>. QED  BY <1>3, <1>4

(* Different places hold different flows.                                  *)
LEMMA PlacesDiffer ==
    ASSUME NEW s \in Device, Rising(s.grp),
           NEW i \in 0 .. Len(s.grp) - 1, NEW j \in 0 .. Len(s.grp) - 1,
           FlowAt(s, i) = FlowAt(s, j)
    PROVE  i = j
<1>1. Len(s.grp) \in Nat /\ \A k \in 1 .. Len(s.grp) : s.grp[k] \in Nat
  BY DeviceFields, Numbers
<1>2. i + 1 \in 1 .. Len(s.grp) /\ j + 1 \in 1 .. Len(s.grp)
  BY <1>1
<1>3. s.grp[i + 1] = s.grp[j + 1] /\ s.grp[i + 1] \in Nat
  BY <1>1, <1>2 DEF FlowAt
<1>4. ~ (i + 1 < j + 1) /\ ~ (j + 1 < i + 1)
  BY <1>2, <1>3 DEF Rising
<1>. QED  BY <1>4

(* A group that rises is no longer than its last flow is late.             *)
LEMMA RisingIsShort ==
    ASSUME NEW g \in Seq(Flows), Rising(g), NEW m \in Nat, \A k \in 1 .. Len(g) : g[k] <= m
    PROVE  Len(g) <= m
<1>1. Len(g) \in Nat /\ \A k \in 1 .. Len(g) : g[k] \in Nat /\ g[k] >= 1
  <2>1. Len(g) \in Nat /\ \A k \in 1 .. Len(g) : g[k] \in Flows
    OBVIOUS
  <2>. QED  BY <2>1, Numbers
<1>. DEFINE T == {i \in 0 .. Len(g) : i = 0 \/ g[i] >= i}
<1>2. 0 \in T
  BY <1>1
<1>3. ASSUME NEW i \in 1 .. Len(g), i - 1 \in T PROVE i \in T
  <2>1. CASE i = 1
    BY <1>1, <2>1
  <2>2. CASE i # 1
    <3>1. i - 1 \in 1 .. Len(g) /\ i - 1 < i /\ g[i - 1] >= i - 1
      BY <1>1, <1>3, <2>2
    <3>2. g[i - 1] < g[i]
      BY <3>1 DEF Rising
    <3>3. g[i] \in Nat /\ g[i - 1] \in Nat
      BY <1>1, <3>1
    <3>4. g[i] >= i /\ i \in 0 .. Len(g)
      BY <1>1, <3>1, <3>2, <3>3
    <3>. QED  BY <3>4
  <2>. QED  BY <2>1, <2>2
<1>4. Len(g) \in T
  <2>. HIDE DEF T
  <2>1. \A i \in 0 .. Len(g) : i \in T
    BY <1>1, <1>2, <1>3, IndexInduction
  <2>. QED  BY <1>1, <2>1
<1>5. CASE Len(g) = 0
  BY <1>5
<1>6. CASE Len(g) # 0
  <2>1. Len(g) \in 1 .. Len(g) /\ g[Len(g)] >= Len(g)
    BY <1>1, <1>4, <1>6
  <2>2. g[Len(g)] <= m /\ g[Len(g)] \in Nat
    BY <1>1, <2>1
  <2>. QED  BY <1>1, <2>1, <2>2
<1>. QED  BY <1>5, <1>6

(* Nothing is finished and sendable: what is acknowledged beyond snd_nxt   *)
(* either cannot be, or fills any window.                                  *)
LEMMA FinishedIsNotSendable ==
    ASSUME NEW s \in Device, NEW f \in Flows, QpOK(s, f), Sound, Finished(s, f)
    PROVE  ~ Sendable(s, f)
<1>1. /\ s.qp[f].snd_nxt \in Nat /\ s.qp[f].snd_una \in Nat
      /\ Size[f] \in Nat /\ Window[f] \in Nat /\ Uint64 \in Nat
      /\ Size[f] < Uint64 /\ Window[f] < Uint64 - Size[f]
  BY DeviceFields, Numbers
<1>2. s.qp[f].snd_una = Size[f]
  BY <1>1 DEF QpOK, Finished
<1>3. CASE s.qp[f].snd_nxt >= Size[f]
  BY <1>1, <1>3 DEF Sendable, BytesLeft
<1>4. CASE s.qp[f].snd_nxt < Size[f]
  <2>1. setting.windows
    BY <1>1, <1>2, <1>4 DEF QpOK, Sound
  <2>. DEFINE d == s.qp[f].snd_nxt - s.qp[f].snd_una
  <2>2. d % Uint64 = Uint64 + d
    <3>1. d \in Int /\ d < 0 /\ d >= -Size[f] /\ d + Uint64 \in 0 .. Uint64 - 1
      BY <1>1, <1>2, <1>4
    <3>. HIDE DEF d
    <3>. QED  BY <1>1, <3>1
  <2>3. OnTheFly(s, f) >= Window[f]
    BY <1>1, <1>2, <1>4, <2>2 DEF OnTheFly
  <2>. QED  BY <2>1, <2>3 DEF Sendable, Blocked, WinBound
<1>. QED  BY <1>1, <1>3, <1>4

-----------------------------------------------------------------------------
(* Clearing finished queue pairs                                           *)

(* kept is the function of the states of the loop.                         *)
IsKept(kept, s, from) ==
    kept = [i \in from .. Len(s.grp) - 1 |->
               IF i = from THEN SubSeq(s.grp, 1, from)
               ELSE IF Finished(s, FlowAt(s, i)) THEN kept[i - 1]
               ELSE Append(kept[i - 1], FlowAt(s, i))]

(* The same up to index n.                                                 *)
KeptTo(kept, s, from, n) ==
    kept = [i \in from .. n |->
               IF i = from THEN SubSeq(s.grp, 1, from)
               ELSE IF Finished(s, FlowAt(s, i)) THEN kept[i - 1]
               ELSE Append(kept[i - 1], FlowAt(s, i))]

LEMMA KeptExists ==
    ASSUME NEW s \in Device, NEW from \in Nat, NEW m \in Nat
    PROVE  \E kept : KeptTo(kept, s, from, from + m)
<1>. DEFINE Bad == {k \in Nat : ~ \E kept : KeptTo(kept, s, from, from + k)}
<1>. SUFFICES ASSUME Bad # {} PROVE FALSE
  OBVIOUS
<1>1. PICK k \in Bad : \A j \in Bad : ~ (j < k)
  BY LeastNatural
<1>2. CASE k = 0
  <2>1. KeptTo([i \in from .. from |-> SubSeq(s.grp, 1, from)], s, from, from)
    BY DEF KeptTo
  <2>. QED  BY <1>1, <1>2, <2>1
<1>3. CASE k # 0
  <2>1. k - 1 \in Nat /\ k - 1 < k
    BY <1>1, <1>3
  <2>2. PICK r : KeptTo(r, s, from, from + (k - 1))
    BY <1>1, <2>1
  <2>. DEFINE t == [i \in from .. from + k |->
                      IF i = from + k
                      THEN IF Finished(s, FlowAt(s, i)) THEN r[i - 1] ELSE Append(r[i - 1], FlowAt(s, i))
                      ELSE r[i]]
  <2>3. \A i \in from .. from + k : i # from + k => i \in from .. from + (k - 1)
    BY <1>1, <2>1
  <2>4. \A i \in from .. from + k : i # from => t[i - 1] = r[i - 1]
    BY <1>1, <2>1
  <2>5. from + k # from /\ from + k \in Int
    BY <1>1, <1>3
  <2>6. ASSUME NEW i \in from .. from + k
        PROVE  t[i] = IF i = from THEN SubSeq(s.grp, 1, from)
                      ELSE IF Finished(s, FlowAt(s, i)) THEN t[i - 1]
                      ELSE Append(t[i - 1], FlowAt(s, i))
    <3>1. CASE i = from + k
      BY <2>4, <2>5, <3>1
    <3>2. CASE i # from + k
      <4>1. i \in from .. from + (k - 1) /\ t[i] = r[i]
        BY <2>3, <3>2
      <4>2. r[i] = IF i = from THEN SubSeq(s.grp, 1, from)
                   ELSE IF Finished(s, FlowAt(s, i)) THEN r[i - 1]
                   ELSE Append(r[i - 1], FlowAt(s, i))
        BY <2>2, <4>1 DEF KeptTo
      <4>. QED  BY <2>4, <4>1, <4>2
    <3>. QED  BY <3>1, <3>2
  <2>7. t = [i \in from .. from + k |-> t[i]]
    OBVIOUS
  <2>. HIDE DEF t
  <2>8. KeptTo(t, s, from, from + k)
    BY <2>6, <2>7 DEF KeptTo
  <2>. QED  BY <1>1, <2>8
<1>. QED  BY <1>1, <1>2, <1>3

LEMMA KeptSteps ==
    ASSUME NEW s \in Device, NEW from \in 0 .. Len(s.grp) - 1
    PROVE  /\ Kept(s, from)[from] = SubSeq(s.grp, 1, from)
           /\ \A i \in from + 1 .. Len(s.grp) - 1 :
                 Kept(s, from)[i] = IF Finished(s, FlowAt(s, i)) THEN Kept(s, from)[i - 1]
                                    ELSE Append(Kept(s, from)[i - 1], FlowAt(s, i))
<1>. DEFINE n == Len(s.grp)
            g == Kept(s, from)
<1>1. n \in Nat /\ from \in Nat /\ n - 1 - from \in Nat /\ from + (n - 1 - from) = n - 1
  BY DeviceFields
<1>2. \E kept : IsKept(kept, s, from)
  <2>1. \E kept : KeptTo(kept, s, from, from + (n - 1 - from))
    <3>. HIDE DEF n
    <3>. QED  BY <1>1, KeptExists
  <2>2. PICK kept : KeptTo(kept, s, from, n - 1)
    BY <1>1, <2>1
  <2>3. IsKept(kept, s, from)
    BY <2>2 DEF IsKept, KeptTo
  <2>. QED  BY <2>3
<1>3. g = CHOOSE kept : IsKept(kept, s, from)
  BY DEF Kept, IsKept
<1>. HIDE DEF g
<1>4. IsKept(g, s, from)
  BY <1>2, <1>3
<1>5. g[from] = SubSeq(s.grp, 1, from)
  BY <1>1, <1>4 DEF IsKept
<1>6. ASSUME NEW i \in from + 1 .. n - 1
      PROVE  g[i] = IF Finished(s, FlowAt(s, i)) THEN g[i - 1] ELSE Append(g[i - 1], FlowAt(s, i))
  <2>1. i \in from .. n - 1 /\ i # from
    BY <1>1
  <2>. QED  BY <1>4, <2>1 DEF IsKept
<1>. QED  BY <1>5, <1>6 DEF g

(* The group g, rebuilt up to index i: it begins with what lies before     *)
(* from, rises, ends no later than the flow at i, and has every unfinished *)
(* flow behind from where the loop put it.                                 *)
KeptWell(s, from, i) ==
    LET g == Kept(s, from)[i]
    IN  /\ g \in Seq(Flows) /\ Rising(g)
        /\ from <= Len(g) /\ Len(g) <= i
        /\ \A k \in 1 .. from : g[k] = s.grp[k]
        /\ \A k \in 1 .. Len(g) : g[k] \in ToSet(s.grp) /\ g[k] <= FlowAt(s, i)
        /\ \A j \in from + 1 .. i : ~ Finished(s, FlowAt(s, j)) =>
              /\ Len(Kept(s, from)[j - 1]) < Len(g)
              /\ Len(Kept(s, from)[j - 1]) \in Nat
              /\ g[Len(Kept(s, from)[j - 1]) + 1] = FlowAt(s, j)

LEMMA KeptStart ==
    ASSUME NEW s \in Device, Rising(s.grp), NEW from \in 0 .. Len(s.grp) - 1
    PROVE  KeptWell(s, from, from)
<1>. DEFINE g == SubSeq(s.grp, 1, from)
<1>1. /\ s.grp \in Seq(Flows) /\ Len(s.grp) \in Nat /\ from \in Nat /\ from < Len(s.grp)
      /\ \A k \in 1 .. Len(s.grp) : s.grp[k] \in Flows /\ s.grp[k] \in Nat
  BY DeviceFields, Numbers
<1>2. g \in Seq(Flows) /\ Len(g) = from /\ \A k \in 1 .. from : g[k] = s.grp[k]
  BY <1>1, SubSeqProperties
<1>3. Kept(s, from)[from] = g
  BY KeptSteps
<1>. HIDE DEF g
<1>4. \A k \in 1 .. from : k \in 1 .. Len(s.grp) /\ k < from + 1 /\ from + 1 \in 1 .. Len(s.grp)
  BY <1>1
<1>5. Rising(g)
  BY <1>2, <1>4 DEF Rising
<1>6. \A k \in 1 .. from : g[k] \in ToSet(s.grp) /\ g[k] <= FlowAt(s, from)
  <2>. SUFFICES ASSUME NEW k \in 1 .. from
                PROVE  g[k] \in ToSet(s.grp) /\ g[k] <= FlowAt(s, from)
    OBVIOUS
  <2>1. s.grp[k] \in ToSet(s.grp)
    BY <1>1, <1>4 DEF ToSet
  <2>2. s.grp[k] < s.grp[from + 1] /\ s.grp[k] \in Nat /\ s.grp[from + 1] \in Nat
    BY <1>1, <1>4 DEF Rising
  <2>. QED  BY <1>2, <2>1, <2>2 DEF FlowAt
<1>7. from + 1 .. from = {}
  BY <1>1
<1>. QED  BY <1>1, <1>2, <1>3, <1>5, <1>6, <1>7 DEF KeptWell

LEMMA KeptGoesOn ==
    ASSUME NEW s \in Device, Rising(s.grp), NEW from \in 0 .. Len(s.grp) - 1,
           NEW i \in from + 1 .. Len(s.grp) - 1, KeptWell(s, from, i - 1)
    PROVE  KeptWell(s, from, i)
<1>. DEFINE g == Kept(s, from)[i - 1]
            h == Kept(s, from)[i]
            f == FlowAt(s, i)
            L(j) == Len(Kept(s, from)[j - 1])
<1>1. /\ g \in Seq(Flows) /\ Rising(g)
      /\ from <= Len(g) /\ Len(g) <= i - 1
      /\ \A k \in 1 .. from : g[k] = s.grp[k]
      /\ \A k \in 1 .. Len(g) : g[k] \in ToSet(s.grp) /\ g[k] <= FlowAt(s, i - 1)
      /\ \A j \in from + 1 .. i - 1 : ~ Finished(s, FlowAt(s, j)) =>
            L(j) < Len(g) /\ L(j) \in Nat /\ g[L(j) + 1] = FlowAt(s, j)
  BY DEF KeptWell
<1>2. h = IF Finished(s, f) THEN g ELSE Append(g, f)
  BY KeptSteps
<1>3. L(i) = Len(g)
  OBVIOUS
<1>4. /\ from \in Nat /\ i \in Nat /\ Len(s.grp) \in Nat
      /\ i \in 1 .. Len(s.grp) /\ i + 1 \in 1 .. Len(s.grp) /\ i < i + 1 /\ (i - 1) + 1 = i
      /\ i - 1 \in 0 .. Len(s.grp) - 1 /\ i \in 0 .. Len(s.grp) - 1
  BY DeviceFields
<1>5. /\ f \in Flows /\ f \in Nat /\ f \in ToSet(s.grp)
      /\ FlowAt(s, i - 1) \in Nat /\ FlowAt(s, i - 1) < f
  <2>1. s.grp[i] < s.grp[i + 1]
    BY <1>4 DEF Rising
  <2>2. f \in Flows /\ f \in ToSet(s.grp) /\ FlowAt(s, i - 1) \in Flows
    BY <1>4, FlowAtType
  <2>. QED  BY <1>4, <2>1, <2>2, Numbers DEF FlowAt
<1>6. Len(g) \in Nat /\ \A k \in 1 .. Len(g) : g[k] \in Nat
  <2>1. Len(g) \in Nat /\ \A k \in 1 .. Len(g) : g[k] \in Flows
    BY <1>1
  <2>. QED  BY <2>1, Numbers
<1>7. \A k \in 1 .. Len(g) : g[k] < f
  BY <1>1, <1>5, <1>6
<1>8. \A j \in from + 1 .. i : j \in from + 1 .. i - 1 \/ j = i
  BY <1>4
<1>. HIDE DEF g, h, f, L
<1>9. CASE Finished(s, f)
  <2>1. h = g
    BY <1>2, <1>9
  <2>2. \A k \in 1 .. Len(h) : h[k] \in ToSet(s.grp) /\ h[k] <= f
    BY <1>1, <1>5, <1>6, <1>7, <2>1
  <2>3. \A j \in from + 1 .. i : ~ Finished(s, FlowAt(s, j)) =>
           L(j) < Len(h) /\ L(j) \in Nat /\ h[L(j) + 1] = FlowAt(s, j)
    BY <1>1, <1>8, <1>9, <2>1 DEF f
  <2>4. Len(h) <= i
    BY <1>1, <1>4, <1>6, <2>1
  <2>. QED  BY <1>1, <2>1, <2>2, <2>3, <2>4 DEF KeptWell, h, f, L
<1>10. CASE ~ Finished(s, f)
  <2>1. h = Append(g, f)
    BY <1>2, <1>10
  <2>2. /\ h \in Seq(Flows) /\ Len(h) = Len(g) + 1 /\ h[Len(g) + 1] = f
        /\ \A k \in 1 .. Len(g) : h[k] = g[k]
    BY <1>1, <1>5, <2>1, AppendProperties
  <2>3. \A k \in 1 .. Len(h) : k \in 1 .. Len(g) \/ k = Len(g) + 1
    BY <1>6, <2>2
  <2>4. \A k \in 1 .. Len(h) : h[k] \in ToSet(s.grp) /\ h[k] <= f
    <3>. SUFFICES ASSUME NEW k \in 1 .. Len(h) PROVE h[k] \in ToSet(s.grp) /\ h[k] <= f
      OBVIOUS
    <3>1. CASE k \in 1 .. Len(g)
      <4>1. h[k] = g[k] /\ g[k] \in ToSet(s.grp)
        BY <1>1, <2>2, <3>1
      <4>2. g[k] < f /\ g[k] \in Nat /\ f \in Nat
        BY <1>5, <1>6, <1>7, <3>1
      <4>. QED  BY <4>1, <4>2
    <3>2. CASE k = Len(g) + 1
      BY <1>5, <2>2, <3>2
    <3>. QED  BY <2>3, <3>1, <3>2
  <2>5. Rising(h)
    <3>. SUFFICES ASSUME NEW j \in 1 .. Len(h), NEW k \in 1 .. Len(h), j < k
                  PROVE  h[j] < h[k]
      BY DEF Rising
    <3>1. CASE k \in 1 .. Len(g)
      <4>1. j \in 1 .. Len(g)
        BY <1>6, <2>3, <3>1
      <4>. QED  BY <1>1, <2>2, <3>1, <4>1 DEF Rising
    <3>2. CASE k = Len(g) + 1
      <4>1. j \in 1 .. Len(g)
        BY <1>6, <2>3, <3>2
      <4>. QED  BY <1>7, <2>2, <3>2, <4>1
    <3>. QED  BY <2>3, <3>1, <3>2
  <2>6. \A j \in from + 1 .. i : ~ Finished(s, FlowAt(s, j)) =>
           L(j) < Len(h) /\ L(j) \in Nat /\ h[L(j) + 1] = FlowAt(s, j)
    <3>. SUFFICES ASSUME NEW j \in from + 1 .. i, ~ Finished(s, FlowAt(s, j))
                  PROVE  L(j) < Len(h) /\ L(j) \in Nat /\ h[L(j) + 1] = FlowAt(s, j)
      OBVIOUS
    <3>1. CASE j \in from + 1 .. i - 1
      <4>1. L(j) < Len(g) /\ L(j) \in Nat /\ g[L(j) + 1] = FlowAt(s, j)
        BY <1>1, <3>1
      <4>2. L(j) + 1 \in 1 .. Len(g)
        BY <1>6, <4>1
      <4>. QED  BY <1>6, <2>2, <4>1, <4>2
    <3>2. CASE j = i
      BY <1>3, <1>6, <2>2, <3>2 DEF f
    <3>. QED  BY <1>8, <3>1, <3>2
  <2>7. from <= Len(h) /\ Len(h) <= i /\ \A k \in 1 .. from : h[k] = s.grp[k]
    <3>1. \A k \in 1 .. from : k \in 1 .. Len(g)
      BY <1>1, <1>4, <1>6
    <3>. QED  BY <1>1, <1>4, <1>6, <2>2, <3>1
  <2>. QED  BY <2>2, <2>4, <2>5, <2>6, <2>7 DEF KeptWell, h, f, L
<1>. QED  BY <1>9, <1>10

LEMMA KeptIsWell ==
    ASSUME NEW s \in Device, Rising(s.grp), NEW from \in 0 .. Len(s.grp) - 1
    PROVE  KeptWell(s, from, Len(s.grp) - 1)
<1>. DEFINE n == Len(s.grp) - 1 - from
            T == {i \in 0 .. n : KeptWell(s, from, from + i)}
<1>1. n \in Nat /\ from \in Nat /\ Len(s.grp) \in Nat /\ from + n = Len(s.grp) - 1
  BY DeviceFields
<1>2. 0 \in T
  BY <1>1, KeptStart
<1>3. ASSUME NEW i \in 1 .. n, i - 1 \in T PROVE i \in T
  <2>1. from + i \in from + 1 .. Len(s.grp) - 1 /\ from + (i - 1) = (from + i) - 1 /\ i \in 0 .. n
    BY <1>1
  <2>2. KeptWell(s, from, (from + i) - 1)
    BY <1>3, <2>1
  <2>. QED  BY <2>1, <2>2, KeptGoesOn
<1>4. n \in T
  <2>. HIDE DEF T, n
  <2>1. \A i \in 0 .. n : i \in T
    BY <1>1, <1>2, <1>3, IndexInduction
  <2>. QED  BY <1>1, <2>1
<1>. QED  BY <1>1, <1>4

(* Clearing keeps the device's invariant, and forgets who was skipped.     *)
LEMMA CompactKeeps ==
    ASSUME NEW s, DeviceInv(s), NEW from \in 0 .. Len(s.grp) - 1
    PROVE  /\ DeviceInv(Compact(s, from))
           /\ ToSet(Compact(s, from).grp) \subseteq ToSet(s.grp)
           /\ Compact(s, from) = [s EXCEPT !.grp = Compact(s, from).grp,
                                           !.skipped = [f \in Flows |-> 0]]
<1>. DEFINE t == Compact(s, from)
            g == Kept(s, from)[Len(s.grp) - 1]
<1>1. s \in Device /\ Rising(s.grp)
  BY DEF DeviceInv
<1>2. /\ g \in Seq(Flows) /\ Rising(g)
      /\ \A k \in 1 .. Len(g) : g[k] \in ToSet(s.grp)
  BY <1>1, KeptIsWell DEF KeptWell
<1>3. t = [s EXCEPT !.grp = g, !.skipped = [f \in Flows |-> 0]]
  BY DEF Compact
<1>. HIDE DEF g, t
<1>4. /\ t \in Device /\ t.grp = g /\ t.skipped = [f \in Flows |-> 0]
      /\ t.qp = s.qp /\ t.rrlast = s.rrlast /\ t.nextSend = s.nextSend /\ t.strayed = s.strayed
  BY <1>1, <1>2, <1>3 DEF Device
<1>5. \A f \in Flows : QpOK(t, f)
  BY <1>4 DEF DeviceInv, QpOK
<1>6. Nearer(t)
  BY <1>4 DEF Nearer
<1>7. DeviceInv(t)
  BY <1>2, <1>4, <1>5, <1>6 DEF DeviceInv
<1>8. ToSet(t.grp) \subseteq ToSet(s.grp)
  <2>1. DOMAIN g = 1 .. Len(g)
    BY <1>2
  <2>. QED  BY <1>2, <1>4, <2>1 DEF ToSet
<1>. QED  BY <1>3, <1>4, <1>7, <1>8 DEF t

-----------------------------------------------------------------------------
(* The scan                                                                *)

Ready(s, f) == Sendable(s, f) /\ Due(s, f)

LEMMA IndexIsPlace ==
    ASSUME NEW s \in Device, Len(s.grp) # 0
    PROVE  /\ \A k \in 1 .. Len(s.grp) : Index(s, k) \in 0 .. Len(s.grp) - 1
           /\ \A i \in 0 .. Len(s.grp) - 1 : \E k \in 1 .. Len(s.grp) : Index(s, k) = i
<1>1. Len(s.grp) \in Nat /\ s.rrlast \in Nat
  BY DeviceFields
<1>2. ASSUME NEW k \in 1 .. Len(s.grp) PROVE Index(s, k) \in 0 .. Len(s.grp) - 1
  <2>1. k + s.rrlast \in Nat
    BY <1>1
  <2>. QED  BY <1>1, <2>1, Remainder DEF Index
<1>3. ASSUME NEW i \in 0 .. Len(s.grp) - 1 PROVE \E k \in 1 .. Len(s.grp) : Index(s, k) = i
  BY <1>1, RemainderOnto DEF Index
<1>. QED  BY <1>2, <1>3

LEMMA IndexOfDistance ==
    ASSUME NEW s \in Device, s.rrlast < Len(s.grp)
    PROVE  /\ \A j \in 0 .. Len(s.grp) - 1 : /\ Distance(s, j) \in 1 .. Len(s.grp)
                                             /\ Index(s, Distance(s, j)) = j
           /\ \A k \in 1 .. Len(s.grp) : Distance(s, Index(s, k)) = k
<1>1. Len(s.grp) \in Nat /\ s.rrlast \in 0 .. Len(s.grp) - 1
  BY DeviceFields
<1>2. \A k \in 1 .. Len(s.grp) :
         Index(s, k) = IF k + s.rrlast < Len(s.grp) THEN k + s.rrlast ELSE k + s.rrlast - Len(s.grp)
  BY <1>1, RemainderSmall DEF Index
<1>3. ASSUME NEW j \in 0 .. Len(s.grp) - 1
      PROVE  Distance(s, j) \in 1 .. Len(s.grp) /\ Index(s, Distance(s, j)) = j
  <2>1. Distance(s, j) \in 1 .. Len(s.grp)
    BY <1>1 DEF Distance
  <2>. QED  BY <1>1, <1>2, <2>1 DEF Distance
<1>4. ASSUME NEW k \in 1 .. Len(s.grp) PROVE Distance(s, Index(s, k)) = k
  BY <1>1, <1>2 DEF Distance
<1>. QED  BY <1>3, <1>4

(* The scan finds a ready queue pair if there is one, and the one that     *)
(* comes first after the one served last.                                  *)
LEMMA ScanFinds ==
    ASSUME NEW s \in Device
    PROVE  /\ Scan(s).seen \subseteq 0 .. Len(s.grp) - 1
           /\ Scan(s).res = None => \A i \in 0 .. Len(s.grp) - 1 : ~ Ready(s, FlowAt(s, i))
           /\ Scan(s).res # None =>
                 /\ Scan(s).res \in 0 .. Len(s.grp) - 1
                 /\ Ready(s, FlowAt(s, Scan(s).res))
                 /\ s.rrlast < Len(s.grp) =>
                       \A j \in 0 .. Len(s.grp) - 1 :
                          Ready(s, FlowAt(s, j)) => Distance(s, Scan(s).res) <= Distance(s, j)
<1>. DEFINE n == Len(s.grp)
            hits == {k \in 1 .. n : Ready(s, FlowAt(s, Index(s, k)))}
<1>1. n \in Nat
  BY DeviceFields
<1>2. Scan(s) = IF hits = {} THEN [res |-> None, seen |-> 0 .. n - 1]
                ELSE [res |-> Index(s, Min(hits)), seen |-> {Index(s, k) : k \in 1 .. Min(hits) - 1}]
  BY DEF Scan, Ready
<1>3. CASE hits = {}
  <2>1. Scan(s).res = None /\ Scan(s).seen = 0 .. n - 1
    BY <1>2, <1>3
  <2>2. ASSUME NEW i \in 0 .. n - 1 PROVE ~ Ready(s, FlowAt(s, i))
    <3>1. n # 0
      BY <1>1
    <3>2. PICK k \in 1 .. n : Index(s, k) = i
      BY <3>1, IndexIsPlace
    <3>. QED  BY <1>3, <3>2
  <2>. QED  BY <2>1, <2>2
<1>4. CASE hits # {}
  <2>1. n # 0
    BY <1>1, <1>4
  <2>2. Min(hits) \in hits /\ \A k \in hits : Min(hits) <= k
    <3>1. hits \subseteq Int /\ 0 \in Int /\ \A k \in hits : 0 <= k
      BY <1>1
    <3>. HIDE DEF hits
    <3>. QED  BY <1>4, <3>1, MinOfInts
  <2>3. Scan(s).res = Index(s, Min(hits)) /\ Scan(s).seen = {Index(s, k) : k \in 1 .. Min(hits) - 1}
    BY <1>2, <1>4
  <2>. DEFINE m == Min(hits)
  <2>4. m \in 1 .. n /\ Ready(s, FlowAt(s, Index(s, m)))
    BY <2>2
  <2>5. \A j \in 1 .. n : Ready(s, FlowAt(s, Index(s, j))) => m <= j
    BY <2>2
  <2>6. Scan(s).res = Index(s, m) /\ Scan(s).seen = {Index(s, k) : k \in 1 .. m - 1}
    BY <2>3
  <2>. HIDE DEF m, hits
  <2>7. Scan(s).res \in 0 .. n - 1
    BY <2>1, <2>4, <2>6, IndexIsPlace
  <2>8. Scan(s).seen \subseteq 0 .. n - 1
    <3>1. \A k \in 1 .. m - 1 : k \in 1 .. n
      BY <1>1, <2>4
    <3>. QED  BY <2>1, <2>6, <3>1, IndexIsPlace
  <2>9. ASSUME s.rrlast < n, NEW j \in 0 .. n - 1, Ready(s, FlowAt(s, j))
        PROVE  Distance(s, Scan(s).res) <= Distance(s, j)
    <3>1. Distance(s, j) \in 1 .. n /\ Index(s, Distance(s, j)) = j /\ Distance(s, Index(s, m)) = m
      BY <2>4, <2>9, IndexOfDistance
    <3>2. m <= Distance(s, j)
      BY <2>5, <2>9, <3>1
    <3>. QED  BY <2>6, <3>1, <3>2
  <2>10. Scan(s).res # None
    BY <1>1, <2>7, Numbers
  <2>. QED  BY <2>4, <2>6, <2>7, <2>8, <2>9, <2>10
<1>. QED  BY <1>3, <1>4

-----------------------------------------------------------------------------
(* Sending a packet                                                        *)

(* Whoever is ready and was skipped comes later than i.                    *)
FirstOfSkipped(s, i) ==
    \A j \in 0 .. Len(s.grp) - 1 :
        j # i /\ Ready(s, FlowAt(s, j)) /\ s.skipped[FlowAt(s, j)] > 0 =>
            Distance(s, i) < Distance(s, j)

Ahead(r, j, n) == IF j > r THEN j - r ELSE j - r + n

LEMMA AheadOfNext ==
    ASSUME NEW n \in Nat, NEW r \in 0 .. n - 1, NEW i \in 0 .. n - 1, NEW j \in 0 .. n - 1, j # i,
           Ahead(r, i, n) < Ahead(r, j, n)
    PROVE  /\ Ahead(i, j, n) < Ahead(r, j, n)
           /\ Ahead(i, j, n) \in Int /\ Ahead(r, j, n) \in Int
  BY DEF Ahead

LEMMA QpExcept ==
    ASSUME NEW q \in QpType, NEW x, NEW y
    PROVE  [q EXCEPT !.snd_nxt = x, !.nextAvail = y] =
               [snd_nxt |-> x, snd_una |-> q.snd_una, gap |-> q.gap, nextAvail |-> y]
<1>1. q = [snd_nxt |-> q.snd_nxt, snd_una |-> q.snd_una, gap |-> q.gap, nextAvail |-> q.nextAvail]
  BY DEF QpType
<1>2. [q EXCEPT !.snd_nxt = x] = [snd_nxt |-> x, snd_una |-> q.snd_una, gap |-> q.gap,
                                  nextAvail |-> q.nextAvail]
  BY <1>1
<1>3. [[snd_nxt |-> x, snd_una |-> q.snd_una, gap |-> q.gap, nextAvail |-> q.nextAvail]
          EXCEPT !.nextAvail = y] = [snd_nxt |-> x, snd_una |-> q.snd_una, gap |-> q.gap, nextAvail |-> y]
  OBVIOUS
<1>. QED  BY <1>2, <1>3

LEMMA SendKeeps ==
    ASSUME NEW s, DeviceInv(s), NEW i \in 0 .. Len(s.grp) - 1, FirstOfSkipped(s, i)
    PROVE  /\ DeviceInv(SendPacket(s, i))
           /\ SendPacket(s, i).txEnd = 1 /\ SendPacket(s, i).ackQ = s.ackQ
           /\ SendPacket(s, i).grp = s.grp /\ SendPacket(s, i).strayed = s.strayed
           /\ \A f \in Flows : f # FlowAt(s, i) => SendPacket(s, i).qp[f] = s.qp[f]
<1>. DEFINE t == SendPacket(s, i)
            f == FlowAt(s, i)
            n == Len(s.grp)
            new == [snd_nxt |-> s.qp[f].snd_nxt + (IF BytesLeft(s, f) > 0 THEN 1 ELSE 0),
                    snd_una |-> s.qp[f].snd_una, gap |-> s.qp[f].gap, nextAvail |-> s.qp[f].gap]
<1>1. s \in Device /\ Rising(s.grp) /\ \A x \in Flows : QpOK(s, x)
  BY DEF DeviceInv
<1>2. n \in Nat /\ i \in Nat /\ i < n /\ n <= N /\ s.rrlast \in Nat
  <2>1. n \in Nat /\ s.rrlast \in Nat /\ \A k \in 1 .. n : s.grp[k] <= N
    BY <1>1, DeviceFields, Numbers
  <2>2. n <= N
    BY <1>1, <2>1, RisingIsShort, DeviceFields, Numbers
  <2>. QED  BY <2>1, <2>2
<1>3. f \in Flows
  BY <1>1, FlowAtType
<1>4. s.qp \in [Flows -> QpType] /\ s.qp[f] \in QpType /\ s.skipped \in [Flows -> Nat]
  BY <1>1, <1>3, DeviceFields
<1>5. Skipped(s, f) \in [Flows -> Nat]
  BY <1>4 DEF Skipped
<1>6. new \in QpType
  <2>1. s.qp[f].snd_nxt \in Nat /\ s.qp[f].snd_una \in Nat /\ s.qp[f].gap \in Nat
    BY <1>1, <1>3, DeviceFields
  <2>. QED  BY <2>1 DEF QpType
<1>7. t = [[s EXCEPT !.rrlast = i, !.qp[f] = new, !.skipped = Skipped(s, f)] EXCEPT !.txEnd = 1]
  <2>1. [s.qp[f] EXCEPT !.snd_nxt = s.qp[f].snd_nxt + (IF BytesLeft(s, f) > 0 THEN 1 ELSE 0),
                        !.nextAvail = s.qp[f].gap] = new
    BY <1>4, QpExcept
  <2>. HIDE DEF new
  <2>. QED  BY <2>1 DEF SendPacket, TransmitStart
<1>. HIDE DEF t, new
<1>8. /\ t \in Device /\ t.rrlast = i /\ t.qp = [s.qp EXCEPT ![f] = new]
      /\ t.skipped = Skipped(s, f) /\ t.txEnd = 1
      /\ t.grp = s.grp /\ t.ackQ = s.ackQ /\ t.nextSend = s.nextSend /\ t.strayed = s.strayed
  BY <1>1, <1>2, <1>4, <1>5, <1>6, <1>7 DEF Device
<1>9. t.qp[f] = new /\ \A x \in Flows : x # f => t.qp[x] = s.qp[x]
  BY <1>3, <1>4, <1>8
<1>10. ASSUME NEW x \in Flows PROVE QpOK(t, x)
  <2>1. CASE x # f
    BY <1>1, <1>9, <2>1 DEF QpOK
  <2>2. CASE x = f
    <3>1. /\ s.qp[f].snd_nxt \in Nat /\ s.qp[f].snd_una \in Nat /\ s.qp[f].gap \in Gaps[f]
          /\ s.qp[f].snd_nxt <= Size[f] /\ s.qp[f].snd_una <= Size[f]
          /\ setting.lateNacks \/ s.qp[f].snd_una <= s.qp[f].snd_nxt
      BY <1>1, <1>3, DeviceFields DEF QpOK
    <3>2. s.qp[f].gap \in Nat /\ s.qp[f].gap <= MaxGap(f) /\ MaxGap(f) \in Nat /\ Size[f] \in Nat
      BY <1>3, <3>1, GapFacts, Numbers
    <3>3. /\ new.gap = s.qp[f].gap /\ new.nextAvail = s.qp[f].gap /\ new.snd_una = s.qp[f].snd_una
          /\ new.snd_nxt \in Nat /\ s.qp[f].snd_nxt <= new.snd_nxt /\ new.snd_nxt <= Size[f]
      BY <3>1, <3>2 DEF new, BytesLeft
    <3>. HIDE DEF f
    <3>4. /\ new.snd_nxt <= Size[f] /\ new.snd_una <= Size[f] /\ new.gap \in Gaps[f]
          /\ setting.lateNacks \/ new.snd_una <= new.snd_nxt
      BY <3>1, <3>2, <3>3
    <3>5. /\ -MaxGap(f) <= new.nextAvail /\ new.nextAvail <= MaxGap(f) /\ 0 <= new.nextAvail
          /\ new.gap - MaxGap(f) <= new.nextAvail /\ new.nextAvail <= new.gap
      BY <3>2, <3>3
    <3>6. t.qp[x] = new
      BY <1>9, <2>2
    <3>. QED  BY <2>2, <3>4, <3>5, <3>6 DEF QpOK
  <2>. QED  BY <2>1, <2>2
<1>11. Nearer(t)
  <2>. SUFFICES ASSUME NEW g \in Flows, t.skipped[g] > 0
                PROVE  \E j \in 0 .. n - 1 : FlowAt(t, j) = g /\ t.skipped[g] + Distance(t, j) <= n
    BY <1>2, <1>8 DEF Nearer
  <2>1. g # f /\ g \in ToSet(s.grp) /\ Ready(s, g) /\ t.skipped[g] = s.skipped[g] + 1
    BY <1>8 DEF Skipped, Ready
  <2>2. s.skipped[g] \in Nat
    BY <1>4
  <2>3. \A j \in 0 .. n - 1 : FlowAt(t, j) = FlowAt(s, j)
    BY <1>8 DEF FlowAt
  <2>4. \A j \in 0 .. n - 1 : Distance(t, j) = IF j > i THEN j - i ELSE j - i + n
    BY <1>8 DEF Distance
  <2>5. CASE s.skipped[g] = 0
    <3>1. PICK j \in 0 .. n - 1 : g = FlowAt(s, j)
      BY <1>1, <2>1, FlowAtType
    <3>2. j # i
      BY <2>1, <3>1
    <3>3. 1 + Distance(t, j) <= n
      BY <1>2, <2>4, <3>2
    <3>. QED  BY <2>1, <2>3, <2>5, <3>1, <3>3
  <2>6. CASE s.skipped[g] > 0
    <3>1. s.rrlast < n
      BY <2>6 DEF DeviceInv, Nearer
    <3>2. PICK j \in 0 .. n - 1 : FlowAt(s, j) = g /\ s.skipped[g] + Distance(s, j) <= n
      BY <2>6 DEF DeviceInv, Nearer
    <3>3. j # i
      BY <2>1, <3>2
    <3>4. Distance(s, i) < Distance(s, j)
      BY <2>1, <2>6, <3>2, <3>3 DEF FirstOfSkipped
    <3>5. Distance(t, j) < Distance(s, j) /\ Distance(t, j) \in Int /\ Distance(s, j) \in Int
      <4>1. s.rrlast \in 0 .. n - 1
        BY <1>2, <3>1
      <4>2. Distance(t, j) = Ahead(i, j, n) /\ Distance(s, j) = Ahead(s.rrlast, j, n)
            /\ Distance(s, i) = Ahead(s.rrlast, i, n)
        BY <2>4 DEF Distance, Ahead
      <4>. QED  BY <1>2, <3>3, <3>4, <4>1, <4>2, AheadOfNext
    <3>6. s.skipped[g] + 1 + Distance(t, j) <= n
      <4>1. s.skipped[g] \in Nat
        BY <1>4
      <4>. HIDE DEF n
      <4>. QED  BY <1>2, <3>2, <3>5, <4>1
    <3>. QED  BY <2>1, <2>3, <3>2, <3>6
  <2>. QED  BY <2>2, <2>5, <2>6
<1>12. DeviceInv(t)
  BY <1>1, <1>2, <1>8, <1>10, <1>11, Numbers DEF DeviceInv
<1>. QED  BY <1>8, <1>9, <1>12 DEF t

-----------------------------------------------------------------------------
(* What DequeueAndTransmit makes of a device                               *)

(* t is s but for its group, from which flows may have gone, and for what  *)
(* does not bear on who may send.                                          *)
SameFlows(s, t) ==
    /\ t.qp = s.qp /\ t.paused = s.paused /\ t.ackQ = s.ackQ
    /\ ToSet(t.grp) \subseteq ToSet(s.grp)

Outcome(s, u) ==
    /\ DeviceInv(u) /\ u.ackQ <= s.ackQ /\ ToSet(u.grp) \subseteq ToSet(s.grp)
    /\ StallsBehind(u)
    /\ Sound => \A f \in Flows : Finished(s, f) => u.qp[f].snd_nxt = s.qp[f].snd_nxt

LEMMA IdleOutcome ==
    ASSUME NEW s, DeviceInv(s), s.txEnd # None
    PROVE  Outcome(s, s)
<1>1. s.ackQ \in Nat
  BY DeviceFields DEF DeviceInv
<1>. QED  BY <1>1 DEF Outcome, StallsBehind

LEMMA AnswerOutcome ==
    ASSUME NEW s, DeviceInv(s), s.ackQ > 0
    PROVE  Outcome(s, SendAnswer(s))
<1>. DEFINE u == SendAnswer(s)
<1>1. s \in Device /\ s.ackQ \in Nat
  BY DeviceFields DEF DeviceInv
<1>2. /\ u \in Device /\ u.qp = s.qp /\ u.grp = s.grp /\ u.rrlast = s.rrlast /\ u.ackQ = s.ackQ - 1
      /\ u.nextSend = s.nextSend /\ u.skipped = s.skipped /\ u.strayed = s.strayed /\ u.txEnd = 1
  <2>1. u = [s EXCEPT !.ackQ = s.ackQ - 1, !.txEnd = 1]
    BY <1>1 DEF SendAnswer, TransmitStart, Device
  <2>2. s.ackQ - 1 \in Nat
    BY <1>1
  <2>. HIDE DEF u
  <2>. QED  BY <1>1, <2>1, <2>2 DEF Device
<1>. HIDE DEF u
<1>3. \A f \in Flows : QpOK(u, f)
  BY <1>2 DEF DeviceInv, QpOK
<1>4. Nearer(u)
  BY <1>2 DEF DeviceInv, Nearer, FlowAt, Distance
<1>5. DeviceInv(u)
  BY <1>2, <1>3, <1>4 DEF DeviceInv
<1>6. StallsBehind(u)
  BY <1>2, Numbers DEF StallsBehind
<1>. QED  BY <1>1, <1>2, <1>5, <1>6 DEF Outcome, u

LEMMA ScheduleOutcome ==
    ASSUME NEW s, NEW t, DeviceInv(t), s \in Device, SameFlows(s, t),
           \A f \in ToSet(s.grp) : ~ Ready(s, f)
    PROVE  Outcome(s, ScheduleNextSend(t))
<1>. DEFINE T == TimesLeft(t)
            u == ScheduleNextSend(t)
<1>1. t \in Device /\ s.ackQ \in Nat /\ \A f \in Flows : QpOK(t, f) /\ t.qp[f].nextAvail \in Int
  BY DeviceFields DEF DeviceInv
<1>2. \A f \in ToSet(t.grp) : f \in Flows
  BY <1>1, FlowAtType
<1>3. \A f \in ToSet(t.grp) : ~ Sendable(t, f) \/ ~ Due(t, f)
  BY DEF SameFlows, Ready, Sendable, Due, BytesLeft, Blocked, WinBound, OnTheFly
<1>4. \A x \in T : x \in Int /\ -Longest <= x /\ x <= Longest
  <2>. SUFFICES ASSUME NEW f \in ToSet(t.grp)
                PROVE  /\ t.qp[f].nextAvail \in Int /\ -Longest <= t.qp[f].nextAvail
                       /\ t.qp[f].nextAvail <= Longest
    BY DEF TimesLeft
  <2>1. f \in Flows /\ MaxGap(f) \in Nat /\ MaxGap(f) <= Longest /\ Longest \in Nat
    BY <1>2, GapFacts, LongestFacts
  <2>. QED  BY <1>1, <2>1 DEF QpOK
<1>5. T # {} => Min(T) \in T /\ \A x \in T : Min(T) <= x
  <2>1. T \subseteq Int /\ -Longest \in Int
    BY <1>4, LongestFacts
  <2>. HIDE DEF T
  <2>. QED  BY <1>4, <2>1, MinOfInts
<1>6. \A f \in ToSet(t.grp) : BytesLeft(t, f) > 0 => t.qp[f].nextAvail \in T
  BY DEF TimesLeft
<1>7. u = IF t.nextSend = None /\ T # {} /\ Min(T) > 0 THEN [t EXCEPT !.nextSend = Min(T)] ELSE t
  BY DEF ScheduleNextSend
<1>. HIDE DEF T, u
<1>8. CASE t.nextSend = None /\ T # {} /\ Min(T) > 0
  <2>1. Min(T) \in Nat /\ Min(T) <= Longest
    BY <1>4, <1>5, <1>8
  <2>2. /\ u \in Device /\ u.qp = t.qp /\ u.grp = t.grp /\ u.rrlast = t.rrlast /\ u.ackQ = t.ackQ
        /\ u.nextSend = Min(T) /\ u.skipped = t.skipped /\ u.strayed = t.strayed
    BY <1>1, <1>7, <1>8, <2>1 DEF Device
  <2>3. \A f \in Flows : QpOK(u, f)
    BY <1>1, <2>2 DEF QpOK
  <2>4. Nearer(u)
    BY <2>2 DEF DeviceInv, Nearer, FlowAt, Distance
  <2>5. DeviceInv(u)
    BY <2>1, <2>2, <2>3, <2>4 DEF DeviceInv
  <2>6. StallsBehind(u)
    BY <2>1, <2>2, Numbers DEF StallsBehind
  <2>. QED  BY <1>1, <2>2, <2>5, <2>6 DEF Outcome, SameFlows, u
<1>9. CASE ~ (t.nextSend = None /\ T # {} /\ Min(T) > 0)
  <2>1. u = t
    BY <1>7, <1>9
  <2>2. ASSUME NEW f \in Flows, f \in ToSet(t.grp), Sendable(t, f), t.nextSend = None
        PROVE  \E g \in ToSet(t.grp) \ {f} : BytesLeft(t, g) > 0 /\ Blocked(t, g) /\ Due(t, g)
    <3>1. T # {}
      BY <1>6, <2>2 DEF Sendable
    <3>2. Min(T) \in T /\ Min(T) \in Int /\ ~ (Min(T) > 0)
      BY <1>4, <1>5, <1>9, <2>2, <3>1
    <3>3. PICK g \in ToSet(t.grp) : BytesLeft(t, g) > 0 /\ Min(T) = t.qp[g].nextAvail
      BY <3>2 DEF T, TimesLeft
    <3>4. Due(t, g)
      BY <3>2, <3>3 DEF Due
    <3>5. ~ Sendable(t, g)
      BY <1>3, <3>4
    <3>. QED  BY <2>2, <3>3, <3>4, <3>5 DEF Sendable
  <2>3. StallsBehind(t)
    BY <2>2 DEF StallsBehind
  <2>. QED  BY <1>1, <2>1, <2>3 DEF Outcome, SameFlows, u
<1>. QED  BY <1>8, <1>9

LEMMA ServeOutcome ==
    ASSUME NEW s, DeviceInv(s), NEW t, DeviceInv(t), SameFlows(s, t),
           NEW res \in Nat, NEW chosen \in Flows, Ready(s, chosen),
           res < Len(t.grp) => FirstOfSkipped(t, res),
           res >= Len(t.grp) => \A f \in Flows : t.skipped[f] = 0,
           Sound => res < Len(t.grp) /\ FlowAt(t, res) = chosen
    PROVE  Outcome(s, Serve(t, res, chosen))
<1>. DEFINE u == Serve(t, res, chosen)
<1>1. t \in Device /\ s \in Device /\ s.ackQ \in Nat /\ Len(t.grp) \in Nat
  BY DeviceFields DEF DeviceInv
<1>2. CASE res >= Len(t.grp)
  <2>1. u = [t EXCEPT !.strayed = TRUE, !.grp = << >>]
    BY <1>2 DEF Serve, Stray
  <2>. HIDE DEF u
  <2>2. << >> \in Seq(Flows) /\ Len(<< >>) = 0 /\ DOMAIN << >> = {}
    BY EmptySeq
  <2>3. /\ u \in Device /\ u.qp = t.qp /\ u.grp = << >> /\ u.rrlast = t.rrlast /\ u.ackQ = t.ackQ
        /\ u.nextSend = t.nextSend /\ u.skipped = t.skipped
    BY <1>1, <2>1, <2>2 DEF Device
  <2>4. \A f \in Flows : QpOK(u, f)
    BY <2>3 DEF DeviceInv, QpOK
  <2>5. Nearer(u)
    BY <1>2, <2>3 DEF Nearer
  <2>6. Rising(u.grp) /\ ToSet(u.grp) = {}
    BY <2>2, <2>3 DEF Rising, ToSet
  <2>7. ~ Sound
    BY <1>1, <1>2
  <2>8. DeviceInv(u)
    BY <2>3, <2>4, <2>5, <2>6, <2>7 DEF DeviceInv
  <2>9. StallsBehind(u)
    BY <2>6 DEF StallsBehind
  <2>. QED  BY <1>1, <2>3, <2>6, <2>7, <2>8, <2>9 DEF Outcome, SameFlows, u
<1>3. CASE ~ (res >= Len(t.grp))
  <2>. DEFINE v == SendPacket(t, res)
              f == FlowAt(t, res)
  <2>1. res \in 0 .. Len(t.grp) - 1 /\ FirstOfSkipped(t, res)
    BY <1>1, <1>3
  <2>2. /\ DeviceInv(v) /\ v.txEnd = 1 /\ v.ackQ = t.ackQ /\ v.grp = t.grp
        /\ v.strayed = t.strayed
        /\ \A x \in Flows : x # f => v.qp[x] = t.qp[x]
    BY <2>1, SendKeeps
  <2>3. u = [v EXCEPT !.strayed = v.strayed \/ f # chosen]
    BY <1>3 DEF Serve
  <2>. HIDE DEF u, v, f
  <2>4. v \in Device /\ v.strayed \in BOOLEAN
    BY <2>2, DeviceFields DEF DeviceInv
  <2>5. (v.strayed \/ f # chosen) \in BOOLEAN
    OBVIOUS
  <2>6. /\ u \in Device /\ u.qp = v.qp /\ u.grp = v.grp /\ u.rrlast = v.rrlast /\ u.ackQ = v.ackQ
        /\ u.nextSend = v.nextSend /\ u.skipped = v.skipped /\ u.txEnd = v.txEnd
        /\ u.strayed <=> v.strayed \/ f # chosen
    BY <2>3, <2>4, <2>5 DEF Device
  <2>7. \A x \in Flows : QpOK(u, x)
    BY <2>2, <2>6 DEF DeviceInv, QpOK
  <2>8. Nearer(u)
    BY <2>2, <2>6 DEF DeviceInv, Nearer, FlowAt, Distance
  <2>9. Sound => f = chosen /\ ~ v.strayed
    BY <2>2 DEF DeviceInv, f
  <2>10. DeviceInv(u)
    BY <2>2, <2>6, <2>7, <2>8, <2>9 DEF DeviceInv
  <2>11. StallsBehind(u)
    BY <2>2, <2>6, Numbers DEF StallsBehind
  <2>12. ASSUME Sound, NEW x \in Flows, Finished(s, x)
         PROVE  u.qp[x].snd_nxt = s.qp[x].snd_nxt
    <3>1. x # chosen
      BY <1>1, <2>12, FinishedIsNotSendable DEF DeviceInv, Ready
    <3>. QED  BY <2>2, <2>6, <2>9, <2>12, <3>1 DEF SameFlows
  <2>. QED  BY <1>1, <2>2, <2>6, <2>10, <2>11, <2>12 DEF Outcome, SameFlows, u
<1>. QED  BY <1>2, <1>3

(* Where nothing is finished and sendable, the renumbered index names the  *)
(* flow that was chosen.                                                   *)
LEMMA RenumberedWell ==
    ASSUME NEW s, DeviceInv(s), NEW from \in 0 .. Len(s.grp) - 1, NEW res \in 0 .. Len(s.grp) - 1,
           ~ Sendable(s, FlowAt(s, from)), Sendable(s, FlowAt(s, res))
    PROVE  /\ Renumber(s, from, res) \in Nat
           /\ Sound => /\ Renumber(s, from, res) < Len(Compact(s, from).grp)
                       /\ FlowAt(Compact(s, from), Renumber(s, from, res)) = FlowAt(s, res)
<1>. DEFINE t == Compact(s, from)
            g == Kept(s, from)[Len(s.grp) - 1]
            m == Len(Kept(s, from)[res - 1])
<1>1. s \in Device /\ Rising(s.grp) /\ Len(s.grp) \in Nat /\ from # res
  BY DeviceFields DEF DeviceInv
<1>2. t.grp = g
  BY <1>1 DEF Compact, Device
<1>3. /\ g \in Seq(Flows) /\ from <= Len(g) /\ Len(g) \in Nat
      /\ \A k \in 1 .. from : g[k] = s.grp[k]
      /\ \A j \in from + 1 .. Len(s.grp) - 1 : ~ Finished(s, FlowAt(s, j)) =>
            /\ Len(Kept(s, from)[j - 1]) < Len(g)
            /\ Len(Kept(s, from)[j - 1]) \in Nat
            /\ g[Len(Kept(s, from)[j - 1]) + 1] = FlowAt(s, j)
  BY <1>1, KeptIsWell DEF KeptWell
<1>4. CASE res > from
  <2>1. res \in from + 1 .. Len(s.grp) - 1 /\ FlowAt(s, res) \in Flows
    BY <1>1, <1>4, FlowAtType
  <2>2. ~ Finished(s, FlowAt(s, res)) => m < Len(g) /\ m \in Nat /\ g[m + 1] = FlowAt(s, res)
    BY <1>3, <2>1
  <2>3. Sound => ~ Finished(s, FlowAt(s, res))
    BY <1>1, <2>1, FinishedIsNotSendable DEF DeviceInv
  <2>4. Renumber(s, from, res) = IF ~ Finished(s, FlowAt(s, res)) THEN m ELSE res
    BY <1>4 DEF Renumber
  <2>. HIDE DEF m, g, t
  <2>. QED  BY <1>2, <2>2, <2>3, <2>4 DEF FlowAt, t
<1>5. CASE res < from
  <2>1. res + 1 \in 1 .. from /\ res < Len(g) /\ res \in Nat
    BY <1>3, <1>5
  <2>2. Renumber(s, from, res) = res
    BY <1>5 DEF Renumber
  <2>3. g[res + 1] = s.grp[res + 1]
    BY <1>3, <2>1
  <2>. HIDE DEF g, t
  <2>. QED  BY <1>2, <2>1, <2>2, <2>3 DEF FlowAt, t
<1>. QED  BY <1>1, <1>4, <1>5

LEMMA DequeueOutcome ==
    ASSUME NEW s, DeviceInv(s), DequeueAndTransmit(s)
    PROVE  Outcome(s, nic')
<1>1. CASE s.txEnd # None /\ nic' = s
  BY <1>1, IdleOutcome
<1>2. CASE s.ackQ > 0 /\ nic' = SendAnswer(s)
  BY <1>2, AnswerOutcome
<1>3. ASSUME NEW passed, passed = Passed(s, Scan(s).seen),
             NEW t, t = (IF passed = {} THEN s ELSE Compact(s, Min(passed))),
             nic' = IF Scan(s).res = None THEN ScheduleNextSend(t)
                    ELSE Serve(t, IF passed = {} THEN Scan(s).res
                                  ELSE Renumber(s, Min(passed), Scan(s).res),
                               FlowAt(s, Scan(s).res))
      PROVE  Outcome(s, nic')
  <2>. DEFINE n == Len(s.grp)
              res == Scan(s).res
  <2>1. s \in Device /\ n \in Nat /\ s.rrlast \in Nat /\ Rising(s.grp)
    BY DeviceFields DEF DeviceInv
  <2>2. passed \subseteq 0 .. n - 1 /\ \A i \in passed : ~ Sendable(s, FlowAt(s, i))
    BY <1>3, <2>1, ScanFinds DEF Passed
  <2>3. passed # {} => Min(passed) \in passed /\ Min(passed) \in 0 .. n - 1
                       /\ ~ Sendable(s, FlowAt(s, Min(passed)))
    <3>. SUFFICES ASSUME passed # {} PROVE Min(passed) \in passed
      BY <2>2
    <3>1. passed \subseteq Int /\ 0 \in Int /\ \A i \in passed : 0 <= i
      BY <2>1, <2>2
    <3>. QED  BY <3>1, MinOfInts
  <2>4. /\ DeviceInv(t) /\ SameFlows(s, t)
        /\ passed # {} => t.skipped = [f \in Flows |-> 0]
    <3>1. CASE passed = {}
      BY <1>3, <3>1 DEF SameFlows
    <3>2. CASE passed # {}
      <4>1. /\ DeviceInv(t) /\ ToSet(t.grp) \subseteq ToSet(s.grp)
            /\ t = [s EXCEPT !.grp = t.grp, !.skipped = [f \in Flows |-> 0]]
        BY <1>3, <2>3, <3>2, CompactKeeps
      <4>2. /\ t.qp = s.qp /\ t.paused = s.paused /\ t.ackQ = s.ackQ
            /\ t.skipped = [f \in Flows |-> 0]
        BY <2>1, <4>1 DEF Device
      <4>. QED  BY <4>1, <4>2 DEF SameFlows
    <3>. QED  BY <3>1, <3>2
  <2>5. CASE res = None
    <3>1. \A f \in ToSet(s.grp) : ~ Ready(s, f)
      BY <2>1, <2>5, ScanFinds, FlowAtType
    <3>. QED  BY <1>3, <2>1, <2>4, <2>5, <3>1, ScheduleOutcome
  <2>6. CASE res # None
    <3>1. /\ res \in 0 .. n - 1 /\ Ready(s, FlowAt(s, res)) /\ Sendable(s, FlowAt(s, res))
          /\ s.rrlast < n => \A j \in 0 .. n - 1 :
                Ready(s, FlowAt(s, j)) => Distance(s, res) <= Distance(s, j)
      BY <2>1, <2>6, ScanFinds DEF Ready
    <3>2. FlowAt(s, res) \in Flows
      BY <2>1, <3>1, FlowAtType
    <3>3. CASE passed = {}
      <4>1. t = s /\ nic' = Serve(s, res, FlowAt(s, res)) /\ res \in Nat /\ res < n
        BY <1>3, <2>1, <2>6, <3>1, <3>3
      <4>2. FirstOfSkipped(s, res)
        <5>. SUFFICES ASSUME NEW j \in 0 .. n - 1, j # res, Ready(s, FlowAt(s, j)),
                             s.skipped[FlowAt(s, j)] > 0
                      PROVE  Distance(s, res) < Distance(s, j)
          BY DEF FirstOfSkipped
        <5>1. s.rrlast < n
          <6>1. FlowAt(s, j) \in Flows
            BY <2>1, FlowAtType
          <6>. QED  BY <6>1 DEF DeviceInv, Nearer
        <5>2. Distance(s, res) <= Distance(s, j)
          BY <3>1, <5>1
        <5>3. /\ Distance(s, res) \in 1 .. n /\ Index(s, Distance(s, res)) = res
              /\ Distance(s, j) \in 1 .. n /\ Index(s, Distance(s, j)) = j
          BY <2>1, <3>1, <5>1, IndexOfDistance
        <5>. QED  BY <5>2, <5>3
      <4>3. SameFlows(s, s)
        BY <2>4, <4>1
      <4>. QED  BY <2>1, <3>1, <3>2, <4>1, <4>2, <4>3, ServeOutcome
    <3>4. CASE passed # {}
      <4>. DEFINE from == Min(passed)
                  r == Renumber(s, from, res)
      <4>1. t = Compact(s, from) /\ nic' = Serve(t, r, FlowAt(s, res))
        BY <1>3, <2>6, <3>4
      <4>2. r \in Nat /\ (Sound => r < Len(t.grp) /\ FlowAt(t, r) = FlowAt(s, res))
        BY <2>3, <3>1, <3>4, <4>1, RenumberedWell
      <4>. HIDE DEF from, r
      <4>3. \A f \in Flows : t.skipped[f] = 0
        BY <2>4, <3>4
      <4>4. r < Len(t.grp) => FirstOfSkipped(t, r)
        <5>1. \A j \in 0 .. Len(t.grp) - 1 : FlowAt(t, j) \in Flows
          BY <2>4, FlowAtType DEF DeviceInv
        <5>. QED  BY <4>3, <5>1 DEF FirstOfSkipped
      <4>. QED  BY <2>4, <3>1, <3>2, <4>1, <4>2, <4>3, <4>4, ServeOutcome
    <3>. QED  BY <3>3, <3>4
  <2>. QED  BY <2>5, <2>6
<1>. QED  BY <1>1, <1>2, <1>3 DEF DequeueAndTransmit

-----------------------------------------------------------------------------
(* The handlers                                                            *)

(* A change of queue pairs, times and answers that leaves the group alone. *)
LEMMA GroupAlone ==
    ASSUME NEW s, DeviceInv(s), NEW u \in Device,
           u.grp = s.grp, u.rrlast = s.rrlast, u.skipped = s.skipped, u.strayed = s.strayed,
           \A f \in Flows : QpOK(u, f),
           u.nextSend # None => u.nextSend <= Longest
    PROVE  DeviceInv(u)
<1>1. Nearer(u)
  BY DEF DeviceInv, Nearer, FlowAt, Distance
<1>. QED  BY <1>1 DEF DeviceInv

(* Only queue pair f of the device changes, and perhaps the next event.    *)
OnlyQp(s, u, f) ==
    /\ u.grp = s.grp /\ u.ackQ = s.ackQ
    /\ \A g \in Flows : g # f => u.qp[g] = s.qp[g]

LEMMA QpChange ==
    ASSUME NEW s, DeviceInv(s), NEW f \in Flows, NEW q \in QpType,
           NEW e \in {None} \cup Nat, e # None => e <= Longest,
           QpOK([s EXCEPT !.qp[f] = q, !.nextSend = e], f)
    PROVE  /\ DeviceInv([s EXCEPT !.qp[f] = q, !.nextSend = e])
           /\ OnlyQp(s, [s EXCEPT !.qp[f] = q, !.nextSend = e], f)
           /\ [s EXCEPT !.qp[f] = q, !.nextSend = e].qp[f] = q
<1>. DEFINE u == [s EXCEPT !.qp[f] = q, !.nextSend = e]
<1>1. s \in Device /\ s.qp \in [Flows -> QpType]
  BY DeviceFields DEF DeviceInv
<1>2. /\ u \in Device /\ u.grp = s.grp /\ u.rrlast = s.rrlast /\ u.skipped = s.skipped
      /\ u.strayed = s.strayed /\ u.ackQ = s.ackQ /\ u.nextSend = e
      /\ u.qp[f] = q /\ \A g \in Flows : g # f => u.qp[g] = s.qp[g]
  BY <1>1 DEF Device
<1>. HIDE DEF u
<1>3. \A g \in Flows : QpOK(u, g)
  <2>1. ASSUME NEW g \in Flows, g # f PROVE QpOK(u, g)
    BY <1>2, <2>1 DEF DeviceInv, QpOK
  <2>2. QpOK(u, f)
    BY DEF u
  <2>. QED  BY <2>1, <2>2
<1>4. DeviceInv(u)
  BY <1>2, <1>3, GroupAlone
<1>. QED  BY <1>2, <1>4 DEF OnlyQp, u

LEMMA AcknowledgeWell ==
    ASSUME NEW s, DeviceInv(s), NEW f \in Flows, NEW seq \in Nat, seq <= Size[f],
           setting.lateNacks \/ seq <= s.qp[f].snd_nxt
    PROVE  /\ DeviceInv(Acknowledge(s, f, seq)) /\ OnlyQp(s, Acknowledge(s, f, seq), f)
           /\ Acknowledge(s, f, seq).qp[f].snd_nxt = s.qp[f].snd_nxt
<1>. DEFINE q == s.qp[f]
            una == IF seq > q.snd_una THEN seq ELSE q.snd_una
            p == [snd_nxt |-> q.snd_nxt, snd_una |-> una, gap |-> q.gap, nextAvail |-> q.nextAvail]
            u == [s EXCEPT !.qp[f] = p, !.nextSend = s.nextSend]
<1>1. /\ s \in Device /\ q \in QpType /\ s.qp \in [Flows -> QpType] /\ QpOK(s, f)
      /\ q.snd_nxt \in Nat /\ q.snd_una \in Nat /\ s.nextSend \in {None} \cup Nat
      /\ q.gap \in Nat /\ q.nextAvail \in Int
  BY DeviceFields DEF DeviceInv
<1>2. una \in Nat /\ una <= Size[f] /\ (setting.lateNacks \/ una <= q.snd_nxt)
  BY <1>1 DEF QpOK
<1>3. Acknowledge(s, f, seq) = [s EXCEPT !.qp[f].snd_una = una]
  BY <1>1 DEF Acknowledge, Device
<1>. HIDE DEF una
<1>4. p \in QpType
  BY <1>1, <1>2 DEF QpType
<1>5. [s EXCEPT !.qp[f].snd_una = una] = u
  <2>1. [q EXCEPT !.snd_una = una] = p
    BY <1>1 DEF QpType
  <2>. QED  BY <1>1, <2>1 DEF Device
<1>6. u.qp[f] = p
  BY <1>1 DEF Device
<1>7. QpOK(u, f)
  <2>. HIDE DEF u
  <2>. QED  BY <1>1, <1>2, <1>6 DEF QpOK
<1>8. s.nextSend # None => s.nextSend <= Longest
  BY DEF DeviceInv
<1>9. DeviceInv(u) /\ OnlyQp(s, u, f)
  <2>. HIDE DEF p
  <2>. QED  BY <1>1, <1>4, <1>7, <1>8, QpChange
<1>. QED  BY <1>3, <1>5, <1>6, <1>9

LEMMA RecoverWell ==
    ASSUME NEW s, DeviceInv(s), NEW f \in Flows
    PROVE  DeviceInv(RecoverQueue(s, f)) /\ OnlyQp(s, RecoverQueue(s, f), f)
<1>. DEFINE q == s.qp[f]
            p == [snd_nxt |-> q.snd_una, snd_una |-> q.snd_una, gap |-> q.gap, nextAvail |-> q.nextAvail]
            u == [s EXCEPT !.qp[f] = p, !.nextSend = s.nextSend]
<1>1. /\ s \in Device /\ q \in QpType /\ s.qp \in [Flows -> QpType] /\ QpOK(s, f)
      /\ q.snd_nxt \in Nat /\ q.snd_una \in Nat /\ s.nextSend \in {None} \cup Nat
      /\ q.gap \in Nat /\ q.nextAvail \in Int
  BY DeviceFields DEF DeviceInv
<1>2. p \in QpType
  BY <1>1 DEF QpType
<1>3. RecoverQueue(s, f) = u
  <2>1. [q EXCEPT !.snd_nxt = q.snd_una] = p
    BY <1>1 DEF QpType
  <2>. QED  BY <1>1, <2>1 DEF Device, RecoverQueue
<1>4. u.qp[f] = p
  BY <1>1 DEF Device
<1>5. QpOK(u, f)
  <2>. HIDE DEF u
  <2>. QED  BY <1>1, <1>4 DEF QpOK
<1>6. s.nextSend # None => s.nextSend <= Longest
  BY DEF DeviceInv
<1>7. DeviceInv(u) /\ OnlyQp(s, u, f)
  <2>. HIDE DEF p
  <2>. QED  BY <1>1, <1>2, <1>5, <1>6, QpChange
<1>. QED  BY <1>3, <1>7

(* Past keeps a next-available time within what the rate allows.           *)
LEMMA PastWell ==
    ASSUME NEW f \in Flows, NEW gap \in Gaps[f], NEW t \in Int,
           setting.shifts => t <= gap, ~ setting.shifts => t <= MaxGap(f)
    PROVE  /\ Past(t, f, gap) \in Int /\ -MaxGap(f) <= Past(t, f, gap) /\ Past(t, f, gap) <= MaxGap(f)
           /\ setting.shifts => gap - MaxGap(f) <= Past(t, f, gap) /\ Past(t, f, gap) <= gap
           /\ ~ setting.shifts => 0 <= Past(t, f, gap)
           /\ t <= 0 => Past(t, f, gap) <= 0
<1>1. MaxGap(f) \in Nat /\ gap \in Nat /\ gap <= MaxGap(f) /\ gap >= 1
  BY GapFacts
<1>2. CASE setting.shifts
  <2>1. Past(t, f, gap) = IF t < gap - MaxGap(f) THEN gap - MaxGap(f) ELSE t
    BY <1>2 DEF Past
  <2>. QED  BY <1>1, <1>2, <2>1
<1>3. CASE ~ setting.shifts
  <2>1. Past(t, f, gap) = IF t < 0 THEN 0 ELSE t
    BY <1>3 DEF Past
  <2>. QED  BY <1>1, <1>3, <2>1
<1>. QED  BY <1>2, <1>3

LEMMA QpRated ==
    ASSUME NEW q \in QpType, NEW x, NEW y
    PROVE  [q EXCEPT !.nextAvail = x, !.gap = y] =
               [snd_nxt |-> q.snd_nxt, snd_una |-> q.snd_una, gap |-> y, nextAvail |-> x]
<1>1. q = [snd_nxt |-> q.snd_nxt, snd_una |-> q.snd_una, gap |-> q.gap, nextAvail |-> q.nextAvail]
  BY DEF QpType
<1>2. [q EXCEPT !.nextAvail = x] = [snd_nxt |-> q.snd_nxt, snd_una |-> q.snd_una, gap |-> q.gap,
                                    nextAvail |-> x]
  BY <1>1
<1>3. [[snd_nxt |-> q.snd_nxt, snd_una |-> q.snd_una, gap |-> q.gap, nextAvail |-> x]
          EXCEPT !.gap = y] = [snd_nxt |-> q.snd_nxt, snd_una |-> q.snd_una, gap |-> y, nextAvail |-> x]
  OBVIOUS
<1>. QED  BY <1>2, <1>3

LEMMA NewRateWell ==
    ASSUME NEW s, DeviceInv(s), NEW f \in Flows, NEW gap \in Gaps[f]
    PROVE  DeviceInv(NewRate(s, f, gap)) /\ OnlyQp(s, NewRate(s, f, gap), f)
<1>. DEFINE q == s.qp[f]
            t == IF setting.shifts THEN Past(q.nextAvail + gap - q.gap, f, gap) ELSE q.nextAvail
            e == IF setting.shifts /\ s.nextSend # None /\ t < s.nextSend
                 THEN (IF t < 0 THEN 0 ELSE t) ELSE s.nextSend
            p == [snd_nxt |-> q.snd_nxt, snd_una |-> q.snd_una, gap |-> gap, nextAvail |-> t]
            u == [s EXCEPT !.qp[f] = p, !.nextSend = e]
<1>1. /\ s \in Device /\ q \in QpType /\ s.qp \in [Flows -> QpType] /\ QpOK(s, f)
      /\ q.snd_nxt \in Nat /\ q.snd_una \in Nat /\ s.nextSend \in {None} \cup Nat
      /\ q.gap \in Nat /\ q.nextAvail \in Int
  BY DeviceFields DEF DeviceInv
<1>2. gap \in Nat /\ gap <= MaxGap(f) /\ MaxGap(f) \in Nat /\ MaxGap(f) <= Longest /\ Longest \in Nat
  BY GapFacts, LongestFacts
<1>3. /\ t \in Int /\ -MaxGap(f) <= t /\ t <= MaxGap(f)
      /\ setting.shifts => gap - MaxGap(f) <= t /\ t <= gap
      /\ ~ setting.shifts => 0 <= t
  <2>1. CASE setting.shifts
    <3>1. q.nextAvail + gap - q.gap \in Int /\ q.nextAvail + gap - q.gap <= gap
      BY <1>1, <1>2, <2>1 DEF QpOK
    <3>. QED  BY <2>1, <3>1, PastWell
  <2>2. CASE ~ setting.shifts
    BY <1>1, <2>2 DEF QpOK
  <2>. QED  BY <2>1, <2>2
<1>4. s.nextSend # None => s.nextSend <= Longest /\ s.nextSend \in Nat
  BY <1>1 DEF DeviceInv
<1>5. NewRate(s, f, gap) = u
  <2>1. CASE setting.shifts
    <3>. DEFINE v == [s EXCEPT !.qp[f].nextAvail = t, !.qp[f].gap = gap]
    <3>1. NewRate(s, f, gap) = UpdateNextAvail(v, t)
      BY <2>1 DEF NewRate, ChangeRate
    <3>. HIDE DEF t
    <3>2. v = [s EXCEPT !.qp[f] = p]
      <4>1. [q EXCEPT !.nextAvail = t, !.gap = gap] = p
        BY <1>1, QpRated
      <4>. QED  BY <1>1, <4>1 DEF Device
    <3>. HIDE DEF v
    <3>3. v.nextSend = s.nextSend /\ s = [s EXCEPT !.nextSend = s.nextSend]
      BY <1>1, <3>2 DEF Device
    <3>4. UpdateNextAvail(v, t) = [v EXCEPT !.nextSend = e]
      BY <1>1, <2>1, <3>2, <3>3 DEF UpdateNextAvail, Device
    <3>. HIDE DEF e, p
    <3>. QED  BY <3>1, <3>2, <3>4
  <2>2. CASE ~ setting.shifts
    <3>1. NewRate(s, f, gap) = [s EXCEPT !.qp[f].gap = gap]
      BY <2>2 DEF NewRate
    <3>2. [q EXCEPT !.gap = gap] = p
      BY <1>1, <2>2 DEF QpType
    <3>3. e = s.nextSend
      BY <2>2
    <3>. HIDE DEF e, p
    <3>. QED  BY <1>1, <3>1, <3>2, <3>3 DEF Device
  <2>. QED  BY <2>1, <2>2
<1>6. e \in {None} \cup Nat /\ (e # None => e <= Longest)
  <2>. HIDE DEF t
  <2>. QED  BY <1>2, <1>3, <1>4, <1>1
<1>. HIDE DEF t, e
<1>7. p \in QpType
  BY <1>1, <1>2, <1>3 DEF QpType
<1>8. u.qp[f] = p
  BY <1>1 DEF Device
<1>9. QpOK(u, f)
  <2>. HIDE DEF u
  <2>. QED  BY <1>1, <1>3, <1>8 DEF QpOK
<1>10. DeviceInv(u) /\ OnlyQp(s, u, f)
  <2>. HIDE DEF p
  <2>. QED  BY <1>6, <1>7, <1>9, QpChange
<1>. QED  BY <1>5, <1>10

-----------------------------------------------------------------------------
(* The inductive invariant                                                 *)

NetType == [started : 0 .. N, sent : [Flows -> Nat], answers : 0 .. MaxAnswers,
            pauses : Nat, nacks : Nat]

NicInv ==
    /\ setting \in Settings
    /\ DeviceInv(nic) /\ StallsBehind(nic)
    /\ net \in NetType
    /\ \A f \in Flows : net.sent[f] <= Size[f]
    /\ nic.ackQ <= net.answers
    /\ \A f \in ToSet(nic.grp) : f <= net.started

(* The invariant reads the setting, which stays.                           *)
LEMMA InvPrimed ==
    ASSUME setting' = setting, DeviceInv(nic'), StallsBehind(nic')
    PROVE  DeviceInv(nic)' /\ StallsBehind(nic)'
<1>1. \A f \in Flows : QpOK(nic, f)'
  BY DEF DeviceInv, QpOK
<1>2. Sound' <=> Sound
  BY DEF Sound
<1>3. DeviceInv(nic)'
  BY <1>1, <1>2 DEF DeviceInv
<1>4. StallsBehind(nic)'
  BY DEF StallsBehind, Sendable, Blocked, WinBound, OnTheFly
<1>. QED  BY <1>3, <1>4

(* A handler ends with DequeueAndTransmit of a device s.                   *)
LEMMA HandlerKeeps ==
    ASSUME NicInv, setting' = setting, NEW s, DeviceInv(s), DequeueAndTransmit(s),
           net' \in NetType, \A f \in Flows : net'.sent[f] <= Size[f],
           s.ackQ <= net'.answers, \A f \in ToSet(s.grp) : f <= net'.started
    PROVE  NicInv'
<1>1. Outcome(s, nic')
  BY DequeueOutcome
<1>2. DeviceInv(nic)' /\ StallsBehind(nic)'
  BY <1>1, InvPrimed DEF Outcome
<1>3. nic'.ackQ <= net'.answers
  <2>1. nic'.ackQ \in Nat /\ s.ackQ \in Nat /\ net'.answers \in Nat
    <3>1. nic' \in Device /\ s \in Device
      BY <1>1 DEF Outcome, DeviceInv
    <3>. QED  BY <3>1, DeviceFields, Numbers DEF NetType
  <2>. QED  BY <1>1, <2>1 DEF Outcome
<1>4. \A f \in ToSet(nic'.grp) : f <= net'.started
  BY <1>1 DEF Outcome
<1>. QED  BY <1>2, <1>3, <1>4 DEF NicInv

LEMMA NetFields ==
    ASSUME NicInv
    PROVE  /\ net.started \in 0 .. N /\ net.sent \in [Flows -> Nat] /\ net.answers \in 0 .. MaxAnswers
           /\ net.answers \in Nat /\ net.started \in Nat /\ net.pauses \in Nat /\ net.nacks \in Nat
           /\ \A f \in Flows : net.sent[f] \in Nat /\ net.sent[f] <= Size[f]
           /\ nic \in Device /\ nic.ackQ \in Nat
           /\ setting.shifts \in BOOLEAN /\ setting.lateNacks \in BOOLEAN /\ setting.windows \in BOOLEAN
<1>1. setting \in [windows : BOOLEAN, shifts : BOOLEAN, lateNacks : BOOLEAN]
  BY NicAssumption DEF NicInv
<1>2. nic \in Device /\ nic.ackQ \in Nat
  BY DeviceFields DEF NicInv, DeviceInv
<1>3. /\ net.started \in 0 .. N /\ net.sent \in [Flows -> Nat] /\ net.answers \in 0 .. MaxAnswers
      /\ net.pauses \in Nat /\ net.nacks \in Nat
      /\ \A f \in Flows : net.sent[f] <= Size[f]
  BY DEF NicInv, NetType
<1>. QED  BY <1>1, <1>2, <1>3, Numbers

LEMMA NicStarts == NicInit => NicInv
<1>. SUFFICES ASSUME NicInit PROVE NicInv
  OBVIOUS
<1>. DEFINE z == [f \in Flows |-> [snd_nxt |-> 0, snd_una |-> 0, gap |-> Min(Gaps[f]), nextAvail |-> 0]]
<1>0. << >> \in Seq(Flows) /\ Len(<< >>) = 0 /\ DOMAIN << >> = {}
  BY EmptySeq
<1>1. /\ nic = [qp |-> z, grp |-> << >>, rrlast |-> 0, ackQ |-> 0, paused |-> [q \in Pgs |-> FALSE],
                txEnd |-> None, nextSend |-> None, skipped |-> [f \in Flows |-> 0], strayed |-> FALSE]
      /\ setting \in Settings
      /\ net = [started |-> 0, sent |-> [f \in Flows |-> 0], answers |-> 0, pauses |-> 0, nacks |-> 0]
  BY DEF NicInit
<1>2. z \in [Flows -> QpType]
  <2>1. \A f \in Flows : Min(Gaps[f]) \in Nat
    BY GapFacts
  <2>. QED  BY <2>1 DEF QpType
<1>3. nic \in Device
  BY <1>0, <1>1, <1>2 DEF Device
<1>4. \A f \in Flows : QpOK(nic, f)
  <2>. SUFFICES ASSUME NEW f \in Flows PROVE QpOK(nic, f)
    OBVIOUS
  <2>1. Min(Gaps[f]) \in Gaps[f] /\ Min(Gaps[f]) \in Nat /\ Min(Gaps[f]) <= MaxGap(f) /\ MaxGap(f) \in Nat
    BY GapFacts
  <2>2. Size[f] \in Nat
    BY Numbers
  <2>3. nic.qp[f] = [snd_nxt |-> 0, snd_una |-> 0, gap |-> Min(Gaps[f]), nextAvail |-> 0]
    BY <1>1
  <2>. QED  BY <2>1, <2>2, <2>3 DEF QpOK
<1>5. Rising(nic.grp) /\ Nearer(nic) /\ ToSet(nic.grp) = {}
  BY <1>0, <1>1 DEF Rising, Nearer, ToSet
<1>6. DeviceInv(nic) /\ StallsBehind(nic)
  <2>1. nic.rrlast = 0 /\ nic.nextSend = None /\ nic.strayed = FALSE
    BY <1>1
  <2>2. DeviceInv(nic)
    BY <1>3, <1>4, <1>5, <2>1, Numbers DEF DeviceInv
  <2>3. StallsBehind(nic)
    BY <1>5 DEF StallsBehind
  <2>. QED  BY <2>2, <2>3
<1>7. net \in NetType /\ \A f \in Flows : net.sent[f] <= Size[f]
  BY <1>1, Numbers DEF NetType
<1>. QED  BY <1>1, <1>5, <1>6, <1>7 DEF NicInv

-----------------------------------------------------------------------------
(* Every step                                                              *)

(* The device with its new queue pair, before the NIC is triggered.        *)
Added == [nic EXCEPT !.grp = Append(nic.grp, net.started + 1)]

LEMMA NewQpReaches ==
    ASSUME NicInv, NewQp
    PROVE  /\ DeviceInv(Added) /\ DequeueAndTransmit(Added) /\ Added.qp = nic.qp
           /\ NicInv'
<1>. DEFINE new == net.started + 1
            g == Append(nic.grp, new)
            s == Added
            n == Len(nic.grp)
<1>1. /\ nic \in Device /\ nic.grp \in Seq(Flows) /\ n \in Nat /\ nic.rrlast \in Nat
      /\ \A k \in 1 .. n : nic.grp[k] \in Flows /\ nic.grp[k] \in Nat
      /\ nic.skipped \in [Flows -> Nat] /\ nic.ackQ \in Nat
  BY DeviceFields, Numbers DEF NicInv, DeviceInv
<1>2. new \in Flows /\ new \in Nat /\ net.started \in Nat
  BY NetFields, Numbers DEF NewQp
<1>3. \A k \in 1 .. n : nic.grp[k] <= net.started
  <2>1. \A k \in 1 .. n : nic.grp[k] \in ToSet(nic.grp)
    BY <1>1 DEF ToSet
  <2>. QED  BY <2>1 DEF NicInv
<1>. HIDE DEF new, n
<1>4. /\ g \in Seq(Flows) /\ Len(g) = n + 1 /\ g[n + 1] = new /\ DOMAIN g = 1 .. n + 1
      /\ \A k \in 1 .. n : g[k] = nic.grp[k]
  BY <1>1, <1>2 DEF n
<1>. HIDE DEF g
<1>5. /\ s \in Device /\ s.grp = g /\ s.qp = nic.qp /\ s.rrlast = nic.rrlast /\ s.ackQ = nic.ackQ
      /\ s.nextSend = nic.nextSend /\ s.skipped = nic.skipped /\ s.strayed = nic.strayed
  <2>1. s = [nic EXCEPT !.grp = g]
    BY DEF Added, g, new
  <2>. QED  BY <1>1, <1>4, <2>1 DEF Device
<1>. HIDE DEF s
<1>6. Rising(g)
  <2>. SUFFICES ASSUME NEW j \in 1 .. n + 1, NEW k \in 1 .. n + 1, j < k PROVE g[j] < g[k]
    BY <1>4 DEF Rising
  <2>0. j \in 1 .. n
    BY <1>1
  <2>1. j \in 1 .. n /\ g[j] = nic.grp[j] /\ g[j] \in Nat
    BY <1>1, <1>4, <2>0
  <2>2. CASE k \in 1 .. n
    BY <1>4, <2>1, <2>2 DEF NicInv, DeviceInv, Rising, n
  <2>3. CASE k = n + 1
    <3>1. g[j] <= net.started /\ g[k] = net.started + 1
      BY <1>3, <1>4, <2>1, <2>3 DEF new
    <3>. QED  BY <1>2, <2>1, <3>1
  <2>. QED  BY <1>1, <2>2, <2>3
<1>7. Nearer(s)
  <2>. SUFFICES ASSUME NEW f \in Flows, nic.skipped[f] > 0
                PROVE  /\ nic.rrlast < n + 1
                       /\ \E j \in 0 .. (n + 1) - 1 : FlowAt(s, j) = f /\ nic.skipped[f] + Distance(s, j) <= n + 1
    BY <1>4, <1>5 DEF Nearer
  <2>1. nic.rrlast < n /\ nic.skipped[f] \in Nat
    BY <1>1 DEF NicInv, DeviceInv, Nearer, n
  <2>2. PICK j \in 0 .. n - 1 : FlowAt(nic, j) = f /\ nic.skipped[f] + Distance(nic, j) <= n
    BY DEF NicInv, DeviceInv, Nearer, n
  <2>3. j \in 0 .. (n + 1) - 1 /\ j + 1 \in 1 .. n
    BY <1>1
  <2>4. FlowAt(s, j) = f
    BY <1>4, <1>5, <2>2, <2>3 DEF FlowAt
  <2>5. nic.skipped[f] + Distance(s, j) <= n + 1
    <3>1. Len(nic.grp) = n /\ Len(s.grp) = n + 1 /\ s.rrlast = nic.rrlast
      BY <1>4, <1>5 DEF n
    <3>2. Distance(s, j) <= Distance(nic, j) + 1 /\ Distance(s, j) \in Int /\ Distance(nic, j) \in Int
      BY <1>1, <2>1, <3>1 DEF Distance
    <3>. QED  BY <1>1, <2>1, <2>2, <3>2
  <2>6. nic.rrlast < n + 1
    BY <1>1, <2>1
  <2>. QED  BY <2>3, <2>4, <2>5, <2>6
<1>8. \A f \in Flows : QpOK(s, f)
  BY <1>5 DEF NicInv, DeviceInv, QpOK
<1>9. DeviceInv(s)
  BY <1>5, <1>6, <1>7, <1>8 DEF NicInv, DeviceInv
<1>10. net' = [net EXCEPT !.started = new] /\ net' \in NetType /\ net'.started = new
       /\ net'.sent = net.sent /\ net'.answers = net.answers
  <2>1. net' = [net EXCEPT !.started = new]
    BY DEF NewQp, new
  <2>2. net \in NetType /\ new \in 0 .. N
    BY <1>2, Numbers DEF NicInv
  <2>. QED  BY <2>1, <2>2 DEF NetType
<1>11. \A f \in ToSet(s.grp) : f <= net'.started
  <2>. SUFFICES ASSUME NEW k \in 1 .. n + 1 PROVE g[k] <= new
    BY <1>4, <1>5, <1>10 DEF ToSet
  <2>1. CASE k \in 1 .. n
    <3>1. g[k] <= net.started /\ g[k] \in Nat
      BY <1>1, <1>3, <1>4, <2>1
    <3>. QED  BY <1>2, <3>1 DEF new
  <2>2. CASE k = n + 1
    BY <1>2, <1>4, <2>2
  <2>. QED  BY <1>1, <2>1, <2>2
<1>12. DequeueAndTransmit(s) /\ setting' = setting
  BY DEF NewQp, s, Added
<1>13. NicInv'
  BY <1>5, <1>9, <1>10, <1>11, <1>12, HandlerKeeps DEF NicInv
<1>. QED  BY <1>5, <1>9, <1>12, <1>13 DEF s

LEMMA SentFacts ==
    ASSUME NicInv, NEW f \in Flows
    PROVE  /\ Sent(f) \in Nat /\ Sent(f) <= Size[f]
           /\ ~ setting.lateNacks => Sent(f) = nic.qp[f].snd_nxt
<1>. DEFINE a == net.sent[f]
            b == nic.qp[f].snd_nxt
<1>1. a \in Nat /\ b \in Nat /\ a <= Size[f] /\ b <= Size[f] /\ Size[f] \in Nat
  BY NetFields, DeviceFields, Numbers DEF NicInv, DeviceInv, QpOK
<1>2. Sent(f) = IF setting.lateNacks THEN Max({a, b}) ELSE b
  BY DEF Sent
<1>. HIDE DEF a, b
<1>3. Max({a, b}) \in {a, b}
  <2>1. \E x \in {a, b} : \A y \in {a, b} : x >= y
    BY <1>1
  <2>. QED  BY <2>1 DEF Max
<1>. QED  BY <1>1, <1>2, <1>3 DEF b

(* The device an answer leaves behind, before the NIC is triggered.        *)
LEMMA AckReaches ==
    ASSUME NicInv, NEW f \in Flows, NEW gap \in Gaps[f], NEW seq \in 0 .. Size[f], ReceiveAck(f, seq, gap)
    PROVE  \E s : /\ DeviceInv(s) /\ OnlyQp(nic, s, f) /\ DequeueAndTransmit(s)
                  /\ ~ Finished(nic, f) /\ UNCHANGED <<net, setting>>
<1>. DEFINE a == Acknowledge(nic, f, seq)
            s == NewRate(a, f, gap)
<1>1. seq \in Nat /\ seq <= Size[f] /\ (setting.lateNacks \/ seq <= nic.qp[f].snd_nxt)
  <2>1. Size[f] \in Nat /\ nic.qp[f].snd_una \in Nat
    BY Numbers, DeviceFields DEF NicInv, DeviceInv
  <2>2. seq <= Sent(f)
    BY <2>1, SentFacts DEF ReceiveAck
  <2>. QED  BY <2>1, <2>2, SentFacts
<1>2. DeviceInv(a) /\ OnlyQp(nic, a, f)
  BY <1>1, AcknowledgeWell DEF NicInv
<1>3. DequeueAndTransmit(s) /\ ~ Finished(nic, f) /\ UNCHANGED <<net, setting>>
  BY DEF ReceiveAck
<1>. HIDE DEF a
<1>4. DeviceInv(s) /\ OnlyQp(a, s, f)
  BY <1>2, NewRateWell
<1>. HIDE DEF s
<1>5. OnlyQp(nic, s, f)
  BY <1>2, <1>4 DEF OnlyQp
<1>. QED  BY <1>3, <1>4, <1>5

LEMMA NackReaches ==
    ASSUME NicInv, NEW f \in Flows, NEW gap \in Gaps[f], NEW seq \in 0 .. Size[f], ReceiveNack(f, seq, gap)
    PROVE  \E s : /\ DeviceInv(s) /\ OnlyQp(nic, s, f) /\ DequeueAndTransmit(s)
                  /\ ~ Finished(nic, f) /\ setting' = setting
                  /\ net' = [net EXCEPT !.nacks = net.nacks + 1, !.sent[f] = Sent(f)]
<1>. DEFINE a == Acknowledge(nic, f, seq)
            r == RecoverQueue(a, f)
            s == NewRate(r, f, gap)
<1>1. seq \in Nat /\ seq <= Size[f] /\ seq <= nic.qp[f].snd_nxt
  <2>1. Size[f] \in Nat /\ nic.qp[f].snd_una \in Nat /\ nic.qp[f].snd_nxt \in Nat
    BY Numbers, DeviceFields DEF NicInv, DeviceInv
  <2>. QED  BY <2>1 DEF ReceiveNack
<1>2. DeviceInv(a) /\ OnlyQp(nic, a, f)
  BY <1>1, AcknowledgeWell DEF NicInv
<1>3. DequeueAndTransmit(s) /\ ~ Finished(nic, f) /\ setting' = setting
      /\ net' = [net EXCEPT !.nacks = net.nacks + 1, !.sent[f] = Sent(f)]
  BY DEF ReceiveNack
<1>. HIDE DEF a
<1>4. DeviceInv(r) /\ OnlyQp(a, r, f)
  BY <1>2, RecoverWell
<1>. HIDE DEF r
<1>5. DeviceInv(s) /\ OnlyQp(r, s, f)
  BY <1>4, NewRateWell
<1>. HIDE DEF s
<1>6. OnlyQp(nic, s, f)
  BY <1>2, <1>4, <1>5 DEF OnlyQp
<1>. QED  BY <1>3, <1>5, <1>6

LEMMA AckKeeps ==
    ASSUME NicInv, NEW f \in Flows, NEW gap \in Gaps[f], NEW seq \in 0 .. Size[f], ReceiveAck(f, seq, gap)
    PROVE  NicInv'
<1>1. PICK s : /\ DeviceInv(s) /\ OnlyQp(nic, s, f) /\ DequeueAndTransmit(s)
               /\ UNCHANGED <<net, setting>>
  BY AckReaches
<1>2. s.ackQ <= net.answers /\ \A g \in ToSet(s.grp) : g <= net.started
  BY <1>1 DEF OnlyQp, NicInv
<1>. QED  BY <1>1, <1>2, HandlerKeeps DEF NicInv

LEMMA NackKeeps ==
    ASSUME NicInv, NEW f \in Flows, NEW gap \in Gaps[f], NEW seq \in 0 .. Size[f], ReceiveNack(f, seq, gap)
    PROVE  NicInv'
<1>1. PICK s : /\ DeviceInv(s) /\ OnlyQp(nic, s, f) /\ DequeueAndTransmit(s)
               /\ setting' = setting
               /\ net' = [net EXCEPT !.nacks = net.nacks + 1, !.sent[f] = Sent(f)]
  BY NackReaches
<1>2. /\ net' \in NetType /\ net'.started = net.started /\ net'.answers = net.answers
      /\ \A g \in Flows : net'.sent[g] = IF g = f THEN Sent(f) ELSE net.sent[g]
  <2>1. net \in NetType /\ net.nacks + 1 \in Nat /\ Sent(f) \in Nat
    BY NetFields, SentFacts DEF NicInv
  <2>2. [net.sent EXCEPT ![f] = Sent(f)] \in [Flows -> Nat]
    BY <2>1 DEF NetType
  <2>. QED  BY <1>1, <2>1, <2>2 DEF NetType
<1>3. s.ackQ <= net'.answers /\ \A g \in ToSet(s.grp) : g <= net'.started
  BY <1>1, <1>2 DEF OnlyQp, NicInv
<1>4. \A g \in Flows : net'.sent[g] <= Size[g]
  BY <1>2, SentFacts DEF NicInv
<1>. QED  BY <1>1, <1>2, <1>3, <1>4, HandlerKeeps

(* The device before it is triggered by an answer of its own, the end of a *)
(* pause, of a transmission, or of the wait for m_nextAvail.               *)
Untriggered(a, p, e, x) == [nic EXCEPT !.ackQ = a, !.paused = p, !.txEnd = e, !.nextSend = x]

LEMMA TriggerReaches ==
    ASSUME NicInv,
           NEW a \in Nat, NEW p \in [Pgs -> BOOLEAN], NEW e \in {None, 0, 1}, NEW x \in {None} \cup Nat,
           x # None => x <= Longest
    PROVE  /\ DeviceInv(Untriggered(a, p, e, x))
           /\ Untriggered(a, p, e, x).qp = nic.qp /\ Untriggered(a, p, e, x).grp = nic.grp
           /\ Untriggered(a, p, e, x).ackQ = a
<1>. DEFINE s == Untriggered(a, p, e, x)
<1>1. nic \in Device /\ DeviceInv(nic)
  BY NetFields DEF NicInv
<1>2. /\ s \in Device /\ s.grp = nic.grp /\ s.rrlast = nic.rrlast /\ s.skipped = nic.skipped
      /\ s.strayed = nic.strayed /\ s.qp = nic.qp /\ s.ackQ = a /\ s.nextSend = x
  BY <1>1 DEF Device, Untriggered
<1>. HIDE DEF s
<1>3. \A f \in Flows : QpOK(s, f)
  BY <1>1, <1>2 DEF DeviceInv, QpOK
<1>4. DeviceInv(s)
  BY <1>1, <1>2, <1>3, GroupAlone
<1>. QED  BY <1>2, <1>4 DEF s

(* The four handlers that only trigger the NIC, and what they trigger.     *)
Triggered(s) ==
    /\ DeviceInv(s) /\ s.qp = nic.qp /\ s.grp = nic.grp
    /\ DequeueAndTransmit(s) /\ setting' = setting
    /\ net' \in NetType /\ net'.sent = net.sent /\ net'.started = net.started
    /\ s.ackQ <= net'.answers

LEMMA AnswerTriggers ==
    ASSUME NicInv, RdmaEnqueueHighPrioQ
    PROVE  \E s : Triggered(s)
<1>. DEFINE s == [nic EXCEPT !.ackQ = nic.ackQ + 1]
            t == Untriggered(nic.ackQ + 1, nic.paused, nic.txEnd, nic.nextSend)
<1>1. /\ nic \in Device /\ nic.ackQ \in Nat /\ nic.ackQ + 1 \in Nat /\ nic.paused \in [Pgs -> BOOLEAN]
      /\ nic.txEnd \in {None, 0, 1} /\ nic.nextSend \in {None} \cup Nat
      /\ nic.nextSend # None => nic.nextSend <= Longest
  BY NetFields, DeviceFields DEF NicInv, DeviceInv
<1>2. DeviceInv(t) /\ t.qp = nic.qp /\ t.grp = nic.grp /\ t.ackQ = nic.ackQ + 1
  BY <1>1, TriggerReaches
<1>3. s = t
  BY <1>1 DEF Device, Untriggered
<1>4. DequeueAndTransmit(s) /\ setting' = setting
  BY DEF RdmaEnqueueHighPrioQ
<1>5. /\ net' \in NetType /\ net'.sent = net.sent /\ net'.started = net.started
      /\ net'.answers = net.answers + 1
  <2>1. net' = [net EXCEPT !.answers = net.answers + 1] /\ net.answers + 1 \in 0 .. MaxAnswers
    BY NetFields, Numbers DEF RdmaEnqueueHighPrioQ
  <2>. QED  BY <2>1 DEF NicInv, NetType
<1>6. nic.ackQ + 1 <= net'.answers
  BY <1>1, <1>5, NetFields DEF NicInv
<1>. HIDE DEF s, t
<1>. QED  BY <1>2, <1>3, <1>4, <1>5, <1>6 DEF Triggered

LEMMA EventTriggers ==
    ASSUME NicInv, UNCHANGED <<net, setting>>,
           NEW p \in [Pgs -> BOOLEAN], NEW e \in {None, 0, 1}, NEW x \in {None, nic.nextSend},
           DequeueAndTransmit(Untriggered(nic.ackQ, p, e, x))
    PROVE  \E s : Triggered(s)
<1>. DEFINE s == Untriggered(nic.ackQ, p, e, x)
<1>1. nic.ackQ \in Nat /\ x \in {None} \cup Nat /\ (x # None => x <= Longest)
  BY NetFields, DeviceFields DEF NicInv, DeviceInv
<1>2. DeviceInv(s) /\ s.qp = nic.qp /\ s.grp = nic.grp /\ s.ackQ = nic.ackQ
  BY <1>1, TriggerReaches
<1>. HIDE DEF s
<1>3. net' \in NetType /\ s.ackQ <= net'.answers
  BY <1>2 DEF NicInv
<1>. QED  BY <1>2, <1>3 DEF Triggered, s

LEMMA TriggersOf ==
    ASSUME NicInv,
           (\E q \in Pgs : Resume(q)) \/ RdmaEnqueueHighPrioQ \/ TransmitComplete \/ NextSend
    PROVE  \E s : Triggered(s)
<1>1. /\ nic \in Device /\ nic.paused \in [Pgs -> BOOLEAN]
      /\ nic.txEnd \in {None, 0, 1} /\ nic.nextSend \in {None} \cup Nat
  BY NetFields, DeviceFields
<1>2. ASSUME NEW q \in Pgs, Resume(q) PROVE \E s : Triggered(s)
  <2>. DEFINE p == [nic.paused EXCEPT ![q] = FALSE]
  <2>1. p \in [Pgs -> BOOLEAN]
    BY <1>1
  <2>2. [nic EXCEPT !.paused[q] = FALSE] =
           Untriggered(nic.ackQ, p, nic.txEnd, nic.nextSend)
    BY <1>1 DEF Device, Untriggered
  <2>3. DequeueAndTransmit([nic EXCEPT !.paused[q] = FALSE]) /\ UNCHANGED <<net, setting>>
    BY <1>2 DEF Resume
  <2>. HIDE DEF p
  <2>. QED  BY <1>1, <2>1, <2>2, <2>3, EventTriggers
<1>3. CASE TransmitComplete
  <2>1. [nic EXCEPT !.txEnd = None] =
           Untriggered(nic.ackQ, nic.paused, None, nic.nextSend)
    BY <1>1 DEF Device, Untriggered
  <2>2. DequeueAndTransmit([nic EXCEPT !.txEnd = None]) /\ UNCHANGED <<net, setting>>
    BY <1>3 DEF TransmitComplete
  <2>. QED  BY <1>1, <2>1, <2>2, EventTriggers
<1>4. CASE NextSend
  <2>1. [nic EXCEPT !.nextSend = None] =
           Untriggered(nic.ackQ, nic.paused, nic.txEnd, None)
    BY <1>1 DEF Device, Untriggered
  <2>2. DequeueAndTransmit([nic EXCEPT !.nextSend = None]) /\ UNCHANGED <<net, setting>>
    BY <1>4 DEF NextSend
  <2>. QED  BY <1>1, <2>1, <2>2, EventTriggers
<1>. QED  BY <1>2, <1>3, <1>4, AnswerTriggers

LEMMA TriggersKeep ==
    ASSUME NicInv, NEW s, Triggered(s)
    PROVE  NicInv'
<1>1. \A f \in Flows : net'.sent[f] <= Size[f]
  BY DEF Triggered, NicInv
<1>2. \A f \in ToSet(s.grp) : f <= net'.started
  BY DEF Triggered, NicInv
<1>. QED  BY <1>1, <1>2, HandlerKeeps DEF Triggered

LEMMA PauseKeeps == ASSUME NicInv, NEW q \in Pgs, PauseQueue(q) PROVE NicInv'
<1>. DEFINE p == [nic.paused EXCEPT ![q] = TRUE]
            s == Untriggered(nic.ackQ, p, nic.txEnd, nic.nextSend)
<1>1. /\ nic \in Device /\ nic.paused \in [Pgs -> BOOLEAN] /\ nic.ackQ \in Nat
      /\ nic.txEnd \in {None, 0, 1} /\ nic.nextSend \in {None} \cup Nat
      /\ nic.nextSend # None => nic.nextSend <= Longest
  BY NetFields, DeviceFields DEF NicInv, DeviceInv
<1>2. p \in [Pgs -> BOOLEAN] /\ \A r \in Pgs : nic.paused[r] => p[r]
  BY <1>1
<1>3. nic' = [nic EXCEPT !.paused = p] /\ setting' = setting
  BY DEF PauseQueue
<1>4. [nic EXCEPT !.paused = p] = s
  BY <1>1 DEF Device, Untriggered
<1>5. s.paused = p /\ s.txEnd = nic.txEnd /\ s.nextSend = nic.nextSend
  BY <1>1 DEF Device, Untriggered
<1>. HIDE DEF p
<1>6. DeviceInv(s) /\ s.qp = nic.qp /\ s.grp = nic.grp /\ s.ackQ = nic.ackQ
  BY <1>1, <1>2, TriggerReaches
<1>. HIDE DEF s
<1>7. \A f \in Flows : Blocked(nic, f) => Blocked(s, f)
  BY <1>2, <1>5, <1>6 DEF Blocked, WinBound, OnTheFly, Pgs
<1>8. StallsBehind(s)
  BY <1>5, <1>6, <1>7, <1>1, FlowAtType DEF NicInv, StallsBehind, Sendable, BytesLeft, Due
<1>9. DeviceInv(nic)' /\ StallsBehind(nic)'
  BY <1>3, <1>4, <1>6, <1>8, InvPrimed
<1>10. net' \in NetType /\ net'.sent = net.sent /\ net'.answers = net.answers /\ net'.started = net.started
  <2>1. net' = [net EXCEPT !.pauses = net.pauses + 1] /\ net.pauses + 1 \in Nat
    BY NetFields DEF PauseQueue
  <2>. QED  BY <2>1 DEF NicInv, NetType
<1>. QED  BY <1>3, <1>4, <1>6, <1>9, <1>10 DEF NicInv

LEMMA TickKeeps == ASSUME NicInv, Tick PROVE NicInv'
<1>. DEFINE t(f) == Past(nic.qp[f].nextAvail - 1, f, nic.qp[f].gap)
            q == [f \in Flows |-> [nic.qp[f] EXCEPT !.nextAvail = t(f)]]
            s == [nic EXCEPT !.txEnd = Later(nic.txEnd), !.nextSend = Later(nic.nextSend), !.qp = q]
<1>1. /\ nic \in Device /\ DeviceInv(nic) /\ nic.txEnd \in {None, 0, 1} /\ nic.nextSend \in {None} \cup Nat
      /\ nic.ackQ \in Nat
      /\ nic.nextSend # None => nic.nextSend <= Longest /\ nic.nextSend \in Nat
      /\ Longest \in Nat
      /\ \A f \in Flows : /\ nic.qp[f] \in QpType /\ nic.qp[f].gap \in Gaps[f] /\ QpOK(nic, f)
                          /\ nic.qp[f].nextAvail \in Int
  BY NetFields, DeviceFields, LongestFacts DEF NicInv, DeviceInv, QpOK
<1>2. nic' = s /\ net' = net /\ setting' = setting /\ nic.txEnd # 0 /\ nic.nextSend # 0
  BY DEF Tick
<1>3. \A f \in Flows : /\ t(f) \in Int /\ -MaxGap(f) <= t(f) /\ t(f) <= MaxGap(f)
                       /\ setting.shifts => nic.qp[f].gap - MaxGap(f) <= t(f) /\ t(f) <= nic.qp[f].gap
                       /\ ~ setting.shifts => 0 <= t(f)
                       /\ nic.qp[f].nextAvail <= 0 => t(f) <= 0
  <2>. SUFFICES ASSUME NEW f \in Flows
                PROVE  /\ t(f) \in Int /\ -MaxGap(f) <= t(f) /\ t(f) <= MaxGap(f)
                       /\ setting.shifts => nic.qp[f].gap - MaxGap(f) <= t(f) /\ t(f) <= nic.qp[f].gap
                       /\ ~ setting.shifts => 0 <= t(f)
                       /\ nic.qp[f].nextAvail <= 0 => t(f) <= 0
    OBVIOUS
  <2>. DEFINE gap == nic.qp[f].gap
              b == nic.qp[f].nextAvail - 1
  <2>1. gap \in Gaps[f] /\ gap \in Nat /\ MaxGap(f) \in Nat /\ nic.qp[f].nextAvail \in Int
    BY <1>1, GapFacts
  <2>2. b \in Int /\ (setting.shifts => b <= gap) /\ b <= MaxGap(f) /\ (nic.qp[f].nextAvail <= 0 => b <= 0)
    BY <1>1, <2>1 DEF QpOK
  <2>3. t(f) = Past(b, f, gap)
    OBVIOUS
  <2>. HIDE DEF b, gap, t
  <2>4. /\ Past(b, f, gap) \in Int /\ -MaxGap(f) <= Past(b, f, gap) /\ Past(b, f, gap) <= MaxGap(f)
        /\ setting.shifts => gap - MaxGap(f) <= Past(b, f, gap) /\ Past(b, f, gap) <= gap
        /\ ~ setting.shifts => 0 <= Past(b, f, gap)
        /\ b <= 0 => Past(b, f, gap) <= 0
    BY <2>1, <2>2, PastWell
  <2>. QED  BY <2>2, <2>3, <2>4 DEF gap
<1>. HIDE DEF t
<1>4. /\ q \in [Flows -> QpType]
      /\ \A f \in Flows : /\ q[f].snd_nxt = nic.qp[f].snd_nxt /\ q[f].snd_una = nic.qp[f].snd_una
                          /\ q[f].gap = nic.qp[f].gap /\ q[f].nextAvail = t(f)
  BY <1>1, <1>3 DEF QpType
<1>. HIDE DEF q
<1>5. /\ Later(nic.txEnd) \in {None, 0} /\ Later(nic.nextSend) \in {None} \cup Nat
      /\ Later(nic.txEnd) = None => nic.txEnd = None
      /\ Later(nic.nextSend) = None => nic.nextSend = None
      /\ Later(nic.nextSend) # None => Later(nic.nextSend) <= Longest
  BY <1>1, <1>2, Numbers DEF Later
<1>6. /\ s \in Device /\ s.qp = q /\ s.grp = nic.grp /\ s.rrlast = nic.rrlast /\ s.skipped = nic.skipped
      /\ s.strayed = nic.strayed /\ s.ackQ = nic.ackQ /\ s.paused = nic.paused
      /\ s.txEnd = Later(nic.txEnd) /\ s.nextSend = Later(nic.nextSend)
  BY <1>1, <1>4, <1>5 DEF Device
<1>. HIDE DEF s
<1>7. \A f \in Flows : QpOK(s, f)
  BY <1>1, <1>3, <1>4, <1>6 DEF QpOK
<1>8. DeviceInv(s)
  BY <1>1, <1>5, <1>6, <1>7, GroupAlone
<1>9. \A f \in Flows : /\ Sendable(s, f) <=> Sendable(nic, f)
                       /\ BytesLeft(s, f) = BytesLeft(nic, f)
                       /\ Blocked(s, f) <=> Blocked(nic, f)
                       /\ Due(nic, f) => Due(s, f)
  BY <1>3, <1>4, <1>6 DEF Sendable, BytesLeft, Blocked, WinBound, OnTheFly, Due
<1>10. StallsBehind(s)
  <2>1. \A f \in ToSet(nic.grp) : f \in Flows
    BY <1>1, FlowAtType
  <2>. QED  BY <1>5, <1>6, <1>9, <2>1 DEF NicInv, StallsBehind
<1>11. DeviceInv(nic)' /\ StallsBehind(nic)'
  BY <1>2, <1>8, <1>10, InvPrimed
<1>. QED  BY <1>2, <1>6, <1>11 DEF NicInv

LEMMA NicStep == NicInv /\ [NicNext]_nicVars => NicInv'
<1>. SUFFICES ASSUME NicInv, [NicNext]_nicVars PROVE NicInv'
  OBVIOUS
<1>1. CASE NewQp
  BY <1>1, NewQpReaches
<1>2. ASSUME NEW f \in Flows, NEW gap \in Gaps[f], NEW seq \in 0 .. Size[f], ReceiveAck(f, seq, gap)
      PROVE  NicInv'
  BY <1>2, AckKeeps
<1>3. ASSUME NEW f \in Flows, NEW gap \in Gaps[f], NEW seq \in 0 .. Size[f], ReceiveNack(f, seq, gap)
      PROVE  NicInv'
  BY <1>3, NackKeeps
<1>4. ASSUME NEW q \in Pgs, PauseQueue(q) PROVE NicInv'
  BY <1>4, PauseKeeps
<1>5. CASE (\E q \in Pgs : Resume(q)) \/ RdmaEnqueueHighPrioQ \/ TransmitComplete \/ NextSend
  BY <1>5, TriggersOf, TriggersKeep
<1>6. CASE Tick
  BY <1>6, TickKeeps
<1>7. CASE UNCHANGED nicVars
  <2>1. nic' = nic /\ net' = net /\ setting' = setting
    BY <1>7 DEF nicVars
  <2>2. DeviceInv(nic)' /\ StallsBehind(nic)'
    BY <2>1, InvPrimed DEF NicInv
  <2>. QED  BY <2>1, <2>2 DEF NicInv
<1>. QED  BY <1>1, <1>2, <1>3, <1>4, <1>5, <1>6, <1>7 DEF NicNext

LEMMA NicInvAlways == NicSpec => []NicInv
  BY NicStarts, NicStep, PTL DEF NicSpec

-----------------------------------------------------------------------------
(* The theorems                                                            *)

(* Type correctness: sequence numbers, next-available times and the times  *)
(* of the pending events stay in their ranges, the group names no queue    *)
(* pair twice, and m_rrlast never exceeds the number of flows.             *)
THEOREM NicTypes == NicSpec => []NicTypeOK
<1>1. NicInv => NicTypeOK
  <2>. SUFFICES ASSUME NicInv PROVE NicTypeOK
    OBVIOUS
  <2>1. /\ nic \in Device /\ nic.grp \in Seq(Flows) /\ nic.paused \in [Pgs -> BOOLEAN]
        /\ nic.txEnd \in {None, 0, 1} /\ nic.nextSend \in {None} \cup Nat
        /\ nic.skipped \in [Flows -> Nat] /\ nic.strayed \in BOOLEAN
        /\ nic.rrlast \in 0 .. N /\ net.started \in 0 .. N
        /\ nic.nextSend # None => nic.nextSend <= Longest
    BY NetFields, DeviceFields, Numbers DEF NicInv, DeviceInv
  <2>2. nic.ackQ \in 0 .. MaxAnswers
    BY NetFields, Numbers DEF NicInv
  <2>3. nic.nextSend \in {None} \cup 0 .. Longest
    BY <2>1, LongestFacts
  <2>4. IsInjective(nic.grp)
    <3>1. \A k \in 1 .. Len(nic.grp) : nic.grp[k] \in Nat
      BY <2>1, DeviceFields, Numbers
    <3>2. DOMAIN nic.grp = 1 .. Len(nic.grp) /\ Len(nic.grp) \in Nat
      BY <2>1
    <3>3. ASSUME NEW j \in 1 .. Len(nic.grp), NEW k \in 1 .. Len(nic.grp), nic.grp[j] = nic.grp[k]
          PROVE  j = k
      <4>1. ~ (j < k) /\ ~ (k < j)
        BY <3>1, <3>3 DEF NicInv, DeviceInv, Rising
      <4>. QED  BY <3>2, <4>1
    <3>. QED  BY <3>2, <3>3 DEF IsInjective
  <2>5. ASSUME NEW f \in Flows
        PROVE  nic.qp[f] \in [snd_nxt : 0 .. Size[f], snd_una : 0 .. Size[f], gap : Gaps[f],
                              nextAvail : -MaxGap(f) .. MaxGap(f)]
    <3>1. nic.qp[f] \in QpType /\ QpOK(nic, f)
      BY <2>1, DeviceFields DEF NicInv, DeviceInv
    <3>2. Size[f] \in Nat /\ MaxGap(f) \in Nat
      BY Numbers, GapFacts
    <3>. QED  BY <3>1, <3>2 DEF QpType, QpOK
  <2>. QED  BY <2>1, <2>2, <2>3, <2>4, <2>5 DEF NicTypeOK
<1>. QED  BY <1>1, NicInvAlways, PTL

(* Clearing finished queue pairs never makes GetNextQindex name another    *)
(* queue pair than the one it chose, with windows on or NACKs in order:    *)
(* then nothing that is cleared can send, and the renumbered index is that *)
(* of the queue pair in the group the loop has rebuilt.                    *)
THEOREM NicServesItsChoice == NicSpec => []ServesItsChoice
<1>1. NicInv => ServesItsChoice
  BY DEF NicInv, DeviceInv, ServesItsChoice, Sound
<1>. QED  BY <1>1, NicInvAlways, PTL

(* Round robin: a ready flow sees at most N - 1 packets of others go       *)
(* between two clearings, for each brings m_rrlast nearer to its place.    *)
THEOREM NicRoundRobin == NicSpec => []RoundRobinWait
<1>1. NicInv => RoundRobinWait
  <2>. SUFFICES ASSUME NicInv, NEW f \in Flows PROVE nic.skipped[f] <= N - 1
    BY DEF RoundRobinWait
  <2>. DEFINE n == Len(nic.grp)
  <2>1. /\ nic \in Device /\ nic.grp \in Seq(Flows) /\ n \in Nat /\ N \in Nat /\ N >= 1
        /\ nic.skipped[f] \in Nat /\ Rising(nic.grp)
        /\ \A k \in 1 .. n : nic.grp[k] \in Flows
    BY NetFields, DeviceFields, Numbers DEF NicInv, DeviceInv
  <2>2. n <= N
    <3>1. \A k \in 1 .. n : nic.grp[k] <= N
      BY <2>1, Numbers
    <3>. QED  BY <2>1, <3>1, RisingIsShort
  <2>3. CASE nic.skipped[f] > 0
    <3>1. PICK j \in 0 .. n - 1 : nic.skipped[f] + Distance(nic, j) <= n
      BY <2>3 DEF NicInv, DeviceInv, Nearer
    <3>2. nic.rrlast < n
      BY <2>3 DEF NicInv, DeviceInv, Nearer
    <3>3. Distance(nic, j) \in 1 .. n
      BY <2>1, <3>2, IndexOfDistance
    <3>. HIDE DEF n
    <3>. QED  BY <2>1, <2>2, <3>1, <3>3
  <2>. QED  BY <2>1, <2>3
<1>. QED  BY <1>1, NicInvAlways, PTL

(* The NIC idles over a packet that may be sent, with nothing scheduled,   *)
(* only behind a queue pair that is held back though its time has come.    *)
THEOREM NicStalls == NicSpec => []StallsOnlyBehindABlockedFlow
<1>1. NicInv => StallsOnlyBehindABlockedFlow
  BY DEF NicInv, StallsBehind, StallsOnlyBehindABlockedFlow, Stalled
<1>. QED  BY <1>1, NicInvAlways, PTL

(* A queue pair whose last packet is acknowledged sends nothing more, with *)
(* windows on or NACKs in order.                                           *)
THEOREM NicCompletedIsSilent == NicSpec => CompletedIsSilent
<1>. DEFINE Silent == Sound => \A f \in Flows : Finished(nic, f) => nic'.qp[f].snd_nxt = nic.qp[f].snd_nxt
<1>1. ASSUME NicInv, [NicNext]_nicVars PROVE Silent
  <2>1. ASSUME NEW s, DeviceInv(s), DequeueAndTransmit(s),
               \A f \in Flows : Finished(nic, f) => s.qp[f] = nic.qp[f]
        PROVE  Silent
    <3>1. Outcome(s, nic')
      BY <2>1, DequeueOutcome
    <3>. QED  BY <2>1, <3>1 DEF Outcome, Finished
  <2>2. ASSUME \A f \in Flows : nic'.qp[f].snd_nxt = nic.qp[f].snd_nxt PROVE Silent
    BY <2>2
  <2>. HIDE DEF Silent
  <2>3. CASE NewQp
    <3>1. DeviceInv(Added) /\ DequeueAndTransmit(Added) /\ Added.qp = nic.qp
      BY <1>1, <2>3, NewQpReaches
    <3>. QED  BY <2>1, <3>1
  <2>4. ASSUME NEW f \in Flows, NEW gap \in Gaps[f], NEW seq \in 0 .. Size[f],
               ReceiveAck(f, seq, gap) \/ ReceiveNack(f, seq, gap)
        PROVE  Silent
    <3>1. PICK s : /\ DeviceInv(s) /\ OnlyQp(nic, s, f) /\ DequeueAndTransmit(s)
                   /\ ~ Finished(nic, f)
      BY <1>1, <2>4, AckReaches, NackReaches
    <3>. QED  BY <2>1, <3>1 DEF OnlyQp
  <2>5. ASSUME NEW q \in Pgs, PauseQueue(q) PROVE Silent
    <3>1. nic'.qp = nic.qp
      BY <1>1, <2>5, NetFields DEF PauseQueue, Device
    <3>. QED  BY <2>2, <3>1
  <2>6. CASE (\E q \in Pgs : Resume(q)) \/ RdmaEnqueueHighPrioQ \/ TransmitComplete \/ NextSend
    <3>1. PICK s : Triggered(s)
      BY <1>1, <2>6, TriggersOf
    <3>. QED  BY <2>1, <3>1 DEF Triggered
  <2>7. CASE Tick
    <3>1. \A f \in Flows : nic'.qp[f].snd_nxt = nic.qp[f].snd_nxt
      <4>. DEFINE q == [f \in Flows |-> [nic.qp[f] EXCEPT
                            !.nextAvail = Past(nic.qp[f].nextAvail - 1, f, nic.qp[f].gap)]]
      <4>1. nic'.qp = q
        BY <1>1, <2>7, NetFields DEF Tick, Device
      <4>2. \A f \in Flows : nic.qp[f] \in QpType
        BY <1>1, NetFields, DeviceFields
      <4>3. \A f \in Flows : q[f].snd_nxt = nic.qp[f].snd_nxt
        BY <4>2 DEF QpType
      <4>. QED  BY <4>1, <4>3
    <3>. QED  BY <2>2, <3>1
  <2>8. CASE UNCHANGED nicVars
    BY <2>2, <2>8 DEF nicVars
  <2>. QED  BY <1>1, <2>3, <2>4, <2>5, <2>6, <2>7, <2>8 DEF NicNext
<1>2. NicInv /\ [NicNext]_nicVars =>
        [setting.windows \/ ~ setting.lateNacks =>
            \A f \in Flows : Finished(nic, f) => nic'.qp[f].snd_nxt = nic.qp[f].snd_nxt]_nicVars
  BY <1>1 DEF Sound
<1>. QED  BY <1>2, NicInvAlways, PTL DEF NicSpec, CompletedIsSilent
=============================================================================
