--------------------------- MODULE Library_proofs ---------------------------
(* The facts that the other proof modules share: least numbers, channels   *)
(* (sequences of messages) from which messages leave at any place, and     *)
(* sums.                                                                   *)
EXTENDS Sums, SequencesExt, SequenceTheorems, WellFoundedInduction, TLAPS

(* A set of natural numbers has a least one.                               *)
LEMMA LeastNatural ==
    ASSUME NEW T, T \subseteq Nat, T # {}
    PROVE  \E k \in T : \A j \in T : ~ (j < k)
<1>1. \E k \in T : \A j \in T : ~ (<<j, k>> \in OpToRel(<, Nat))
  BY NatLessThanWellFounded, WFMin, Zenon
<1>2. \A j, k \in Nat : <<j, k>> \in OpToRel(<, Nat) <=> j < k
  BY DEF OpToRel
<1>. QED  BY <1>1, <1>2

-----------------------------------------------------------------------------
(* Channels                                                                *)

(* Taking a message out of a channel leaves messages of the same kind.     *)
LEMMA RemoveAtType ==
    ASSUME NEW S, NEW s \in Seq(S), NEW k \in DOMAIN s
    PROVE  RemoveAt(s, k) \in Seq(S)
<1>1. k \in 1 .. Len(s)
  OBVIOUS
<1>2. SubSeq(s, 1, k - 1) \in Seq(S) /\ SubSeq(s, k + 1, Len(s)) \in Seq(S)
  BY <1>1, \A i \in 1 .. Len(s) : s[i] \in S, SubSeqProperties
<1>. QED  BY <1>2, ConcatProperties DEF RemoveAt

LEMMA SeqMonotone ==
    ASSUME NEW S, NEW T, S \subseteq T, NEW s \in Seq(S)
    PROVE  s \in Seq(T)
<1>1. Len(s) \in Nat /\ s = [i \in 1 .. Len(s) |-> s[i]] /\ \A i \in 1 .. Len(s) : s[i] \in T
  OBVIOUS
<1>. QED  BY <1>1

LEMMA ConcatType ==
    ASSUME NEW S, NEW s \in Seq(S), NEW t \in Seq(S)
    PROVE  s \o t \in Seq(S)
  BY ConcatProperties

(* t is s without its k-th message.                                        *)
Without(s, k, t) ==
    /\ Len(t) = Len(s) - 1
    /\ \A i \in 1 .. Len(t) : t[i] = IF i < k THEN s[i] ELSE s[i + 1]

LEMMA RemoveAtElements ==
    ASSUME NEW S, NEW s \in Seq(S), NEW k \in DOMAIN s
    PROVE  Without(s, k, RemoveAt(s, k))
<1>1. k \in 1 .. Len(s) /\ Len(s) \in Nat
  OBVIOUS
<1>. DEFINE a == SubSeq(s, 1, k - 1)
            b == SubSeq(s, k + 1, Len(s))
<1>2. a \in Seq(S) /\ b \in Seq(S)
  BY <1>1, \A i \in 1 .. Len(s) : s[i] \in S, SubSeqProperties
<1>3. Len(a) = k - 1 /\ \A i \in 1 .. k - 1 : a[i] = s[i]
  BY <1>1, SubSeqProperties
<1>4. Len(b) = Len(s) - k /\ \A i \in 1 .. Len(s) - k : b[i] = s[k + i]
  BY <1>1, SubSeqProperties
<1>. HIDE DEF a, b
<1>5. Len(a \o b) = Len(a) + Len(b)
      /\ \A i \in 1 .. Len(a) + Len(b) : (a \o b)[i] = IF i <= Len(a) THEN a[i] ELSE b[i - Len(a)]
  BY <1>2, ConcatProperties
<1>6. ASSUME NEW i \in 1 .. Len(s) - 1
      PROVE  (a \o b)[i] = IF i < k THEN s[i] ELSE s[i + 1]
  <2>1. CASE i < k
    <3>1. i \in 1 .. k - 1 /\ i \in 1 .. Len(a) + Len(b) /\ i <= Len(a)
      BY <2>1, <1>1, <1>3, <1>4
    <3>. QED  BY <2>1, <3>1, <1>3, <1>5
  <2>2. CASE ~ (i < k)
    <3>1. i - (k - 1) \in 1 .. Len(s) - k /\ k + (i - (k - 1)) = i + 1
      BY <2>2, <1>1
    <3>2. i \in 1 .. Len(a) + Len(b) /\ ~ (i <= Len(a)) /\ Len(a) = k - 1
      BY <2>2, <1>1, <1>3, <1>4
    <3>3. (a \o b)[i] = b[i - (k - 1)]
      BY <3>2, <1>5
    <3>4. b[i - (k - 1)] = s[k + (i - (k - 1))]
      BY <3>1, <1>4
    <3>. QED  BY <3>1, <3>3, <3>4, <2>2
  <2>. QED  BY <2>1, <2>2
<1>7. RemoveAt(s, k) = a \o b
  BY DEF RemoveAt, a, b
<1>8. Len(a \o b) = Len(s) - 1
  BY <1>1, <1>3, <1>4, <1>5
<1>. QED  BY <1>6, <1>7, <1>8 DEF Without

LEMMA TailElements ==
    ASSUME NEW S, NEW s \in Seq(S), s # <<>>
    PROVE  1 \in DOMAIN s /\ Head(s) = s[1] /\ Without(s, 1, Tail(s))
  BY HeadTailProperties DEF Without

-----------------------------------------------------------------------------
(* Sums                                                                    *)

(* s is the function of partial sums of f up to n *)
IsSums(s, f, n) ==
    s = [i \in 0 .. n |-> IF i = 0 THEN 0 ELSE s[i - 1] + f[i]]

LEMMA SumsExist ==
    ASSUME NEW n \in Nat, NEW f
    PROVE  \E s : IsSums(s, f, n)
<1>. DEFINE Bad == {k \in Nat : ~ \E s : IsSums(s, f, k)}
<1>. SUFFICES ASSUME Bad # {} PROVE FALSE
  OBVIOUS
<1>. PICK k \in Bad : \A j \in Bad : ~ (j < k)
  BY LeastNatural
<1>1. CASE k = 0
  <2>. IsSums([i \in 0 .. 0 |-> 0], f, 0)
    BY DEF IsSums
  <2>. QED  BY <1>1
<1>2. CASE k # 0
  <2>1. k - 1 \in Nat /\ k - 1 < k
    BY <1>2
  <2>2. PICK s : IsSums(s, f, k - 1)
    BY <2>1
  <2>. DEFINE t == [i \in 0 .. k |-> IF i = k THEN s[k - 1] + f[k] ELSE s[i]]
  <2>3. IsSums(t, f, k)
    BY <2>1, <2>2 DEF IsSums
  <2>. QED  BY <2>3
<1>. QED  BY <1>1, <1>2

LEMMA PartialSumsDef ==
    ASSUME NEW n \in Nat, NEW f
    PROVE  IsSums(PartialSums(f, n), f, n)
<1>. DEFINE S == PartialSums(f, n)
<1>1. S = CHOOSE s : IsSums(s, f, n)
  BY DEF PartialSums, IsSums
<1>. QED BY <1>1, SumsExist

(* The recursion of the partial sums, as two facts to cite *)
LEMMA PartialSumsSteps ==
    ASSUME NEW n \in Nat, NEW f
    PROVE  /\ PartialSums(f, n)[0] = 0
           /\ \A i \in 1 .. n : PartialSums(f, n)[i] = PartialSums(f, n)[i - 1] + f[i]
<1>. DEFINE s == PartialSums(f, n)
<1>1. s = [i \in 0 .. n |-> IF i = 0 THEN 0 ELSE s[i - 1] + f[i]]
  BY PartialSumsDef DEF IsSums
<1>. HIDE DEF s
<1>2. s[0] = 0
  BY <1>1
<1>3. \A i \in 1 .. n : s[i] = s[i - 1] + f[i]
  BY <1>1
<1>. QED  BY <1>2, <1>3 DEF s

(* A set of indices that contains 0 and is closed under successor up to n  *)
(* contains every index: induction, stated about a set                     *)
LEMMA IndexInduction ==
    ASSUME NEW n \in Nat, NEW T,
           0 \in T, \A i \in 1 .. n : i - 1 \in T => i \in T
    PROVE  \A i \in 0 .. n : i \in T
<1>. DEFINE Bad == {i \in 0 .. n : i \notin T}
<1>. SUFFICES ASSUME Bad # {} PROVE FALSE
  OBVIOUS
<1>1. Bad \subseteq Nat
  OBVIOUS
<1>. HIDE DEF Bad
<1>2. PICK k \in Bad : \A j \in Bad : ~ (j < k)
  BY <1>1, LeastNatural
<1>3. k \in 1 .. n /\ k \notin T
  BY <1>2 DEF Bad
<1>4. k - 1 \notin Bad
  BY <1>2, <1>3
<1>5. k - 1 \in T
  BY <1>3, <1>4 DEF Bad
<1>. QED  BY <1>3, <1>5

LEMMA PartialSumsInt ==
    ASSUME NEW n \in Nat, NEW f, \A i \in 1 .. n : f[i] \in Int
    PROVE  \A i \in 0 .. n : PartialSums(f, n)[i] \in Int
<1>. DEFINE s == PartialSums(f, n)
            T == {i \in 0 .. n : s[i] \in Int}
<1>1. s[0] = 0 /\ \A i \in 1 .. n : s[i] = s[i - 1] + f[i]
  BY PartialSumsSteps
<1>. HIDE DEF s
<1>2. 0 \in T /\ \A i \in 1 .. n : i - 1 \in T => i \in T
  BY <1>1
<1>. HIDE DEF T
<1>3. \A i \in 0 .. n : i \in T
  BY <1>2, IndexInduction
<1>. QED  BY <1>3 DEF T, s

(* SumTo is an integer, and a natural number that bounds every entry when  *)
(* no entry is negative.                                                   *)
LEMMA SumToInt ==
    ASSUME NEW n \in Nat, NEW f, \A i \in 1 .. n : f[i] \in Int
    PROVE  SumTo(f, n) \in Int
BY PartialSumsInt DEF SumTo

LEMMA SumToBounds ==
    ASSUME NEW n \in Nat, NEW f, \A i \in 1 .. n : f[i] \in Nat
    PROVE  /\ SumTo(f, n) \in Nat
           /\ \A k \in 1 .. n : f[k] <= SumTo(f, n)
<1>. DEFINE s == PartialSums(f, n)
            T == {i \in 0 .. n : s[i] >= 0 /\ \A k \in 1 .. i : f[k] <= s[i]}
<1>1. s[0] = 0 /\ \A i \in 1 .. n : s[i] = s[i - 1] + f[i]
  BY PartialSumsSteps
<1>2. \A i \in 0 .. n : s[i] \in Int
  BY PartialSumsInt
<1>. HIDE DEF s
<1>3. 0 \in T
  BY <1>1
<1>4. ASSUME NEW i \in 1 .. n, i - 1 \in T PROVE i \in T
  <2>1. s[i] = s[i - 1] + f[i] /\ s[i - 1] \in Int /\ f[i] \in Nat
    BY <1>1, <1>2
  <2>2. ASSUME NEW k \in 1 .. i PROVE f[k] <= s[i]
    <3>1. CASE k = i
      BY <2>1, <1>4, <3>1
    <3>2. CASE k \in 1 .. i - 1
      BY <2>1, <1>4, <3>2
    <3>. QED  BY <3>1, <3>2
  <2>. QED  BY <2>1, <2>2, <1>4
<1>. HIDE DEF T
<1>5. n \in T
  BY <1>3, <1>4, IndexInduction
<1>. QED  BY <1>2, <1>5 DEF T, s, SumTo

LEMMA SumToZero ==
    ASSUME NEW n \in Nat, NEW f, \A i \in 1 .. n : f[i] = 0
    PROVE  SumTo(f, n) = 0
<1>. DEFINE s == PartialSums(f, n)
            T == {i \in 0 .. n : s[i] = 0}
<1>1. s[0] = 0 /\ \A i \in 1 .. n : s[i] = s[i - 1] + f[i]
  BY PartialSumsSteps
<1>. HIDE DEF s
<1>2. 0 \in T /\ \A i \in 1 .. n : i - 1 \in T => i \in T
  BY <1>1
<1>. HIDE DEF T
<1>3. n \in T
  BY <1>2, IndexInduction
<1>. QED  BY <1>3 DEF T, s, SumTo

(* Functions that agree on 1..n, up to a change d of one entry k, have     *)
(* sums that differ by d.                                                  *)
LEMMA SumToUpdate ==
    ASSUME NEW n \in Nat, NEW f, NEW g, NEW k \in 1 .. n, NEW d \in Int,
           \A i \in 1 .. n : f[i] \in Int,
           \A i \in 1 .. n : g[i] = IF i = k THEN f[i] + d ELSE f[i]
    PROVE  SumTo(g, n) = SumTo(f, n) + d
<1>. DEFINE s == PartialSums(f, n)
            t == PartialSums(g, n)
            T == {i \in 0 .. n : t[i] = IF i < k THEN s[i] ELSE s[i] + d}
<1>1. s[0] = 0 /\ \A i \in 1 .. n : s[i] = s[i - 1] + f[i]
  BY PartialSumsSteps
<1>2. t[0] = 0 /\ \A i \in 1 .. n : t[i] = t[i - 1] + g[i]
  BY PartialSumsSteps
<1>3. \A i \in 0 .. n : s[i] \in Int
  BY PartialSumsInt
<1>. HIDE DEF s, t
<1>4. 0 \in T
  BY <1>1, <1>2
<1>5. ASSUME NEW i \in 1 .. n, i - 1 \in T PROVE i \in T
  <2>1. /\ s[i] = s[i - 1] + f[i]
        /\ t[i] = t[i - 1] + g[i]
        /\ s[i - 1] \in Int /\ f[i] \in Int /\ i - 1 \in 0 .. n
    BY <1>1, <1>2, <1>3
  <2>2. t[i - 1] = IF i - 1 < k THEN s[i - 1] ELSE s[i - 1] + d
    BY <1>5
  <2>3. CASE i < k
    BY <2>1, <2>2, <2>3
  <2>4. CASE i = k
    BY <2>1, <2>2, <2>4
  <2>5. CASE i > k
    BY <2>1, <2>2, <2>5
  <2>. QED  BY <2>3, <2>4, <2>5
<1>. HIDE DEF T
<1>6. n \in T
  BY <1>4, <1>5, IndexInduction
<1>. QED  BY <1>6 DEF T, s, t, SumTo

(* Equal entries have equal sums.                                          *)
LEMMA SumToSame ==
    ASSUME NEW n \in Nat, NEW f, NEW g, \A i \in 1 .. n : f[i] = g[i]
    PROVE  SumTo(f, n) = SumTo(g, n)
<1>. DEFINE s == PartialSums(f, n)
            t == PartialSums(g, n)
            T == {i \in 0 .. n : t[i] = s[i]}
<1>1. s[0] = 0 /\ \A i \in 1 .. n : s[i] = s[i - 1] + f[i]
  BY PartialSumsSteps
<1>2. t[0] = 0 /\ \A i \in 1 .. n : t[i] = t[i - 1] + g[i]
  BY PartialSumsSteps
<1>. HIDE DEF s, t
<1>3. 0 \in T /\ \A i \in 1 .. n : i - 1 \in T => i \in T
  BY <1>1, <1>2
<1>. HIDE DEF T
<1>4. n \in T
  BY <1>3, IndexInduction
<1>. QED  BY <1>4 DEF T, s, t, SumTo

(* The same for tables: the total of a table of natural numbers is a       *)
(* natural number that bounds every entry.                                 *)
LEMMA SumTableBounds ==
    ASSUME NEW m \in Nat, NEW n \in Nat, NEW t,
           \A i \in 1 .. m, j \in 1 .. n : t[i][j] \in Nat
    PROVE  /\ SumTable(t, m, n) \in Nat
           /\ \A i \in 1 .. m, j \in 1 .. n : t[i][j] <= SumTable(t, m, n)
<1>. DEFINE rows == [i \in 1 .. m |-> SumTo(t[i], n)]
<1>1. \A i \in 1 .. m : rows[i] \in Nat /\ \A j \in 1 .. n : t[i][j] <= rows[i]
  BY SumToBounds
<1>. HIDE DEF rows
<1>2. SumTo(rows, m) \in Nat /\ \A i \in 1 .. m : rows[i] <= SumTo(rows, m)
  BY <1>1, SumToBounds
<1>3. SumTable(t, m, n) = SumTo(rows, m)
  BY DEF SumTable, rows
<1>4. ASSUME NEW i \in 1 .. m, NEW j \in 1 .. n PROVE t[i][j] <= SumTable(t, m, n)
  BY <1>1, <1>2, <1>3
<1>. QED  BY <1>2, <1>3, <1>4

(* Table u is table t with d added to the entry in row p and column q.     *)
EntryChanged(t, u, m, n, p, q, d) ==
  /\ m \in Nat /\ n \in Nat /\ p \in 1 .. m /\ q \in 1 .. n /\ d \in Int
  /\ \A i \in 1 .. m, j \in 1 .. n :
        /\ t[i][j] \in Int
        /\ u[i][j] = IF i = p /\ j = q THEN t[i][j] + d ELSE t[i][j]

(* Tables that agree up to a change d of one entry have totals that differ *)
(* by d.                                                                   *)
LEMMA SumTableUpdate ==
    ASSUME NEW m, NEW n, NEW t, NEW u, NEW p, NEW q, NEW d,
           EntryChanged(t, u, m, n, p, q, d)
    PROVE  SumTable(u, m, n) = SumTable(t, m, n) + d
<1>. DEFINE rt == [i \in 1 .. m |-> SumTo(t[i], n)]
            ru == [i \in 1 .. m |-> SumTo(u[i], n)]
<1>. /\ m \in Nat /\ n \in Nat /\ p \in 1 .. m /\ q \in 1 .. n /\ d \in Int
  BY DEF EntryChanged
<1>0. \A i \in 1 .. m, j \in 1 .. n :
          t[i][j] \in Int /\ u[i][j] = IF i = p /\ j = q THEN t[i][j] + d ELSE t[i][j]
  BY DEF EntryChanged
<1>1. \A i \in 1 .. m : rt[i] \in Int
  BY <1>0, SumToInt
<1>2. ru[p] = rt[p] + d
  <2>. DEFINE f == t[p]
              g == u[p]
  <2>1. /\ \A j \in 1 .. n : f[j] \in Int
        /\ \A j \in 1 .. n : g[j] = IF j = q THEN f[j] + d ELSE f[j]
    BY <1>0
  <2>. HIDE DEF f, g
  <2>2. SumTo(g, n) = SumTo(f, n) + d
    BY ONLY <2>1, SumToUpdate, n \in Nat, q \in 1 .. n, d \in Int, ZenonT(30)
  <2>. QED  BY <2>2 DEF f, g
<1>3. \A i \in 1 .. m : i # p => ru[i] = rt[i]
  BY <1>0, SumToSame
<1>4. SumTable(t, m, n) = SumTo(rt, m) /\ SumTable(u, m, n) = SumTo(ru, m)
  BY DEF SumTable
<1>. HIDE DEF rt, ru
<1>5. \A i \in 1 .. m : ru[i] = IF i = p THEN rt[i] + d ELSE rt[i]
  BY <1>2, <1>3
<1>6. SumTo(ru, m) = SumTo(rt, m) + d
  BY ONLY <1>1, <1>5, SumToUpdate, m \in Nat, p \in 1 .. m, d \in Int, ZenonT(30)
<1>. QED  BY <1>4, <1>6

LEMMA SumTableZero ==
    ASSUME NEW m \in Nat, NEW n \in Nat, NEW t,
           \A i \in 1 .. m, j \in 1 .. n : t[i][j] = 0
    PROVE  SumTable(t, m, n) = 0
<1>. DEFINE rows == [i \in 1 .. m |-> SumTo(t[i], n)]
<1>1. \A i \in 1 .. m : rows[i] = 0
  BY SumToZero
<1>2. SumTable(t, m, n) = SumTo(rows, m)
  BY DEF SumTable
<1>. HIDE DEF rows
<1>. QED  BY <1>1, <1>2, SumToZero

(* Entries that exceed those of g by at most d have a sum that exceeds     *)
(* that of g by at most n * d.                                             *)
LEMMA SumToSlack ==
    ASSUME NEW n \in Nat, NEW f, NEW g, NEW d \in Int,
           \A i \in 1 .. n : f[i] \in Int /\ g[i] \in Int /\ f[i] <= g[i] + d
    PROVE  SumTo(f, n) <= SumTo(g, n) + n * d
<1>. DEFINE s == PartialSums(f, n)
            t == PartialSums(g, n)
            T == {i \in 0 .. n : s[i] <= t[i] + i * d}
<1>1. s[0] = 0 /\ \A i \in 1 .. n : s[i] = s[i - 1] + f[i]
  BY PartialSumsSteps
<1>2. t[0] = 0 /\ \A i \in 1 .. n : t[i] = t[i - 1] + g[i]
  BY PartialSumsSteps
<1>3. \A i \in 0 .. n : s[i] \in Int /\ t[i] \in Int
  BY PartialSumsInt
<1>. HIDE DEF s, t
<1>4. 0 \in T
  BY <1>1, <1>2
<1>5. ASSUME NEW i \in 1 .. n, i - 1 \in T PROVE i \in T
  <2>1. /\ s[i] = s[i - 1] + f[i] /\ t[i] = t[i - 1] + g[i] /\ f[i] <= g[i] + d
        /\ s[i - 1] \in Int /\ t[i - 1] \in Int /\ f[i] \in Int /\ g[i] \in Int
    BY <1>1, <1>2, <1>3
  <2>2. s[i - 1] <= t[i - 1] + (i - 1) * d
    BY <1>5
  <2>3. (i - 1) * d + d = i * d /\ (i - 1) * d \in Int
    OBVIOUS
  <2>4. s[i] <= t[i] + ((i - 1) * d + d)
    BY <2>1, <2>2, <2>3
  <2>. QED  BY <2>3, <2>4
<1>. HIDE DEF T
<1>6. n \in T
  BY <1>4, <1>5, IndexInduction
<1>. QED  BY <1>6 DEF T, s, t, SumTo

(* The same with a slack k * (c + h[i]) of its own for every entry.        *)
LEMMA SumToSlacks ==
    ASSUME NEW n \in Nat, NEW f, NEW g, NEW h, NEW k \in Int, NEW c \in Int,
           \A i \in 1 .. n : /\ f[i] \in Int /\ g[i] \in Int /\ h[i] \in Int
                             /\ f[i] <= g[i] + k * (c + h[i])
    PROVE  SumTo(f, n) <= SumTo(g, n) + k * (n * c + SumTo(h, n))
<1>. DEFINE s == PartialSums(f, n)
            t == PartialSums(g, n)
            w == PartialSums(h, n)
            T == {i \in 0 .. n : s[i] <= t[i] + k * (i * c + w[i])}
<1>1. s[0] = 0 /\ \A i \in 1 .. n : s[i] = s[i - 1] + f[i]
  BY PartialSumsSteps
<1>2. t[0] = 0 /\ \A i \in 1 .. n : t[i] = t[i - 1] + g[i]
  BY PartialSumsSteps
<1>3. w[0] = 0 /\ \A i \in 1 .. n : w[i] = w[i - 1] + h[i]
  BY PartialSumsSteps
<1>4. \A i \in 0 .. n : s[i] \in Int /\ t[i] \in Int /\ w[i] \in Int
  BY PartialSumsInt
<1>. HIDE DEF s, t, w
<1>5. 0 \in T
  BY <1>1, <1>2, <1>3
<1>6. ASSUME NEW i \in 1 .. n, i - 1 \in T PROVE i \in T
  <2>1. /\ s[i] = s[i - 1] + f[i] /\ t[i] = t[i - 1] + g[i] /\ w[i] = w[i - 1] + h[i]
        /\ s[i - 1] \in Int /\ t[i - 1] \in Int /\ w[i - 1] \in Int
        /\ f[i] \in Int /\ g[i] \in Int /\ h[i] \in Int
        /\ f[i] <= g[i] + k * (c + h[i])
    BY <1>1, <1>2, <1>3, <1>4
  <2>2. s[i - 1] <= t[i - 1] + k * ((i - 1) * c + w[i - 1])
    BY <1>6
  <2>. DEFINE x == (i - 1) * c + w[i - 1]
              y == c + h[i]
  <2>3. x \in Int /\ y \in Int /\ x + y = i * c + w[i]
    BY <2>1
  <2>. HIDE DEF x, y
  <2>4. k * x + k * y = k * (x + y) /\ k * x \in Int /\ k * y \in Int
    BY <2>3
  <2>5. s[i] <= t[i] + (k * x + k * y)
    BY <2>1, <2>2, <2>4 DEF x, y
  <2>. QED  BY <2>3, <2>4, <2>5
<1>. HIDE DEF T
<1>7. n \in T
  BY <1>5, <1>6, IndexInduction
<1>. QED  BY <1>7 DEF T, s, t, w, SumTo

(* One entry more, at the end or at the beginning, is that much more.      *)
LEMMA SumToAppend ==
    ASSUME NEW n \in Nat, NEW f, NEW g, \A i \in 1 .. n : g[i] = f[i]
    PROVE  SumTo(g, n + 1) = SumTo(f, n) + g[n + 1]
<1>. DEFINE s == PartialSums(f, n)
            t == PartialSums(g, n + 1)
            T == {i \in 0 .. n : t[i] = s[i]}
<1>1. s[0] = 0 /\ \A i \in 1 .. n : s[i] = s[i - 1] + f[i]
  BY PartialSumsSteps
<1>2. t[0] = 0 /\ \A i \in 1 .. n + 1 : t[i] = t[i - 1] + g[i]
  BY PartialSumsSteps
<1>. HIDE DEF s, t
<1>3. 0 \in T /\ \A i \in 1 .. n : i - 1 \in T => i \in T
  BY <1>1, <1>2
<1>. HIDE DEF T
<1>4. n \in T
  BY <1>3, IndexInduction
<1>5. t[n + 1] = t[n] + g[n + 1]
  BY <1>2
<1>. QED  BY <1>4, <1>5 DEF T, s, t, SumTo

LEMMA SumToPrepend ==
    ASSUME NEW n \in Nat, NEW f, NEW g, \A i \in 1 .. n + 1 : f[i] \in Int,
           \A i \in 1 .. n : g[i] = f[i + 1]
    PROVE  SumTo(f, n + 1) = SumTo(g, n) + f[1]
<1>. DEFINE s == PartialSums(f, n + 1)
            t == PartialSums(g, n)
            T == {i \in 0 .. n : s[i + 1] = t[i] + f[1]}
<1>1. s[0] = 0 /\ \A i \in 1 .. n + 1 : s[i] = s[i - 1] + f[i]
  BY PartialSumsSteps
<1>2. t[0] = 0 /\ \A i \in 1 .. n : t[i] = t[i - 1] + g[i]
  BY PartialSumsSteps
<1>3. \A i \in 0 .. n : t[i] \in Int
  BY PartialSumsInt
<1>. HIDE DEF s, t
<1>4. 0 \in T
  <2>1. s[1] = s[0] + f[1] /\ f[1] \in Int
    BY <1>1
  <2>. QED  BY <1>1, <1>2, <2>1
<1>5. ASSUME NEW i \in 1 .. n, i - 1 \in T PROVE i \in T
  <2>1. /\ s[i + 1] = s[i] + f[i + 1] /\ t[i] = t[i - 1] + g[i] /\ g[i] = f[i + 1]
        /\ s[i] = t[i - 1] + f[1]
        /\ t[i - 1] \in Int /\ f[1] \in Int /\ f[i + 1] \in Int
    BY <1>1, <1>2, <1>3, <1>5
  <2>. QED  BY <2>1
<1>. HIDE DEF T
<1>6. n \in T
  BY <1>4, <1>5, IndexInduction
<1>. QED  BY <1>6 DEF T, s, t, SumTo
=============================================================================
