------------------------- MODULE OpticalFabric_proofs -------------------------
(* Proofs about the optical switches: that their schedules never let two   *)
(* of them have the same circuits, that the leaves' optical routes are     *)
(* therefore those of the circuits, and that a packet which is on time     *)
(* comes out where its route pointed; from any leaf to any leaf, whichever *)
(* packets are late.                                                       *)
EXTENDS OpticalFabric, FiniteSetTheorems, TLAPS

Schedule  == [index : 0 .. 14, isDay : BOOLEAN, timer : 0 .. 33]
MemsState == [Mems -> Schedule]

(* The time until the circuits of m change, which is when its day breaks.  *)
ToChange(ms, m) == ms[m].timer + (IF ms[m].isDay THEN Night ELSE 0)

(* Two switches m < n: either n follows m, with a matrix n - m further on, *)
(* or it is a period behind and m follows n.                               *)
Staggered(ms, m, n) ==
    \/ /\ ToChange(ms, n) - ToChange(ms, m) = Stagger * (n - m)
       /\ ms[n].index = (ms[m].index + (n - m)) % 15
    \/ /\ ToChange(ms, m) - ToChange(ms, n) = Day + Night - Stagger * (n - m)
       /\ ms[m].index = (ms[n].index + 4 - (n - m)) % 15

ScheduleInv(ms) ==
    /\ ms \in MemsState
    /\ \A m \in Mems : ~ ms[m].isDay => ms[m].timer <= Night
    /\ ToChange(ms, 0) <= Day + Night
    /\ \A m, n \in Mems : m < n => Staggered(ms, m, n)

-----------------------------------------------------------------------------
(* The matrices and the schedule.                                          *)

LEMMA Sizes == /\ Mems = 0 .. 3 /\ Leaves = 0 .. 15 /\ Day = 18 /\ Night = 2 /\ Stagger = 5
               /\ optical_spine_num = 4
BY DEF Mems, Leaves, leaf_num, spine_num, optical_spine_num, electric_spine_num, Day, Night, Stagger

(* Every matrix pairs the leaves, and no two have a pair in common.        *)
LEMMA MatrixPairs ==
    \A i \in 1 .. 15, a \in 1 .. 16 :
        /\ LinkMatrix[i][a] \in 0 .. 15
        /\ LinkMatrix[i][a] # a - 1
        /\ LinkMatrix[i][LinkMatrix[i][a] + 1] = a - 1
BY SMTT(60) DEF LinkMatrix

LEMMA MatricesDiffer ==
    \A i, j \in 1 .. 15, a \in 1 .. 16 : i # j => LinkMatrix[i][a] # LinkMatrix[j][a]
BY SMTT(60) DEF LinkMatrix

LEMMA Circuits ==
    ASSUME NEW ms \in MemsState, NEW m \in Mems, NEW a \in Leaves
    PROVE  /\ CircuitEnd(ms, m, a) = LinkMatrix[ms[m].index + 1][a + 1]
           /\ CircuitEnd(ms, m, a) \in Leaves
           /\ CircuitEnd(ms, m, a) # a
           /\ CircuitEnd(ms, m, CircuitEnd(ms, m, a)) = a
           /\ \A n \in Mems : ms[n].index # ms[m].index
                                  => CircuitEnd(ms, n, a) # CircuitEnd(ms, m, a)
<1>. DEFINE i(n) == ms[n].index + 1
<1>1. \A n \in Mems : i(n) \in 1 .. 15 /\ (ms[n].index # ms[m].index => i(n) # i(m))
  BY DEF MemsState, Schedule
<1>2. a + 1 \in 1 .. 16 /\ (a + 1) - 1 = a
  BY Sizes
<1>3. \A n \in Mems, b \in Leaves : CircuitEnd(ms, n, b) = LinkMatrix[i(n)][b + 1]
  BY DEF CircuitEnd, LinkTable
<1>. HIDE DEF i
<1>4. /\ LinkMatrix[i(m)][a + 1] \in Leaves /\ LinkMatrix[i(m)][a + 1] # a
      /\ LinkMatrix[i(m)][LinkMatrix[i(m)][a + 1] + 1] = a
  BY <1>1, <1>2, MatrixPairs, Sizes
<1>5. \A n \in Mems : i(n) # i(m) => LinkMatrix[i(n)][a + 1] # LinkMatrix[i(m)][a + 1]
  BY <1>1, <1>2, MatricesDiffer
<1>. QED  BY <1>1, <1>3, <1>4, <1>5 DEF i

(* Circuits depend on the number of the matrix alone.                      *)
LEMMA SameCircuit ==
    ASSUME NEW ms, NEW mt, NEW m \in Mems, ms[m].index = mt[m].index
    PROVE  \A a \in Leaves : CircuitEnd(mt, m, a) = CircuitEnd(ms, m, a)
BY DEF CircuitEnd, LinkTable

(* No two switches have the same matrix, nor do two change theirs within   *)
(* a stagger.                                                              *)
LEMMA Apart ==
    ASSUME NEW ms, ScheduleInv(ms), NEW m \in Mems, NEW n \in Mems, m # n
    PROVE  /\ ms[m].index # ms[n].index
           /\ \/ ToChange(ms, m) >= ToChange(ms, n) + Stagger
              \/ ToChange(ms, n) >= ToChange(ms, m) + Stagger
<1>1. \A k \in Mems : ms[k].index \in 0 .. 14 /\ ToChange(ms, k) \in Int
  BY Sizes DEF ScheduleInv, MemsState, Schedule, ToChange
<1>2. \A j, k \in Mems :
          j < k => /\ ms[j].index # ms[k].index
                   /\ \/ ToChange(ms, j) >= ToChange(ms, k) + Stagger
                      \/ ToChange(ms, k) >= ToChange(ms, j) + Stagger
  <2>. SUFFICES ASSUME NEW j \in Mems, NEW k \in Mems, j < k
                PROVE  /\ ms[j].index # ms[k].index
                       /\ \/ ToChange(ms, j) >= ToChange(ms, k) + Stagger
                          \/ ToChange(ms, k) >= ToChange(ms, j) + Stagger
    OBVIOUS
  <2>1. Staggered(ms, j, k)
    BY DEF ScheduleInv
  <2>. DEFINE d == k - j
              i == ms[j].index
              h == ms[k].index
              s == ToChange(ms, j)
              t == ToChange(ms, k)
  <2>2. d \in 1 .. 3 /\ i \in 0 .. 14 /\ h \in 0 .. 14 /\ s \in Int /\ t \in Int
    BY <1>1, Sizes
  <2>3. \/ t - s = 5 * d /\ h = (i + d) % 15
        \/ s - t = 20 - 5 * d /\ i = (h + 4 - d) % 15
    BY <2>1, Sizes DEF Staggered
  <2>. HIDE DEF d, i, h, s, t
  <2>4. i # h
    BY <2>2, <2>3
  <2>5. s >= t + 5 \/ t >= s + 5
    BY <2>2, <2>3
  <2>. QED  BY <2>4, <2>5, Sizes DEF i, h, s, t
<1>3. m < n \/ n < m
  BY Sizes
<1>. QED  BY <1>2, <1>3

LEMMA ScheduleInit == OpticalInit => ScheduleInv(mems)
<1>. SUFFICES ASSUME OpticalInit PROVE ScheduleInv(mems)
  OBVIOUS
<1>1. mems = [m \in Mems |-> [index |-> m, isDay |-> TRUE, timer |-> 18 + m * 5]]
  BY Sizes DEF OpticalInit
<1>2. mems \in MemsState
  BY <1>1, Sizes DEF MemsState, Schedule
<1>3. \A m \in Mems : ToChange(mems, m) = 20 + m * 5 /\ mems[m].index = m /\ mems[m].isDay
  BY <1>1, Sizes DEF ToChange
<1>4. \A m, n \in Mems : m < n => Staggered(mems, m, n)
  BY <1>3, Sizes DEF Staggered
<1>. QED  BY <1>2, <1>3, <1>4, Sizes DEF ScheduleInv

(* What the events make of the schedule of one switch.                     *)
AtNight(r)  == [r EXCEPT !.isDay = FALSE, !.timer = Night]
AtDay(r)    == [r EXCEPT !.isDay = TRUE, !.index = (r.index + 4) % 15, !.timer = Day]
Earlier(r)  == [r EXCEPT !.timer = r.timer - 1]

LEMMA ScheduleFields ==
    ASSUME NEW r \in Schedule
    PROVE  r.index \in 0 .. 14 /\ r.isDay \in BOOLEAN /\ r.timer \in 0 .. 33
BY DEF Schedule

LEMMA NightFields ==
    ASSUME NEW r \in Schedule
    PROVE  /\ AtNight(r) \in Schedule /\ AtNight(r).index = r.index
           /\ AtNight(r).timer = Night /\ ~ AtNight(r).isDay
<1>. DEFINE t == Night
<1>1. t \in 0 .. 33
  BY Sizes
<1>. HIDE DEF t
<1>2. AtNight(r) = [r EXCEPT !.isDay = FALSE, !.timer = t]
  BY DEF AtNight, t
<1>3. AtNight(r) \in Schedule
  BY <1>1, <1>2 DEF Schedule
<1>4. AtNight(r).index = r.index /\ AtNight(r).timer = t /\ ~ AtNight(r).isDay
  BY <1>1, <1>2 DEF Schedule
<1>. QED  BY <1>3, <1>4 DEF t

LEMMA DayFields ==
    ASSUME NEW r \in Schedule
    PROVE  /\ AtDay(r) \in Schedule /\ AtDay(r).index = (r.index + 4) % 15
           /\ AtDay(r).timer = Day /\ AtDay(r).isDay
<1>. DEFINE next == (r.index + 4) % 15
            t == Day
<1>1. next \in 0 .. 14 /\ t \in 0 .. 33
  BY Sizes DEF Schedule
<1>. HIDE DEF next, t
<1>2. AtDay(r) = [r EXCEPT !.isDay = TRUE, !.index = next, !.timer = t]
  BY DEF AtDay, next, t
<1>3. AtDay(r) \in Schedule
  BY <1>1, <1>2 DEF Schedule
<1>4. AtDay(r).index = next /\ AtDay(r).timer = t /\ AtDay(r).isDay
  BY <1>1, <1>2 DEF Schedule
<1>. QED  BY <1>3, <1>4 DEF next, t

LEMMA EarlierFields ==
    ASSUME NEW r \in Schedule, r.timer > 0
    PROVE  /\ Earlier(r) \in Schedule /\ Earlier(r).index = r.index
           /\ Earlier(r).timer = r.timer - 1 /\ Earlier(r).isDay = r.isDay
<1>. DEFINE t == r.timer - 1
<1>1. t \in 0 .. 33
  BY DEF Schedule
<1>. HIDE DEF t
<1>2. Earlier(r) = [r EXCEPT !.timer = t]
  BY DEF Earlier, t
<1>. QED  BY <1>1, <1>2 DEF Schedule, t

(* What an event of the schedule changes.                                  *)
LEMMA NightChanges ==
    ASSUME mems \in MemsState, NEW m \in Mems, NightFalls(m)
    PROVE  /\ mems' \in MemsState
           /\ mems[m].isDay /\ ~ mems'[m].isDay /\ mems'[m].timer = Night
           /\ ToChange(mems, m) = Night
           /\ \A n \in Mems : /\ mems'[n].index = mems[n].index
                              /\ ToChange(mems', n) = ToChange(mems, n)
                              /\ n # m => mems'[n] = mems[n]
<1>1. mems' = [mems EXCEPT ![m] = AtNight(mems[m])]
  BY DEF NightFalls, MemsState, AtNight
<1>2. mems[m] \in Schedule /\ mems[m].isDay /\ mems[m].timer = 0
  BY DEF NightFalls, MemsState
<1>3. /\ AtNight(mems[m]) \in Schedule /\ AtNight(mems[m]).index = mems[m].index
      /\ AtNight(mems[m]).timer = Night /\ ~ AtNight(mems[m]).isDay
  BY <1>2, NightFields
<1>4. mems' \in MemsState
  BY <1>1, <1>3 DEF MemsState
<1>5. mems'[m] = AtNight(mems[m]) /\ \A n \in Mems : n # m => mems'[n] = mems[n]
  BY <1>1 DEF MemsState
<1>6. ToChange(mems, m) = Night /\ ToChange(mems', m) = Night
  BY <1>2, <1>3, <1>5, Sizes DEF ToChange
<1>7. \A n \in Mems : n # m => ToChange(mems', n) = ToChange(mems, n)
  BY <1>5 DEF ToChange
<1>. QED  BY <1>2, <1>3, <1>4, <1>5, <1>6, <1>7

LEMMA DayChanges ==
    ASSUME mems \in MemsState, NEW m \in Mems, DayBreaks(m)
    PROVE  /\ mems' \in MemsState
           /\ ~ mems[m].isDay /\ mems'[m].isDay
           /\ mems'[m].index = (mems[m].index + 4) % 15
           /\ ToChange(mems, m) = 0 /\ ToChange(mems', m) = Day + Night
           /\ \A n \in Mems : n # m => /\ mems'[n] = mems[n]
                                       /\ ToChange(mems', n) = ToChange(mems, n)
<1>1. mems' = [mems EXCEPT ![m] = AtDay(mems[m])]
  BY DEF DayBreaks, MemsState, Reconfiguration, AtDay
<1>2. mems[m] \in Schedule /\ ~ mems[m].isDay /\ mems[m].timer = 0
  BY DEF DayBreaks, MemsState
<1>3. /\ AtDay(mems[m]) \in Schedule /\ AtDay(mems[m]).index = (mems[m].index + 4) % 15
      /\ AtDay(mems[m]).timer = Day /\ AtDay(mems[m]).isDay
  BY <1>2, DayFields
<1>4. mems' \in MemsState
  BY <1>1, <1>3 DEF MemsState
<1>5. mems'[m] = AtDay(mems[m]) /\ \A n \in Mems : n # m => mems'[n] = mems[n]
  BY <1>1 DEF MemsState
<1>6. ToChange(mems, m) = 0 /\ ToChange(mems', m) = Day + Night
  BY <1>2, <1>3, <1>5, Sizes DEF ToChange
<1>7. \A n \in Mems : n # m => ToChange(mems', n) = ToChange(mems, n)
  BY <1>5 DEF ToChange
<1>. QED  BY <1>2, <1>3, <1>4, <1>5, <1>6, <1>7

LEMMA TickChanges ==
    ASSUME mems \in MemsState, Tick
    PROVE  /\ mems' \in MemsState
           /\ \A n \in Mems : /\ mems'[n].index = mems[n].index
                              /\ mems'[n].isDay = mems[n].isDay
                              /\ mems'[n].timer = mems[n].timer - 1
                              /\ ToChange(mems', n) = ToChange(mems, n) - 1
                              /\ mems[n].timer > 0
<1>1. /\ mems' = [n \in Mems |-> Earlier(mems[n])]
      /\ \A n \in Mems : mems[n] \in Schedule /\ mems[n].timer > 0
  BY DEF Tick, MemsState, Earlier
<1>2. \A n \in Mems : mems'[n] = Earlier(mems[n])
  BY <1>1
<1>3. \A n \in Mems : /\ mems'[n] \in Schedule
                      /\ mems'[n].index = mems[n].index
                      /\ mems'[n].isDay = mems[n].isDay
                      /\ mems'[n].timer = mems[n].timer - 1
  BY <1>1, <1>2, EarlierFields
<1>4. mems' \in MemsState
  BY <1>1, <1>2, <1>3 DEF MemsState
<1>5. \A n \in Mems : mems[n].timer \in 0 .. 33
  BY <1>1, ScheduleFields
<1>6. \A n \in Mems : ToChange(mems', n) = ToChange(mems, n) - 1
  BY <1>3, <1>5, Sizes DEF ToChange
<1>. QED  BY <1>1, <1>3, <1>4, <1>6

(* A switch that has its day keeps its circuits for a night at least.      *)
LEMMA ScheduleBounds ==
    ASSUME NEW ms, ScheduleInv(ms), NEW m \in Mems
    PROVE  /\ ToChange(ms, m) \in Int /\ ToChange(ms, m) >= 0
           /\ ms[m].isDay => ToChange(ms, m) >= Night
           /\ ~ ms[m].isDay => ToChange(ms, m) <= Night
<1>1. ms[m].timer \in 0 .. 33 /\ (~ ms[m].isDay => ms[m].timer <= Night)
  BY DEF ScheduleInv, MemsState, Schedule
<1>. QED  BY <1>1, Sizes DEF ToChange

LEMMA ScheduleNext ==
    ASSUME ScheduleInv(mems), [OpticalNext]_opticalVars
    PROVE  ScheduleInv(mems')
<1>0. /\ mems \in MemsState
      /\ \A m \in Mems : mems[m].index \in 0 .. 14 /\ mems[m].timer \in 0 .. 33
                         /\ mems[m].isDay \in BOOLEAN /\ ToChange(mems, m) \in Int
  BY Sizes DEF ScheduleInv, MemsState, Schedule, ToChange
<1>1. ASSUME NEW m \in Mems, NightFalls(m) PROVE ScheduleInv(mems')
  <2>1. \A j, k \in Mems : j < k => Staggered(mems', j, k)
    BY <1>0, <1>1, NightChanges DEF ScheduleInv, Staggered
  <2>2. 0 \in Mems
    BY Sizes
  <2>. QED  BY <1>0, <1>1, <2>1, <2>2, NightChanges, Sizes DEF ScheduleInv
<1>2. ASSUME NEW m \in Mems, DayBreaks(m) PROVE ScheduleInv(mems')
  <2>. DEFINE s(n) == ToChange(mems, n)
              t(n) == ToChange(mems', n)
              i(n) == mems[n].index
              h(n) == mems'[n].index
  <2>1. /\ s(m) = 0 /\ t(m) = 20 /\ h(m) = (i(m) + 4) % 15
        /\ \A n \in Mems : n # m => t(n) = s(n) /\ h(n) = i(n)
        /\ \A n \in Mems : s(n) \in Int /\ s(n) >= 0 /\ i(n) \in 0 .. 14
    BY <1>0, <1>2, DayChanges, Sizes DEF ToChange
  <2>2. \A j, k \in Mems :
            j < k => \/ s(k) - s(j) = 5 * (k - j) /\ i(k) = (i(j) + (k - j)) % 15
                     \/ s(j) - s(k) = 20 - 5 * (k - j) /\ i(j) = (i(k) + 4 - (k - j)) % 15
    BY Sizes DEF ScheduleInv, Staggered
  <2>. HIDE DEF s, t, i, h
  <2>3. \A k \in Mems : m < k => t(m) - t(k) = 20 - 5 * (k - m) /\ h(m) = (h(k) + 4 - (k - m)) % 15
    <3>. SUFFICES ASSUME NEW k \in Mems, m < k
                  PROVE  t(m) - t(k) = 20 - 5 * (k - m) /\ h(m) = (h(k) + 4 - (k - m)) % 15
      OBVIOUS
    <3>1. k # m /\ k - m \in 1 .. 3
      BY Sizes
    <3>2. s(k) = 5 * (k - m) /\ i(k) = (i(m) + (k - m)) % 15
      BY <2>1, <2>2, <3>1
    <3>. QED  BY <2>1, <3>1, <3>2
  <2>4. \A k \in Mems : k < m => t(m) - t(k) = 5 * (m - k) /\ h(m) = (h(k) + (m - k)) % 15
    <3>. SUFFICES ASSUME NEW k \in Mems, k < m
                  PROVE  t(m) - t(k) = 5 * (m - k) /\ h(m) = (h(k) + (m - k)) % 15
      OBVIOUS
    <3>1. k # m /\ m - k \in 1 .. 3
      BY Sizes
    <3>2. s(k) = 20 - 5 * (m - k) /\ i(k) = (i(m) + 4 - (m - k)) % 15
      BY <2>1, <2>2, <3>1
    <3>. QED  BY <2>1, <3>1, <3>2
  <2>5. \A j, k \in Mems : j < k => Staggered(mems', j, k)
    <3>1. \A j, k \in Mems :
              j < k => \/ t(k) - t(j) = 5 * (k - j) /\ h(k) = (h(j) + (k - j)) % 15
                       \/ t(j) - t(k) = 20 - 5 * (k - j) /\ h(j) = (h(k) + 4 - (k - j)) % 15
      BY <2>1, <2>2, <2>3, <2>4
    <3>. QED  BY <3>1, Sizes DEF Staggered, t, h
  <2>6. ToChange(mems', 0) <= Day + Night
    BY <2>1, Sizes DEF ScheduleInv, s, t
  <2>. QED  BY <1>0, <1>2, <2>5, <2>6, DayChanges DEF ScheduleInv
<1>3. ASSUME Tick PROVE ScheduleInv(mems')
  <2>1. \A j, k \in Mems : j < k => Staggered(mems', j, k)
    BY <1>0, <1>3, TickChanges DEF ScheduleInv, Staggered
  <2>2. 0 \in Mems
    BY Sizes
  <2>. QED  BY <1>0, <1>3, <2>1, <2>2, TickChanges, Sizes DEF ScheduleInv
<1>4. CASE UNCHANGED mems
  BY <1>4 DEF ScheduleInv, Staggered, ToChange
<1>. QED  BY <1>1, <1>2, <1>3, <1>4 DEF OpticalNext, opticalVars, SendPacket, SendToDev, ArriveAtLeaf

-----------------------------------------------------------------------------
(* The routes.                                                             *)

Lit(ms) == {m \in Mems : ms[m].isDay}

(* The routes of all leaves are those over the circuits of the switches S. *)
RoutesOf(routes, ms, S) ==
    \A a \in Leaves :
        /\ DOMAIN routes[a] = {CircuitEnd(ms, m, a) : m \in S}
        /\ \A m \in S : routes[a][CircuitEnd(ms, m, a)] = UpLink[a][m]

Differ(ms, S) == \A m, n \in S : m # n => ms[m].index # ms[n].index

(* Each entry of a two-hop route is over a circuit of one switch, by day,  *)
(* and then over one of another.                                           *)
TwoHops(routes, ms) ==
    \A a \in Leaves : \A c \in DOMAIN routes[a] :
        \E m, n \in Lit(ms) : /\ m # n
                              /\ c = CircuitEnd(ms, n, CircuitEnd(ms, m, a))
                              /\ routes[a][c] = UpLink[a][m]

RouteInv ==
    /\ RoutesOf(optical, mems, Lit(mems))
    /\ TwoHops(multi, mems)
    /\ ~ MpMode => \A a \in Leaves : DOMAIN multi[a] = {}

LEMMA RouteAdded ==
    ASSUME NEW ms \in MemsState, NEW S \in SUBSET Mems, NEW m \in Mems, NEW routes,
           Differ(ms, S \cup {m}), RoutesOf(routes, ms, S)
    PROVE  RoutesOf(CalculateOpticalRoute(routes, ms, m), ms, S \cup {m})
<1>. DEFINE new == CalculateOpticalRoute(routes, ms, m)
<1>. SUFFICES ASSUME NEW a \in Leaves
              PROVE  /\ DOMAIN new[a] = {CircuitEnd(ms, n, a) : n \in S \cup {m}}
                     /\ \A n \in S \cup {m} : new[a][CircuitEnd(ms, n, a)] = UpLink[a][n]
  BY DEF RoutesOf
<1>. DEFINE b == CircuitEnd(ms, m, a)
<1>1. new[a] = [d \in DOMAIN routes[a] \cup {b} |-> IF d = b THEN UpLink[a][m] ELSE routes[a][d]]
  BY DEF CalculateOpticalRoute, AddOpticalTableEntry
<1>2. /\ DOMAIN routes[a] = {CircuitEnd(ms, n, a) : n \in S}
      /\ \A n \in S : routes[a][CircuitEnd(ms, n, a)] = UpLink[a][n]
  BY DEF RoutesOf
<1>3. \A n \in S : n # m => CircuitEnd(ms, n, a) # b
  BY Circuits DEF Differ
<1>. HIDE DEF new, b
<1>4. DOMAIN new[a] = {CircuitEnd(ms, n, a) : n \in S \cup {m}}
  BY <1>1, <1>2 DEF b
<1>5. \A n \in S : n # m => new[a][CircuitEnd(ms, n, a)] = UpLink[a][n]
  BY <1>1, <1>2, <1>3
<1>6. new[a][b] = UpLink[a][m]
  BY <1>1
<1>. QED  BY <1>4, <1>5, <1>6 DEF b

LEMMA RouteCleared ==
    ASSUME NEW ms \in MemsState, NEW S \in SUBSET Mems, NEW m \in S, NEW routes,
           Differ(ms, S), RoutesOf(routes, ms, S)
    PROVE  RoutesOf(ClearOpticalRoute(routes, ms, m), ms, S \ {m})
<1>. DEFINE new == ClearOpticalRoute(routes, ms, m)
<1>. SUFFICES ASSUME NEW a \in Leaves
              PROVE  /\ DOMAIN new[a] = {CircuitEnd(ms, n, a) : n \in S \ {m}}
                     /\ \A n \in S \ {m} : new[a][CircuitEnd(ms, n, a)] = UpLink[a][n]
  BY DEF RoutesOf
<1>. DEFINE b == CircuitEnd(ms, m, a)
<1>1. new[a] = [d \in DOMAIN routes[a] \ {b} |-> routes[a][d]]
  BY DEF ClearOpticalRoute, ClearOpticalTableEntry, Restrict
<1>2. /\ DOMAIN routes[a] = {CircuitEnd(ms, n, a) : n \in S}
      /\ \A n \in S : routes[a][CircuitEnd(ms, n, a)] = UpLink[a][n]
  BY DEF RoutesOf
<1>3. \A n \in S \ {m} : CircuitEnd(ms, n, a) # b
  BY Circuits DEF Differ
<1>. HIDE DEF new
<1>4. DOMAIN new[a] = {CircuitEnd(ms, n, a) : n \in S \ {m}}
  BY <1>1, <1>2, <1>3
<1>5. \A n \in S \ {m} : new[a][CircuitEnd(ms, n, a)] = UpLink[a][n]
  BY <1>1, <1>2, <1>3
<1>. QED  BY <1>4, <1>5

LEMMA RoutesStay ==
    ASSUME NEW ms, NEW mt, NEW S \in SUBSET Mems, NEW routes,
           \A m \in S : mt[m].index = ms[m].index, RoutesOf(routes, ms, S)
    PROVE  RoutesOf(routes, mt, S)
<1>1. \A m \in S, a \in Leaves : CircuitEnd(mt, m, a) = CircuitEnd(ms, m, a)
  BY SameCircuit
<1>. QED  BY <1>1 DEF RoutesOf

(* Whichever of the circuits it keeps for a destination, the two-hop table *)
(* names the first of two switches that have their day.                    *)
LEMMA TwoHopsComputed ==
    ASSUME NEW ms
    PROVE  TwoHops(CalculateMpOpticalRoute(ms), ms)
<1>. DEFINE routes == CalculateMpOpticalRoute(ms)
<1>. SUFFICES ASSUME NEW a \in Leaves, NEW c \in DOMAIN routes[a]
              PROVE  \E m, n \in Lit(ms) : /\ m # n
                                           /\ c = CircuitEnd(ms, n, CircuitEnd(ms, m, a))
                                           /\ routes[a][c] = UpLink[a][m]
  BY DEF TwoHops
<1>. DEFINE over == {m \in Lit(ms) : c \in Beyond(ms, m, a)}
            first == Max(over)
<1>1. c \in UNION {Beyond(ms, m, a) : m \in Lit(ms)} /\ routes[a][c] = UpLink[a][first]
  BY DEF CalculateMpOpticalRoute, Lit
<1>2. over # {} /\ over \subseteq 0 .. 3
  BY <1>1, Sizes DEF Lit
<1>. HIDE DEF over
<1>3. \E x \in over : \A y \in over : x >= y
  <2>1. \A y \in over : y = 0 \/ y = 1 \/ y = 2 \/ y = 3
    BY <1>2
  <2>2. CASE 3 \in over
    BY <2>1, <2>2
  <2>3. CASE 3 \notin over /\ 2 \in over
    BY <2>1, <2>3
  <2>4. CASE 3 \notin over /\ 2 \notin over /\ 1 \in over
    BY <2>1, <2>4
  <2>5. CASE 3 \notin over /\ 2 \notin over /\ 1 \notin over
    <3>1. \A y \in over : y = 0
      BY <2>1, <2>5
    <3>2. 0 \in over
      BY <1>2, <3>1
    <3>. QED  BY <3>1, <3>2
  <2>. QED  BY <2>2, <2>3, <2>4, <2>5
<1>4. first \in over
  BY <1>3 DEF Max
<1>5. first \in Lit(ms) /\ c \in Beyond(ms, first, a)
  BY <1>4 DEF over
<1>6. PICK n \in Mems \ {first} : ms[n].isDay /\ c = CircuitEnd(ms, n, CircuitEnd(ms, first, a))
  BY <1>5 DEF Beyond
<1>. QED  BY <1>1, <1>5, <1>6 DEF Lit

LEMMA EnteredInOrder ==
    ASSUME NEW ms
    PROVE  Entered(ms) =
               CalculateOpticalRoute(CalculateOpticalRoute(CalculateOpticalRoute(
                   CalculateOpticalRoute(NoRoutes, ms, 0), ms, 1), ms, 2), ms, 3)
<1>. DEFINE Is(f) == f = [k \in 0 .. optical_spine_num |->
                            IF k = 0 THEN NoRoutes ELSE CalculateOpticalRoute(f[k - 1], ms, k - 1)]
            c(r, m) == CalculateOpticalRoute(r, ms, m)
            r1 == c(NoRoutes, 0)
            r2 == c(r1, 1)
            r3 == c(r2, 2)
            r4 == c(r3, 3)
            g == [k \in 0 .. 4 |-> IF k = 0 THEN NoRoutes ELSE IF k = 1 THEN r1
                                   ELSE IF k = 2 THEN r2 ELSE IF k = 3 THEN r3 ELSE r4]
<1>1. Entered(ms) = (CHOOSE f : Is(f))[4]
  BY Sizes DEF Entered
<1>2. \A f : Is(f) <=> f = [k \in 0 .. 4 |-> IF k = 0 THEN NoRoutes ELSE c(f[k - 1], k - 1)]
  BY Sizes
<1>. HIDE DEF Is, c
<1>3. Is(g)
  <2>1. g = [k \in 0 .. 4 |-> IF k = 0 THEN NoRoutes ELSE c(g[k - 1], k - 1)]
    <3>1. /\ g[0] = NoRoutes /\ g[1] = c(g[0], 0) /\ g[2] = c(g[1], 1)
          /\ g[3] = c(g[2], 2) /\ g[4] = c(g[3], 3)
      OBVIOUS
    <3>2. g = [k \in 0 .. 4 |-> g[k]]
      OBVIOUS
    <3>. HIDE DEF g
    <3>3. \A k \in 0 .. 4 : g[k] = IF k = 0 THEN NoRoutes ELSE c(g[k - 1], k - 1)
      <4>. SUFFICES ASSUME NEW k \in 0 .. 4
                    PROVE  g[k] = IF k = 0 THEN NoRoutes ELSE c(g[k - 1], k - 1)
        OBVIOUS
      <4>1. k = 0 \/ k = 1 \/ k = 2 \/ k = 3 \/ k = 4
        OBVIOUS
      <4>. QED  BY <3>1, <4>1
    <3>. QED  BY <3>2, <3>3
  <2>. QED  BY <1>2, <2>1
<1>. DEFINE h == CHOOSE f : Is(f)
<1>4. Is(h)
  BY <1>3
<1>. HIDE DEF h, g
<1>5. h = [k \in 0 .. 4 |-> IF k = 0 THEN NoRoutes ELSE c(h[k - 1], k - 1)]
  BY <1>2, <1>4
<1>6. h[0] = NoRoutes
  BY <1>5
<1>7. \A k \in 1 .. 4 : h[k] = c(h[k - 1], k - 1)
  BY <1>5
<1>8. h[1] = r1 /\ h[2] = c(h[1], 1) /\ h[3] = c(h[2], 2) /\ h[4] = c(h[3], 3)
  BY <1>6, <1>7
<1>. QED  BY <1>1, <1>8 DEF h, c

LEMMA LitDiffer ==
    ASSUME NEW ms, ScheduleInv(ms), NEW S \in SUBSET Mems
    PROVE  Differ(ms, S)
BY Apart DEF Differ

LEMMA RouteInit == OpticalInit => RouteInv
<1>. SUFFICES ASSUME OpticalInit PROVE RouteInv
  OBVIOUS
<1>1. ScheduleInv(mems) /\ mems \in MemsState
  BY ScheduleInit DEF ScheduleInv
<1>. DEFINE c(r, m) == CalculateOpticalRoute(r, mems, m)
<1>2. RoutesOf(NoRoutes, mems, {})
  BY DEF RoutesOf, NoRoutes
<1>3. \A r : \A S \in SUBSET Mems, m \in Mems :
          RoutesOf(r, mems, S) => RoutesOf(c(r, m), mems, S \cup {m})
  BY <1>1, LitDiffer, RouteAdded
<1>. HIDE DEF c
<1>4. /\ {} \in SUBSET Mems /\ {0} \in SUBSET Mems /\ {0, 1} \in SUBSET Mems
      /\ {0, 1, 2} \in SUBSET Mems
      /\ 0 \in Mems /\ 1 \in Mems /\ 2 \in Mems /\ 3 \in Mems
      /\ {} \cup {0} = {0} /\ {0} \cup {1} = {0, 1} /\ {0, 1} \cup {2} = {0, 1, 2}
      /\ {0, 1, 2} \cup {3} = Mems
  BY Sizes
<1>5. RoutesOf(c(NoRoutes, 0), mems, {0})
  BY <1>2, <1>3, <1>4
<1>6. RoutesOf(c(c(NoRoutes, 0), 1), mems, {0, 1})
  BY <1>3, <1>4, <1>5
<1>7. RoutesOf(c(c(c(NoRoutes, 0), 1), 2), mems, {0, 1, 2})
  BY <1>3, <1>4, <1>6
<1>8. RoutesOf(c(c(c(c(NoRoutes, 0), 1), 2), 3), mems, Mems)
  BY <1>3, <1>4, <1>7
<1>9. optical = c(c(c(c(NoRoutes, 0), 1), 2), 3)
  BY EnteredInOrder DEF OpticalInit, c
<1>10. Lit(mems) = Mems
  BY DEF OpticalInit, Lit
<1>11. TwoHops(multi, mems) /\ (~ MpMode => \A a \in Leaves : DOMAIN multi[a] = {})
  <2>1. CASE MpMode
    BY <2>1, TwoHopsComputed DEF OpticalInit, MpRoutes
  <2>2. CASE ~ MpMode
    BY <2>2 DEF OpticalInit, MpRoutes, NoRoutes, TwoHops
  <2>. QED  BY <2>1, <2>2
<1>. QED  BY <1>8, <1>9, <1>10, <1>11 DEF RouteInv

(* A change that keeps the circuits and the days keeps the two-hop routes. *)
LEMMA TwoHopsStay ==
    ASSUME NEW ms, NEW mt, NEW routes, Lit(mt) = Lit(ms),
           \A m \in Lit(ms) : mt[m].index = ms[m].index, TwoHops(routes, ms)
    PROVE  TwoHops(routes, mt)
<1>1. \A m \in Lit(ms), a \in Leaves : CircuitEnd(mt, m, a) = CircuitEnd(ms, m, a)
  BY SameCircuit DEF Lit
<1>. SUFFICES ASSUME NEW a \in Leaves, NEW c \in DOMAIN routes[a]
              PROVE  \E m, n \in Lit(mt) : /\ m # n
                                           /\ c = CircuitEnd(mt, n, CircuitEnd(mt, m, a))
                                           /\ routes[a][c] = UpLink[a][m]
  BY DEF TwoHops
<1>2. PICK m, n \in Lit(ms) : /\ m # n
                              /\ c = CircuitEnd(ms, n, CircuitEnd(ms, m, a))
                              /\ routes[a][c] = UpLink[a][m]
  BY DEF TwoHops
<1>3. c = CircuitEnd(mt, n, CircuitEnd(mt, m, a))
  <2>1. LinkTable(mt, n) = LinkTable(ms, n)
    BY DEF LinkTable
  <2>. QED  BY <1>1, <1>2, <2>1 DEF CircuitEnd
<1>. QED  BY <1>2, <1>3

LEMMA RouteNext ==
    ASSUME ScheduleInv(mems), RouteInv, [OpticalNext]_opticalVars
    PROVE  RouteInv'
<1>0. mems \in MemsState /\ Lit(mems) \in SUBSET Mems
  BY DEF ScheduleInv, Lit
<1>1. ASSUME multi' = MpRoutes(multi, mems')
      PROVE  TwoHops(multi', mems') /\ (~ MpMode => \A a \in Leaves : DOMAIN multi'[a] = {})
  <2>1. CASE MpMode
    BY <1>1, <2>1, TwoHopsComputed DEF MpRoutes
  <2>2. CASE ~ MpMode
    BY <1>1, <2>2 DEF MpRoutes, RouteInv, TwoHops
  <2>. QED  BY <2>1, <2>2
<1>2. ASSUME NEW m \in Mems, NightFalls(m) PROVE RouteInv'
  <2>1. /\ m \in Lit(mems) /\ Lit(mems') = Lit(mems) \ {m}
        /\ \A n \in Lit(mems') : n \in Mems /\ mems'[n].index = mems[n].index
    BY <1>0, <1>2, NightChanges DEF Lit
  <2>2. optical' = ClearOpticalRoute(optical, mems, m)
    BY <1>2 DEF NightFalls
  <2>3. RoutesOf(optical', mems, Lit(mems'))
    BY <1>0, <2>1, <2>2, LitDiffer, RouteCleared DEF RouteInv
  <2>4. RoutesOf(optical', mems', Lit(mems'))
    BY <2>1, <2>3, RoutesStay
  <2>. QED  BY <1>1, <1>2, <2>4 DEF NightFalls, RouteInv
<1>3. ASSUME NEW m \in Mems, DayBreaks(m) PROVE RouteInv'
  <2>1. /\ mems' \in MemsState /\ Lit(mems') = Lit(mems) \cup {m}
        /\ \A n \in Lit(mems) : mems'[n].index = mems[n].index
    BY <1>0, <1>3, DayChanges DEF Lit
  <2>2. optical' = CalculateOpticalRoute(optical, mems', m)
    BY <1>3 DEF DayBreaks
  <2>3. RoutesOf(optical, mems', Lit(mems))
    BY <1>0, <2>1, RoutesStay DEF RouteInv
  <2>4. Differ(mems', Lit(mems) \cup {m})
    BY <1>0, ScheduleNext, LitDiffer
  <2>5. RoutesOf(optical', mems', Lit(mems'))
    BY <1>0, <2>1, <2>2, <2>3, <2>4, RouteAdded
  <2>. QED  BY <1>1, <1>3, <2>5 DEF DayBreaks, RouteInv
<1>4. ASSUME Lit(mems') = Lit(mems), \A n \in Mems : mems'[n].index = mems[n].index,
             UNCHANGED <<optical, multi>>
      PROVE  RouteInv'
  <2>1. RoutesOf(optical, mems', Lit(mems'))
    BY <1>0, <1>4, RoutesStay DEF RouteInv
  <2>2. TwoHops(multi, mems')
    BY <1>0, <1>4, TwoHopsStay DEF RouteInv
  <2>. QED  BY <1>4, <2>1, <2>2 DEF RouteInv
<1>5. CASE Tick
  BY <1>0, <1>4, <1>5, TickChanges DEF Tick, Lit
<1>6. CASE UNCHANGED <<mems, optical, multi>>
  BY <1>4, <1>6
<1>. QED  BY <1>2, <1>3, <1>5, <1>6 DEF OpticalNext, opticalVars, SendPacket, SendToDev, ArriveAtLeaf

(* Two hops over the circuits of two switches do not lead back.            *)
LEMMA NoWayBack ==
    ASSUME NEW ms, ScheduleInv(ms), NEW m \in Mems, NEW n \in Mems, m # n, NEW a \in Leaves
    PROVE  CircuitEnd(ms, n, CircuitEnd(ms, m, a)) # a
<1>. DEFINE b == CircuitEnd(ms, m, a)
<1>1. ms \in MemsState /\ ms[m].index # ms[n].index
  BY Apart DEF ScheduleInv
<1>2. b \in Leaves /\ CircuitEnd(ms, m, b) = a
  BY <1>1, Circuits
<1>. HIDE DEF b
<1>3. CircuitEnd(ms, n, b) # CircuitEnd(ms, m, b)
  BY <1>1, <1>2, Circuits
<1>. QED  BY <1>2, <1>3 DEF b

LEMMA RoutesMatch == ScheduleInv(mems) /\ RouteInv => RoutesMatchCircuits
<1>. SUFFICES ASSUME ScheduleInv(mems), RouteInv PROVE RoutesMatchCircuits
  OBVIOUS
<1>1. OneHopRoutes
  BY DEF OneHopRoutes, RouteInv, RoutesOf, Lit
<1>2. ASSUME NEW a \in Leaves, NEW m \in Mems, NEW c \in DOMAIN multi[a],
             multi[a][c] = UpLink[a][m]
      PROVE  mems[m].isDay /\ c \in DOMAIN optical[CircuitEnd(mems, m, a)] /\ c # a
  <2>1. PICK k, n \in Lit(mems) : /\ k # n
                                  /\ c = CircuitEnd(mems, n, CircuitEnd(mems, k, a))
                                  /\ multi[a][c] = UpLink[a][k]
    BY DEF RouteInv, TwoHops
  <2>2. k = m /\ k \in Mems /\ n \in Mems
    BY <1>2, <2>1, DeviceNumbers, Sizes DEF Lit
  <2>3. CircuitEnd(mems, m, a) \in Leaves
    BY Circuits DEF ScheduleInv
  <2>4. c \in DOMAIN optical[CircuitEnd(mems, m, a)]
    BY <2>1, <2>2, <2>3 DEF RouteInv, RoutesOf
  <2>5. c # a
    BY <2>1, <2>2, NoWayBack
  <2>. QED  BY <2>1, <2>2, <2>4, <2>5 DEF Lit
<1>3. TwoHopRoutes
  BY <1>2 DEF TwoHopRoutes
<1>. QED  BY <1>1, <1>3 DEF RoutesMatchCircuits

-----------------------------------------------------------------------------
(* The packet.  In what follows p is a packet at a device that leads to    *)
(* switch m, and to is the leaf at the other end of the circuit there.     *)

NoOneHop(ms, a, d) == \A k \in Lit(ms) : CircuitEnd(ms, k, a) # d

(* On the two-hop path, the packet's first hop leads to a leaf from which  *)
(* there was a route when it was routed.  Either it is still there; then,  *)
(* should a day have broken since that joins the leaf where the packet     *)
(* started with its destination, it will stay for the hop.  Or its switch  *)
(* has its night, and then no day has broken.                              *)
FirstHop(ms, p, to) ==
    /\ p.seen = {p.at}
    /\ \E n \in Mems :
          \/ /\ ms[n].isDay /\ CircuitEnd(ms, n, to) = p.dst
             /\ NoOneHop(ms, p.at, p.dst) \/ ToChange(ms, n) >= Stagger - p.age
          \/ /\ ~ ms[n].isDay /\ ToChange(ms, n) >= Night - p.age
             /\ NoOneHop(ms, p.at, p.dst)

(* Its second hop, if the route was gone, leads to a leaf from which there *)
(* is another route that will stay for the hop.                            *)
SecondHop(ms, p, to) ==
    /\ \E x \in Leaves : p.seen = {x, p.at}
    /\ to \notin p.seen
    /\ \E n \in Mems : /\ ms[n].isDay /\ CircuitEnd(ms, n, to) = p.dst
                       /\ ToChange(ms, n) >= Stagger - p.age

LastHop(p, to) == to = p.dst /\ \E x, y \in Leaves : p.seen \subseteq {x, y, p.at}

HopTo(ms, p, m, to) ==
    /\ p.device = UpLink[p.at][m] /\ to = CircuitEnd(ms, m, p.at)
    /\ p.at \in p.seen /\ p.dst \notin p.seen
    /\ p.age < Night => ToChange(ms, m) >= Night - p.age /\ p.out \in {None, to}
    /\ p.age = Night => p.late = 1
    /\ p.path # 0 => /\ p.age < Night => to = p.dst
                     /\ p.late = 0 \/ p.age = Night => p.seen = {p.at}
                     /\ \E x \in Leaves : p.seen \subseteq {x, p.at}
    /\ p.path = 0 /\ p.late = 0 => \/ FirstHop(ms, p, to) \/ SecondHop(ms, p, to)
                                   \/ LastHop(p, to)

PacketWell(ms, p) == p \in Packet /\ \E m \in Mems, to \in Leaves : HopTo(ms, p, m, to)

OpticalInv ==
    /\ ScheduleInv(mems)
    /\ RouteInv
    /\ packet # None => PacketWell(mems, packet)

LEMMA PacketFields ==
    ASSUME NEW p \in Packet
    PROVE  /\ p.dst \in Leaves /\ p.path \in Paths /\ p.at \in Leaves /\ p.device \in Nat
           /\ p.out \in Leaves \cup {None} /\ p.age \in 0 .. Night /\ p.seen \in SUBSET Leaves
           /\ p.late \in 0 .. 1
BY DEF Packet

(* The tables send a packet over a circuit to its destination, or over the *)
(* circuits of two switches, and never to where it is.                     *)
LEMMA LeafOut ==
    ASSUME ScheduleInv(mems), RouteInv, NEW a \in Leaves, NEW d, NEW path,
           GetLeafOutDev(a, d, path) # None
    PROVE  /\ path # 1 /\ d # a
           /\ \/ \E n \in Lit(mems) : /\ GetLeafOutDev(a, d, path) = UpLink[a][n]
                                      /\ d = CircuitEnd(mems, n, a)
              \/ /\ path = 0 /\ NoOneHop(mems, a, d)
                 /\ \E m, n \in Lit(mems) :
                        /\ m # n /\ GetLeafOutDev(a, d, path) = UpLink[a][m]
                        /\ d = CircuitEnd(mems, n, CircuitEnd(mems, m, a))
<1>. DEFINE device == GetLeafOutDev(a, d, path)
<1>0. mems \in MemsState /\ Lit(mems) \subseteq Mems
  BY DEF ScheduleInv, Lit
<1>1. /\ DOMAIN optical[a] = {CircuitEnd(mems, n, a) : n \in Lit(mems)}
      /\ \A n \in Lit(mems) : optical[a][CircuitEnd(mems, n, a)] = UpLink[a][n]
  BY DEF RouteInv, RoutesOf
<1>2. CASE path # 1 /\ d \in DOMAIN optical[a]
  <2>1. device = optical[a][d]
    BY <1>2 DEF GetLeafOutDev
  <2>2. PICK n \in Lit(mems) : d = CircuitEnd(mems, n, a)
    BY <1>1, <1>2
  <2>3. d # a
    BY <1>0, <2>2, Circuits
  <2>. QED  BY <1>1, <1>2, <2>1, <2>2, <2>3
<1>3. CASE path = 0 /\ d \in DOMAIN multi[a] \ DOMAIN optical[a]
  <2>1. device = multi[a][d]
    BY <1>3 DEF GetLeafOutDev
  <2>2. PICK m, n \in Lit(mems) : /\ m # n
                                  /\ d = CircuitEnd(mems, n, CircuitEnd(mems, m, a))
                                  /\ multi[a][d] = UpLink[a][m]
    BY <1>3 DEF RouteInv, TwoHops
  <2>3. d # a
    BY <1>0, <2>2, NoWayBack
  <2>4. NoOneHop(mems, a, d)
    BY <1>1, <1>3 DEF NoOneHop
  <2>. QED  BY <1>3, <2>1, <2>2, <2>3, <2>4
<1>4. CASE ~ (path # 1 /\ d \in DOMAIN optical[a])
           /\ ~ (path = 0 /\ d \in DOMAIN multi[a] \ DOMAIN optical[a])
  <2>. device = None
    BY <1>4 DEF GetLeafOutDev
  <2>. QED  OBVIOUS
<1>. QED  BY <1>2, <1>3, <1>4

(* A packet that has been routed at leaf a.                                *)
LEMMA RoutedFields ==
    ASSUME NEW p \in Packet, NEW a \in Leaves, Routed(p, a) # None,
           GetLeafOutDev(a, p.dst, p.path) # None => GetLeafOutDev(a, p.dst, p.path) \in Nat,
           NEW q, q = Routed(p, a)
    PROVE  /\ q \in Packet /\ GetLeafOutDev(a, p.dst, p.path) # None
           /\ q.at = a /\ q.device = GetLeafOutDev(a, p.dst, p.path)
           /\ q.out = None /\ q.age = 0 /\ q.seen = p.seen \cup {a}
           /\ q.dst = p.dst /\ q.path = p.path /\ q.late = p.late
<1>. DEFINE device == GetLeafOutDev(a, p.dst, p.path)
            s == p.seen \cup {a}
<1>1. device # None /\ device \in Nat
  BY DEF Routed
<1>2. s \in SUBSET Leaves /\ 0 \in 0 .. Night
  BY PacketFields, Sizes
<1>. HIDE DEF device, s
<1>3. q = [p EXCEPT !.at = a, !.device = device, !.out = None, !.age = 0, !.seen = s]
  BY <1>1 DEF Routed, device, s
<1>4. q \in Packet
  BY <1>1, <1>2, <1>3 DEF Packet
<1>5. /\ q.at = a /\ q.device = device /\ q.out = None /\ q.age = 0 /\ q.seen = s
      /\ q.dst = p.dst /\ q.path = p.path /\ q.late = p.late
  BY <1>3 DEF Packet
<1>. QED  BY <1>1, <1>4, <1>5 DEF device, s

(* Where a packet of the two-hop path may be when it is on time: at the    *)
(* start; after the first hop; after the second.                           *)
OnItsWay(p, a) ==
    \/ p.seen = {}
    \/ \E x \in Leaves : /\ p.seen = {x}
                         /\ \/ \E n \in Lit(mems) : CircuitEnd(mems, n, a) = p.dst
                            \/ /\ \E n \in Mems : ~ mems[n].isDay /\ ToChange(mems, n) >= 1
                               /\ NoOneHop(mems, x, p.dst)
    \/ /\ \E x, y \in Leaves : p.seen = {x, y}
       /\ \E n \in Lit(mems) : CircuitEnd(mems, n, a) = p.dst

LEMMA RoutedWell ==
    ASSUME ScheduleInv(mems), RouteInv, NEW p \in Packet, NEW a \in Leaves,
           Routed(p, a) # None, p.dst \notin p.seen,
           p.path # 0 => /\ p.late = 0 => p.seen = {}
                         /\ \E x \in Leaves : p.seen \subseteq {x},
           p.path = 0 /\ p.late = 0 => OnItsWay(p, a)
    PROVE  PacketWell(mems, Routed(p, a)) /\ p.dst # a
<1>. DEFINE q == Routed(p, a)
            device == GetLeafOutDev(a, p.dst, p.path)
<1>0. mems \in MemsState /\ Lit(mems) \subseteq Mems
  BY DEF ScheduleInv, Lit
<1>1. device # None
  BY DEF Routed
<1>2. /\ p.path # 1 /\ p.dst # a
      /\ \/ \E n \in Lit(mems) : device = UpLink[a][n] /\ p.dst = CircuitEnd(mems, n, a)
         \/ /\ p.path = 0 /\ NoOneHop(mems, a, p.dst)
            /\ \E m, n \in Lit(mems) : /\ m # n /\ device = UpLink[a][m]
                                       /\ p.dst = CircuitEnd(mems, n, CircuitEnd(mems, m, a))
  BY <1>1, LeafOut
<1>3. device \in Nat
  <2>. \A m \in Lit(mems) : UpLink[a][m] \in Nat
    BY <1>0, DeviceNumbers, Sizes
  <2>. QED  BY <1>2
<1>4. /\ q \in Packet
      /\ q.at = a /\ q.device = device /\ q.out = None /\ q.age = 0 /\ q.seen = p.seen \cup {a}
      /\ q.dst = p.dst /\ q.path = p.path /\ q.late = p.late
  BY <1>3, RoutedFields
<1>. HIDE DEF q, device
<1>5. \A m \in Lit(mems) : m \in Mems /\ mems[m].isDay /\ ToChange(mems, m) >= Night
                           /\ ToChange(mems, m) \in Int
  BY <1>0, ScheduleBounds DEF Lit
<1>6. ASSUME NEW m \in Lit(mems), device = UpLink[a][m], NEW to \in Leaves,
             to = CircuitEnd(mems, m, a),
             p.path # 0 => to = p.dst,
             p.path = 0 /\ p.late = 0 => \/ FirstHop(mems, q, to) \/ SecondHop(mems, q, to)
                                         \/ LastHop(q, to)
      PROVE  HopTo(mems, q, m, to)
  <2>1. p.late = 0 /\ p.path # 0 => q.seen = {q.at}
    BY <1>4
  <2>2. p.path # 0 => \E x \in Leaves : q.seen \subseteq {x, q.at}
    BY <1>4
  <2>3. q.at \in q.seen /\ q.dst \notin q.seen
    BY <1>2, <1>4
  <2>4. q.age < Night /\ q.age # Night /\ ToChange(mems, m) >= Night - q.age
    BY <1>4, <1>5, Sizes
  <2>. QED  BY <1>4, <1>6, <2>1, <2>2, <2>3, <2>4 DEF HopTo
<1>7. ASSUME NEW n \in Lit(mems), device = UpLink[a][n], p.dst = CircuitEnd(mems, n, a)
      PROVE  PacketWell(mems, q)
  <2>1. p.path = 0 /\ p.late = 0 => LastHop(q, p.dst)
    <3>. SUFFICES ASSUME p.path = 0, p.late = 0
                  PROVE  \E x, y \in Leaves : q.seen \subseteq {x, y, q.at}
      BY <1>4 DEF LastHop
    <3>. QED  BY <1>4 DEF OnItsWay
  <2>2. p.dst \in Leaves
    BY PacketFields
  <2>3. HopTo(mems, q, n, p.dst)
    BY <1>6, <1>7, <2>1, <2>2
  <2>. QED  BY <1>4, <1>5, <2>2, <2>3 DEF PacketWell
<1>8. ASSUME NEW m \in Lit(mems), NEW n \in Lit(mems), m # n, device = UpLink[a][m],
             p.path = 0, NoOneHop(mems, a, p.dst),
             p.dst = CircuitEnd(mems, n, CircuitEnd(mems, m, a))
      PROVE  PacketWell(mems, q)
  <2>. DEFINE to == CircuitEnd(mems, m, a)
  <2>1. to \in Leaves /\ to # a
    BY <1>0, Circuits
  <2>. HIDE DEF to
  <2>2. ASSUME p.late = 0 PROVE FirstHop(mems, q, to) \/ SecondHop(mems, q, to)
    <3>1. ~ \E k \in Lit(mems) : CircuitEnd(mems, k, a) = p.dst
      BY <1>8 DEF NoOneHop
    <3>2. CASE p.seen = {}
      BY <1>4, <1>5, <1>8, <3>2 DEF FirstHop, to
    <3>3. ASSUME NEW x \in Leaves, p.seen = {x}, NoOneHop(mems, x, p.dst),
                 NEW k \in Mems, ~ mems[k].isDay, ToChange(mems, k) >= 1
          PROVE  SecondHop(mems, q, to)
      <4>1. k # n /\ n \in Mems /\ mems[n].isDay
        BY <1>5, <3>3
      <4>2. ToChange(mems, n) >= Stagger
        <5>1. ToChange(mems, k) <= Night /\ ToChange(mems, k) \in Int
          BY <3>3, ScheduleBounds
        <5>2. \/ ToChange(mems, k) >= ToChange(mems, n) + Stagger
              \/ ToChange(mems, n) >= ToChange(mems, k) + Stagger
          BY <4>1, Apart
        <5>3. ToChange(mems, n) \in Int /\ ToChange(mems, n) >= Night
          BY <1>5
        <5>. QED  BY <3>3, <5>1, <5>2, <5>3, Sizes
      <4>3. to # x
        BY <1>8, <3>3 DEF NoOneHop, to
      <4>4. CircuitEnd(mems, n, to) = q.dst /\ q.seen = {x, q.at} /\ to \notin q.seen
        BY <1>4, <1>8, <2>1, <3>3, <4>3 DEF to
      <4>5. ToChange(mems, n) >= Stagger - q.age
        BY <1>4, <1>5, <4>2, Sizes
      <4>. QED  BY <4>1, <4>4, <4>5 DEF SecondHop
    <3>. QED  BY <1>8, <2>2, <3>1, <3>2, <3>3 DEF OnItsWay
  <2>3. HopTo(mems, q, m, to)
    BY <1>6, <1>8, <2>1, <2>2 DEF to
  <2>. QED  BY <1>4, <1>5, <2>1, <2>3 DEF PacketWell
<1>9. PacketWell(mems, q)
  BY <1>2, <1>7, <1>8
<1>. QED  BY <1>2, <1>9 DEF q

LEMMA SendWell ==
    ASSUME ScheduleInv(mems), RouteInv, SendPacket, packet' # None
    PROVE  PacketWell(mems, packet')
<1>1. PICK a \in Sources, dst \in Leaves, path \in Paths :
          packet' = Routed([dst |-> dst, path |-> path, at |-> a, device |-> 0, out |-> None,
                            age |-> 0, seen |-> {}, late |-> 0], a)
  BY DEF SendPacket
<1>. DEFINE p == [dst |-> dst, path |-> path, at |-> a, device |-> 0, out |-> None,
                  age |-> 0, seen |-> {}, late |-> 0]
<1>2. a \in Leaves /\ 0 \in 0 .. Night
  BY OpticalAssumption, Sizes
<1>3. p \in Packet
  BY <1>2 DEF Packet
<1>4. p.seen = {} /\ p.late = 0 /\ packet' = Routed(p, a)
  BY <1>1
<1>. HIDE DEF p
<1>. QED  BY <1>2, <1>3, <1>4, RoutedWell DEF OnItsWay

LEMMA ArriveWell ==
    ASSUME ScheduleInv(mems), RouteInv, packet # None, PacketWell(mems, packet),
           ArriveAtLeaf, packet' # None
    PROVE  PacketWell(mems, packet')
<1>. DEFINE p == packet
            a == packet.out
<1>1. p \in Packet /\ a \in Leaves /\ packet' = Routed(p, a) /\ p.late \in 0 .. 1
      /\ p.age \in 0 .. Night
  BY PacketFields DEF ArriveAtLeaf, PacketWell
<1>2. PICK m \in Mems, to \in Leaves : HopTo(mems, p, m, to)
  BY DEF PacketWell
<1>. HIDE DEF p, a
<1>3. a # p.dst
  BY <1>1, LeafOut DEF Routed
<1>4. a # None /\ a = p.out
  BY DEF ArriveAtLeaf, a, p
<1>5. p.age < Night => a = to
  BY <1>2, <1>4 DEF HopTo
<1>6. p.late = 0 => p.age < Night
  BY <1>1, <1>2, Sizes DEF HopTo
<1>7. p.dst \notin p.seen /\ p.at \in Leaves
  BY <1>1, <1>2, PacketFields DEF HopTo
<1>8. ASSUME p.path # 0
      PROVE  (p.late = 0 => p.seen = {}) /\ \E x \in Leaves : p.seen \subseteq {x}
  <2>1. p.age = Night
    BY <1>1, <1>2, <1>3, <1>5, <1>8, Sizes DEF HopTo
  <2>2. p.late = 1 /\ p.seen = {p.at}
    BY <1>2, <1>8, <2>1 DEF HopTo
  <2>. QED  BY <1>7, <2>2
<1>9. ASSUME p.path = 0, p.late = 0
      PROVE  OnItsWay(p, a)
  <2>1. a = to /\ p.age < Night
    BY <1>5, <1>6, <1>9
  <2>2. CASE FirstHop(mems, p, to)
    <3>1. PICK n \in Mems :
              \/ mems[n].isDay /\ CircuitEnd(mems, n, to) = p.dst
              \/ ~ mems[n].isDay /\ ToChange(mems, n) >= Night - p.age
                 /\ NoOneHop(mems, p.at, p.dst)
      BY <2>2 DEF FirstHop
    <3>2. p.seen = {p.at} /\ p.at \in Leaves
      BY <1>7, <2>2 DEF FirstHop
    <3>3. CASE mems[n].isDay /\ CircuitEnd(mems, n, to) = p.dst
      <4>. n \in Lit(mems)
        BY <3>3 DEF Lit
      <4>. QED  BY <2>1, <3>2, <3>3 DEF OnItsWay
    <3>4. CASE ~ mems[n].isDay /\ ToChange(mems, n) >= Night - p.age
               /\ NoOneHop(mems, p.at, p.dst)
      <4>. ToChange(mems, n) >= 1
        BY <1>1, <2>1, <3>4, ScheduleBounds, Sizes
      <4>. QED  BY <3>2, <3>4 DEF OnItsWay
    <3>. QED  BY <3>1, <3>3, <3>4
  <2>3. CASE SecondHop(mems, p, to)
    BY <1>7, <2>1, <2>3 DEF SecondHop, OnItsWay, Lit
  <2>4. ~ LastHop(p, to)
    BY <1>3, <2>1 DEF LastHop
  <2>. QED  BY <1>2, <1>9, <2>2, <2>3, <2>4 DEF HopTo
<1>. QED  BY <1>1, <1>7, <1>8, <1>9, RoutedWell

(* What the optical switch makes of a device is its circuit.               *)
LEMMA TurnedInto ==
    ASSUME NEW ms \in MemsState, NEW m \in Mems, NEW a \in Leaves
    PROVE  /\ MemsBehind(a, UpLink[a][m]) = m
           /\ LeafBehind(m, GetOutDev(LinkTable(ms, m), DownLink[m][a])) = CircuitEnd(ms, m, a)
<1>1. CircuitEnd(ms, m, a) \in Leaves
  BY Circuits
<1>2. GetOutDev(LinkTable(ms, m), DownLink[m][a]) = CircuitEnd(ms, m, a) + 1
  BY DeviceNumbers DEF GetOutDev, CircuitEnd
<1>. QED  BY <1>1, <1>2, DeviceNumbers

LEMMA TurnWell ==
    ASSUME ScheduleInv(mems), packet # None, PacketWell(mems, packet), SendToDev
    PROVE  PacketWell(mems, packet')
<1>1. PICK m \in Mems, to \in Leaves : HopTo(mems, packet, m, to)
  BY DEF PacketWell
<1>2. packet \in Packet /\ packet.at \in Leaves /\ mems \in MemsState
  BY PacketFields DEF PacketWell, ScheduleInv
<1>3. packet.device = UpLink[packet.at][m] /\ to = CircuitEnd(mems, m, packet.at)
  BY <1>1 DEF HopTo
<1>4. packet' = [packet EXCEPT !.out = to]
  BY <1>2, <1>3, TurnedInto DEF SendToDev
<1>5. packet' \in Packet
  BY <1>2, <1>4 DEF Packet
<1>6. /\ packet'.out = to /\ packet'.dst = packet.dst /\ packet'.path = packet.path
      /\ packet'.at = packet.at /\ packet'.device = packet.device /\ packet'.age = packet.age
      /\ packet'.seen = packet.seen /\ packet'.late = packet.late
  BY <1>2, <1>4 DEF Packet
<1>7. /\ FirstHop(mems, packet, to) => FirstHop(mems, packet', to)
      /\ SecondHop(mems, packet, to) => SecondHop(mems, packet', to)
      /\ LastHop(packet, to) => LastHop(packet', to)
  BY <1>6 DEF FirstHop, SecondHop, LastHop
<1>8. HopTo(mems, packet', m, to)
  BY <1>1, <1>6, <1>7 DEF HopTo
<1>. QED  BY <1>5, <1>8 DEF PacketWell

(* A night falls: a route may go, but not one that a second hop needs.     *)
LEMMA NightWell ==
    ASSUME ScheduleInv(mems), NEW k \in Mems, NightFalls(k),
           NEW p, PacketWell(mems, p)
    PROVE  PacketWell(mems', p)
<1>1. PICK m \in Mems, to \in Leaves : HopTo(mems, p, m, to)
  BY DEF PacketWell
<1>2. p \in Packet /\ p.age \in 0 .. Night /\ p.at \in Leaves /\ mems \in MemsState
  BY PacketFields DEF PacketWell, ScheduleInv
<1>3. /\ ~ mems'[k].isDay /\ ToChange(mems, k) = Night /\ ToChange(mems', k) = Night
      /\ \A n \in Mems : /\ mems'[n].index = mems[n].index
                         /\ ToChange(mems', n) = ToChange(mems, n)
                         /\ n # k => mems'[n] = mems[n]
  BY <1>2, NightChanges
<1>4. \A n \in Mems, a \in Leaves : CircuitEnd(mems', n, a) = CircuitEnd(mems, n, a)
  BY <1>3, SameCircuit
<1>5. NoOneHop(mems, p.at, p.dst) => NoOneHop(mems', p.at, p.dst)
  BY <1>2, <1>3, <1>4 DEF NoOneHop, Lit
<1>6. ASSUME p.age < Night, FirstHop(mems, p, to)
      PROVE  FirstHop(mems', p, to)
  <2>1. PICK n \in Mems :
            \/ /\ mems[n].isDay /\ CircuitEnd(mems, n, to) = p.dst
               /\ NoOneHop(mems, p.at, p.dst) \/ ToChange(mems, n) >= Stagger - p.age
            \/ /\ ~ mems[n].isDay /\ ToChange(mems, n) >= Night - p.age
               /\ NoOneHop(mems, p.at, p.dst)
    BY <1>6 DEF FirstHop
  <2>2. CASE n # k
    BY <1>3, <1>4, <1>5, <1>6, <2>1, <2>2 DEF FirstHop
  <2>3. CASE n = k
    <3>1. NoOneHop(mems, p.at, p.dst)
      BY <1>2, <1>3, <1>6, <2>1, <2>3, Sizes
    <3>2. ToChange(mems', k) >= Night - p.age
      BY <1>2, <1>3, Sizes
    <3>. QED  BY <1>3, <1>5, <1>6, <3>1, <3>2 DEF FirstHop
  <2>. QED  BY <2>2, <2>3
<1>7. ASSUME p.age < Night, SecondHop(mems, p, to)
      PROVE  SecondHop(mems', p, to)
  <2>1. PICK n \in Mems : /\ mems[n].isDay /\ CircuitEnd(mems, n, to) = p.dst
                          /\ ToChange(mems, n) >= Stagger - p.age
    BY <1>7 DEF SecondHop
  <2>2. n # k
    BY <1>2, <1>3, <1>7, <2>1, Sizes
  <2>. QED  BY <1>3, <1>4, <1>7, <2>1, <2>2 DEF SecondHop
<1>8. p.late = 0 => p.age < Night
  BY <1>1, <1>2, Sizes DEF HopTo
<1>9. CircuitEnd(mems', m, p.at) = CircuitEnd(mems, m, p.at) /\ ToChange(mems', m) = ToChange(mems, m)
  BY <1>2, <1>3, <1>4
<1>10. HopTo(mems', p, m, to)
  BY <1>1, <1>6, <1>7, <1>8, <1>9 DEF HopTo
<1>. QED  BY <1>2, <1>10 DEF PacketWell

(* A day breaks: a route may come, but then those of the others will stay. *)
LEMMA DayWell ==
    ASSUME ScheduleInv(mems), NEW k \in Mems, DayBreaks(k),
           NEW p, PacketWell(mems, p)
    PROVE  PacketWell(mems', p)
<1>1. PICK m \in Mems, to \in Leaves : HopTo(mems, p, m, to)
  BY DEF PacketWell
<1>2. p \in Packet /\ p.age \in 0 .. Night /\ p.at \in Leaves /\ mems \in MemsState
  BY PacketFields DEF PacketWell, ScheduleInv
<1>3. /\ mems' \in MemsState /\ ToChange(mems, k) = 0 /\ ~ mems[k].isDay
      /\ \A n \in Mems : n # k => mems'[n] = mems[n] /\ ToChange(mems', n) = ToChange(mems, n)
  BY <1>2, DayChanges
<1>4. \A n \in Mems, a \in Leaves : n # k => CircuitEnd(mems', n, a) = CircuitEnd(mems, n, a)
  BY <1>3, SameCircuit
<1>5. \A n \in Mems : n # k => ToChange(mems, n) >= Stagger
  <2>. SUFFICES ASSUME NEW n \in Mems, n # k PROVE ToChange(mems, n) >= Stagger
    OBVIOUS
  <2>1. ToChange(mems, n) \in Int /\ ToChange(mems, n) >= 0
    BY ScheduleBounds
  <2>2. \/ ToChange(mems, n) >= ToChange(mems, k) + Stagger
        \/ ToChange(mems, k) >= ToChange(mems, n) + Stagger
    BY Apart
  <2>. QED  BY <1>3, <2>1, <2>2, Sizes
<1>6. \A n \in Mems : ToChange(mems, n) \in Int
  BY ScheduleBounds
<1>7. CASE p.age = Night
  <2>. DEFINE new == CircuitEnd(mems', m, p.at)
  <2>1. new \in Leaves
    BY <1>2, <1>3, Circuits
  <2>. HIDE DEF new
  <2>2. HopTo(mems', p, m, new)
    BY <1>1, <1>7, Sizes DEF HopTo, new
  <2>. QED  BY <1>2, <2>1, <2>2 DEF PacketWell
<1>8. CASE p.age < Night
  <2>1. m # k /\ ToChange(mems', m) = ToChange(mems, m)
    <3>1. ToChange(mems, m) >= Night - p.age
      BY <1>1, <1>8 DEF HopTo
    <3>2. m # k
      BY <1>2, <1>3, <1>8, <3>1, Sizes
    <3>. QED  BY <1>3, <3>2
  <2>2. CircuitEnd(mems', m, p.at) = CircuitEnd(mems, m, p.at)
    BY <1>2, <1>4, <2>1
  <2>3. ASSUME FirstHop(mems, p, to)
        PROVE  FirstHop(mems', p, to)
    <3>1. PICK n \in Mems :
              \/ mems[n].isDay /\ CircuitEnd(mems, n, to) = p.dst
              \/ ~ mems[n].isDay /\ ToChange(mems, n) >= Night - p.age
      BY <2>3 DEF FirstHop
    <3>2. n # k
      BY <1>2, <1>3, <1>8, <3>1, Sizes
    <3>3. mems[n].isDay
      <4>1. ToChange(mems, n) >= Stagger
        BY <1>5, <3>2
      <4>2. ~ mems[n].isDay => ToChange(mems, n) <= Night
        BY ScheduleBounds
      <4>. QED  BY <1>6, <4>1, <4>2, Sizes
    <3>4. ToChange(mems', n) >= Stagger - p.age
      BY <1>2, <1>3, <1>5, <1>6, <3>2, Sizes
    <3>5. mems'[n].isDay /\ CircuitEnd(mems', n, to) = p.dst
      BY <1>3, <1>4, <3>1, <3>2, <3>3
    <3>. QED  BY <2>3, <3>4, <3>5 DEF FirstHop
  <2>4. ASSUME SecondHop(mems, p, to)
        PROVE  SecondHop(mems', p, to)
    BY <1>3, <1>4, <2>4 DEF SecondHop
  <2>5. HopTo(mems', p, m, to)
    BY <1>1, <1>8, <2>1, <2>2, <2>3, <2>4, Sizes DEF HopTo
  <2>. QED  BY <1>2, <2>5 DEF PacketWell
<1>. QED  BY <1>2, <1>7, <1>8, Sizes

LEMMA WaitsFields ==
    ASSUME packet # None, packet \in Packet, packet.age # Night,
           packet.age # Night - 1 \/ MayBeLate(packet)
    PROVE  /\ Waits \in Packet /\ Waits.age = packet.age + 1
           /\ Waits.late = IF packet.age + 1 = Night THEN 1 ELSE packet.late
           /\ packet.age + 1 = Night => packet.late = 0
           /\ Waits.dst = packet.dst /\ Waits.path = packet.path /\ Waits.at = packet.at
           /\ Waits.device = packet.device /\ Waits.out = packet.out /\ Waits.seen = packet.seen
<1>. DEFINE age  == packet.age + 1
            late == IF packet.age + 1 = Night THEN packet.late + 1 ELSE packet.late
<1>1. packet.age \in 0 .. Night /\ packet.late \in 0 .. 1
  BY PacketFields
<1>2. packet.age + 1 = Night => packet.late = 0
  BY <1>1, Sizes DEF MayBeLate
<1>3. age \in 0 .. Night /\ late \in 0 .. 1
  BY <1>1, <1>2, Sizes
<1>4. late = IF age = Night THEN 1 ELSE packet.late
  BY <1>2
<1>5. Waits = [packet EXCEPT !.age = age, !.late = late]
  BY DEF Waits
<1>. HIDE DEF age, late
<1>6. Waits \in Packet
  BY <1>3, <1>5 DEF Packet
<1>7. /\ Waits.age = age /\ Waits.late = late
      /\ Waits.dst = packet.dst /\ Waits.path = packet.path /\ Waits.at = packet.at
      /\ Waits.device = packet.device /\ Waits.out = packet.out /\ Waits.seen = packet.seen
  BY <1>5 DEF Packet
<1>. QED  BY <1>2, <1>4, <1>6, <1>7 DEF age

LEMMA TickWell ==
    ASSUME ScheduleInv(mems), packet # None, PacketWell(mems, packet), Tick
    PROVE  PacketWell(mems', packet')
<1>1. PICK m \in Mems, to \in Leaves : HopTo(mems, packet, m, to)
  BY DEF PacketWell
<1>2. packet \in Packet /\ packet.age \in 0 .. Night /\ packet.at \in Leaves /\ mems \in MemsState
  BY PacketFields DEF PacketWell, ScheduleInv
<1>3. \A n \in Mems : /\ mems'[n].index = mems[n].index /\ mems'[n].isDay = mems[n].isDay
                      /\ ToChange(mems', n) = ToChange(mems, n) - 1
                      /\ ToChange(mems, n) \in Int
  BY <1>2, TickChanges, ScheduleBounds
<1>4. \A n \in Mems, a \in Leaves : CircuitEnd(mems', n, a) = CircuitEnd(mems, n, a)
  BY <1>3, SameCircuit
<1>5. NoOneHop(mems, packet.at, packet.dst) => NoOneHop(mems', packet.at, packet.dst)
  BY <1>2, <1>3, <1>4 DEF NoOneHop, Lit
<1>6. packet' = Waits
  BY DEF Tick
<1>7. CASE packet.age = Night
  <2>1. packet' = packet
    BY <1>6, <1>7 DEF Waits
  <2>2. HopTo(mems', packet, m, to)
    BY <1>1, <1>2, <1>4, <1>7, Sizes DEF HopTo
  <2>. QED  BY <1>2, <2>1, <2>2 DEF PacketWell
<1>8. CASE packet.age # Night
  <2>. DEFINE q == packet'
  <2>1. /\ q \in Packet /\ q.age = packet.age + 1
        /\ q.late = IF packet.age + 1 = Night THEN 1 ELSE packet.late
        /\ packet.age + 1 = Night => packet.late = 0
        /\ q.dst = packet.dst /\ q.path = packet.path /\ q.at = packet.at
        /\ q.device = packet.device /\ q.out = packet.out /\ q.seen = packet.seen
    BY <1>2, <1>6, <1>8, WaitsFields DEF Tick
  <2>. HIDE DEF q
  <2>2. packet.age < Night /\ packet.age \in Nat
    BY <1>2, <1>8, Sizes
  <2>3. \A n \in Mems, t \in Int : ToChange(mems, n) >= t - packet.age => ToChange(mems', n) >= t - q.age
    BY <1>3, <2>1, <2>2
  <2>4. FirstHop(mems, packet, to) => FirstHop(mems', q, to)
    BY <1>3, <1>4, <1>5, <2>1, <2>3, Sizes DEF FirstHop, NoOneHop
  <2>5. SecondHop(mems, packet, to) => SecondHop(mems', q, to)
    BY <1>3, <1>4, <2>1, <2>3, Sizes DEF SecondHop
  <2>6. LastHop(packet, to) => LastHop(q, to)
    BY <2>1 DEF LastHop
  <2>7. HopTo(mems', q, m, to)
    <3>1. q.device = UpLink[q.at][m] /\ to = CircuitEnd(mems', m, q.at)
          /\ q.at \in q.seen /\ q.dst \notin q.seen
      BY <1>1, <1>2, <1>4, <2>1 DEF HopTo
    <3>2. q.age < Night => ToChange(mems', m) >= Night - q.age /\ q.out \in {None, to}
      BY <1>1, <2>1, <2>2, <2>3, Sizes DEF HopTo
    <3>3. q.age = Night => q.late = 1
      BY <2>1
    <3>4. q.path # 0 => /\ q.age < Night => to = q.dst
                        /\ q.late = 0 \/ q.age = Night => q.seen = {q.at}
                        /\ \E x \in Leaves : q.seen \subseteq {x, q.at}
      BY <1>1, <2>1, <2>2, Sizes DEF HopTo
    <3>5. q.path = 0 /\ q.late = 0 => \/ FirstHop(mems', q, to) \/ SecondHop(mems', q, to)
                                      \/ LastHop(q, to)
      BY <1>1, <2>1, <2>4, <2>5, <2>6 DEF HopTo
    <3>. QED  BY <3>1, <3>2, <3>3, <3>4, <3>5 DEF HopTo
  <2>. QED  BY <2>1, <2>7 DEF PacketWell, q
<1>. QED  BY <1>7, <1>8

LEMMA OpticalStart == OpticalInit => OpticalInv
BY ScheduleInit, RouteInit DEF OpticalInv, OpticalInit

LEMMA OpticalStep == OpticalInv /\ [OpticalNext]_opticalVars => OpticalInv'
<1>. SUFFICES ASSUME OpticalInv, [OpticalNext]_opticalVars PROVE OpticalInv'
  OBVIOUS
<1>1. ScheduleInv(mems) /\ RouteInv /\ (packet # None => PacketWell(mems, packet))
  BY DEF OpticalInv
<1>2. ScheduleInv(mems') /\ RouteInv'
  BY <1>1, ScheduleNext, RouteNext
<1>. SUFFICES ASSUME packet' # None PROVE PacketWell(mems', packet')
  BY <1>2 DEF OpticalInv
<1>3. ASSUME NEW m \in Mems, NightFalls(m) PROVE PacketWell(mems', packet')
  BY <1>1, <1>3, NightWell DEF NightFalls
<1>4. ASSUME NEW m \in Mems, DayBreaks(m) PROVE PacketWell(mems', packet')
  BY <1>1, <1>4, DayWell DEF DayBreaks
<1>5. CASE SendPacket
  BY <1>1, <1>5, SendWell DEF SendPacket
<1>6. CASE SendToDev
  BY <1>1, <1>6, TurnWell DEF SendToDev
<1>7. CASE ArriveAtLeaf
  BY <1>1, <1>7, ArriveWell DEF ArriveAtLeaf
<1>8. CASE Tick
  <2>1. packet # None
    BY <1>8 DEF Tick, Waits
  <2>. QED  BY <1>1, <1>8, <2>1, TickWell
<1>9. CASE UNCHANGED opticalVars
  BY <1>1, <1>9 DEF opticalVars
<1>. QED  BY <1>3, <1>4, <1>5, <1>6, <1>7, <1>8, <1>9 DEF OpticalNext

-----------------------------------------------------------------------------
(* The inductive invariant of the optical fabric: the schedules stay       *)
(* staggered, the routes are those of the circuits, and a packet on time   *)
(* has a route ahead of it that will last.                                 *)
THEOREM OpticalInvariant == OpticalSpec => []OpticalInv
<1>1. OpticalInit => OpticalInv
  BY OpticalStart
<1>2. OpticalInv /\ [OpticalNext]_opticalVars => OpticalInv'
  BY OpticalStep
<1>. QED  BY <1>1, <1>2, PTL DEF OpticalSpec

(* The schedule of each switch and the packet have their types, so that no *)
(* night overruns and ConfigMems never indexes beyond the matrices.        *)
THEOREM OpticalTypes == OpticalSpec => []OpticalTypeOK
<1>1. OpticalInv => OpticalTypeOK
  BY DEF OpticalInv, ScheduleInv, MemsState, Schedule, PacketWell, OpticalTypeOK
<1>. QED  BY <1>1, OpticalInvariant, PTL

(* The routes that ConfigMems enters and clears in the leaves, in whatever *)
(* order the events of the four switches come, are those of the circuits.  *)
THEOREM OpticalRoutes == OpticalSpec => []RoutesMatchCircuits
<1>1. OpticalInv => RoutesMatchCircuits
  BY RoutesMatch DEF OpticalInv
<1>. QED  BY <1>1, OpticalInvariant, PTL

-----------------------------------------------------------------------------
(* How many leaves a packet comes through.                                 *)

LEMMA CardinalityOfFew ==
    ASSUME NEW S, NEW x, NEW y, NEW z
    PROVE  /\ Cardinality({x}) = 1
           /\ S \subseteq {x, y} => Cardinality(S) <= 2
           /\ S \subseteq {x, y, z} => Cardinality(S) <= 3
<1>1. IsFiniteSet({x}) /\ Cardinality({x}) = 1
  BY FS_Singleton
<1>2. \A T, e : IsFiniteSet(T) =>
          /\ IsFiniteSet(T \cup {e}) /\ Cardinality(T) \in Nat /\ Cardinality(T \cup {e}) \in Nat
          /\ Cardinality(T \cup {e}) <= Cardinality(T) + 1
  <2>. SUFFICES ASSUME NEW T, NEW e, IsFiniteSet(T)
                PROVE  /\ IsFiniteSet(T \cup {e}) /\ Cardinality(T) \in Nat
                       /\ Cardinality(T \cup {e}) \in Nat
                       /\ Cardinality(T \cup {e}) <= Cardinality(T) + 1
    OBVIOUS
  <2>1. /\ IsFiniteSet(T \cup {e})
        /\ Cardinality(T \cup {e}) = IF e \in T THEN Cardinality(T) ELSE Cardinality(T) + 1
    BY FS_AddElement
  <2>2. Cardinality(T) \in Nat /\ Cardinality(T \cup {e}) \in Nat
    BY <2>1, FS_CardinalityType
  <2>. QED  BY <2>1, <2>2
<1>3. /\ IsFiniteSet({x, y}) /\ Cardinality({x, y}) \in Nat /\ Cardinality({x, y}) <= 2
      /\ IsFiniteSet({x, y, z}) /\ Cardinality({x, y, z}) \in Nat /\ Cardinality({x, y, z}) <= 3
  <2>1. {x, y} = {x} \cup {y} /\ {x, y, z} = {x, y} \cup {z}
    OBVIOUS
  <2>2. IsFiniteSet({x} \cup {y}) /\ Cardinality({x} \cup {y}) \in Nat
        /\ Cardinality({x} \cup {y}) <= Cardinality({x}) + 1
    BY <1>1, <1>2
  <2>3. IsFiniteSet({x, y}) /\ Cardinality({x, y}) \in Nat /\ Cardinality({x, y}) <= 2
    BY <1>1, <2>1, <2>2
  <2>4. IsFiniteSet({x, y} \cup {z}) /\ Cardinality({x, y} \cup {z}) \in Nat
        /\ Cardinality({x, y} \cup {z}) <= Cardinality({x, y}) + 1
    BY <1>2, <2>3
  <2>. QED  BY <2>1, <2>3, <2>4
<1>4. \A T : IsFiniteSet(T) /\ S \subseteq T => Cardinality(S) \in Nat /\ Cardinality(S) <= Cardinality(T)
  BY FS_Subset, FS_CardinalityType
<1>5. S \subseteq {x, y} => Cardinality(S) <= 2
  BY <1>3, <1>4
<1>6. S \subseteq {x, y, z} => Cardinality(S) <= 3
  BY <1>3, <1>4
<1>. QED  BY <1>1, <1>5, <1>6

LEMMA HopsFollow == OpticalInv => HopsBounded
<1>. SUFFICES ASSUME OpticalInv, packet # None
              PROVE  /\ IF packet.path = 0 THEN packet.late = 0 => Hops <= 3
                                           ELSE Hops <= 1 + packet.late
                     /\ packet.late = 0 => packet.out \notin packet.seen
  BY DEF HopsBounded
<1>. DEFINE p == packet
<1>1. p \in Packet /\ mems \in MemsState
  BY DEF OpticalInv, PacketWell, ScheduleInv
<1>2. PICK m \in Mems, to \in Leaves : HopTo(mems, p, m, to)
  BY DEF OpticalInv, PacketWell
<1>3. p.at \in Leaves /\ p.seen \in SUBSET Leaves /\ p.late \in 0 .. 1 /\ p.age \in 0 .. Night
  BY <1>1, PacketFields
<1>4. Hops = Cardinality(p.seen)
  BY DEF Hops
<1>. HIDE DEF p
<1>5. ASSUME p.path # 0 PROVE Hops <= 1 + p.late
  <2>1. CASE p.late = 0
    <3>1. p.seen = {p.at}
      BY <1>2, <1>5, <2>1 DEF HopTo
    <3>2. Cardinality({p.at}) = 1
      BY CardinalityOfFew
    <3>. QED  BY <1>4, <2>1, <3>1, <3>2
  <2>2. CASE p.late = 1
    <3>1. PICK x \in Leaves : p.seen \subseteq {x, p.at}
      BY <1>2, <1>5 DEF HopTo
    <3>2. Hops <= 2
      BY <1>4, <3>1, CardinalityOfFew
    <3>. QED  BY <2>2, <3>2
  <2>. QED  BY <1>3, <2>1, <2>2
<1>6. ASSUME p.path = 0, p.late = 0 PROVE Hops <= 3
  <2>1. \E x, y \in Leaves : p.seen \subseteq {x, y, p.at}
    BY <1>2, <1>3, <1>6 DEF HopTo, FirstHop, SecondHop, LastHop
  <2>. QED  BY <1>4, <2>1, CardinalityOfFew
<1>7. ASSUME p.late = 0 PROVE p.out \notin p.seen
  <2>1. p.age < Night /\ p.out \in {None, to}
    BY <1>2, <1>3, <1>7, Sizes DEF HopTo
  <2>2. None \notin p.seen
    BY <1>3, OpticalAssumption, Sizes
  <2>3. to # p.at /\ p.dst \notin p.seen
    BY <1>1, <1>2, <1>3, Circuits DEF HopTo
  <2>4. to \notin p.seen
    BY <1>2, <1>7, <2>1, <2>3 DEF HopTo, FirstHop, SecondHop, LastHop
  <2>. QED  BY <2>1, <2>2, <2>4
<1>. QED  BY <1>5, <1>6, <1>7 DEF p

(* A packet that is on time takes one hop on the one-hop path and at most  *)
(* three on the two-hop path, and comes back to no leaf, for any source,   *)
(* destination and path, whatever nights fall and days break on its way.   *)
THEOREM OpticalHops == OpticalSpec => []HopsBounded
<1>1. OpticalInv => HopsBounded
  BY HopsFollow
<1>. QED  BY <1>1, OpticalInvariant, PTL
=============================================================================
