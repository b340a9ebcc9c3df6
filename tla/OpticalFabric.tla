--------------------------- MODULE OpticalFabric ---------------------------
(***************************************************************************)
(* The four optical circuit switches (MemsNode), their day-and-night       *)
(* schedule (ConfigMems), the optical routes it sets in the leaf switches, *)
(* and one packet on its way between two leaves.  The schedule is the      *)
(* program's own, at full size; time is counted in units of 10 us.  A      *)
(* packet that takes the electric spines is delivered: they do not change. *)
(***************************************************************************)
EXTENDS SpineLeaf, FiniteSetsExt

CONSTANTS
    MpMode,         \* mp_mode: are two-hop optical routes computed
    Paths,          \* PathIdTag values: 0 and 1 in multipath mode, else 10
    Sources,        \* bound: the leaves the packet may start from
    Late,           \* bound: the <<path, destination>> of packets that are late once
    None

ASSUME OpticalAssumption ==
    /\ MpMode \in BOOLEAN /\ Paths \subseteq {0, 1, 10}
    /\ Sources \subseteq Leaves /\ Late \subseteq Paths \X Leaves
    /\ None \notin Nat

(* MATRIX_1 to MATRIX_15: the leaf that each leaf is connected with.       *)
LinkMatrix == <<
    << 1,  0, 12, 13,  7,  8,  9,  4,  5,  6, 11, 10,  2,  3, 15, 14>>,
    << 2, 11,  0,  6, 13,  7,  3,  5, 15, 14, 12,  1, 10,  4,  9,  8>>,
    << 3,  6,  7,  0, 14, 10,  1,  2, 11, 15,  5,  8, 13, 12,  4,  9>>,
    << 4,  8,  5, 12,  0,  2, 13,  9,  1,  7, 15, 14,  3,  6, 11, 10>>,
    << 5, 14, 10,  9, 11,  0, 15, 12, 13,  3,  2,  4,  7,  8,  1,  6>>,
    << 6,  3,  4,  1,  2, 12,  0, 15, 14, 10,  9, 13,  5, 11,  8,  7>>,
    << 7,  5,  8, 10,  6,  1,  4,  0,  2, 11,  3,  9, 15, 14, 13, 12>>,
    << 8, 12, 13, 15,  9, 14, 11, 10,  0,  4,  7,  6,  1,  2,  5,  3>>,
    << 9, 15, 14, 11, 12, 13,  7,  6, 10,  0,  8,  3,  4,  5,  2,  1>>,
    <<10,  4,  9,  8,  1, 15, 14, 13,  3,  2,  0, 12, 11,  7,  6,  5>>,
    <<11, 13, 15, 14, 10,  6,  5,  8,  7, 12,  4,  0,  9,  1,  3,  2>>,
    <<12,  2,  1,  7, 15, 11,  8,  3,  6, 13, 14,  5,  0,  9, 10,  4>>,
    <<13, 10,  3,  2,  5,  4, 12, 14,  9,  8,  1, 15,  6,  0,  7, 11>>,
    <<14,  7, 11,  4,  3,  9, 10,  1, 12,  5,  6,  2,  8, 15,  0, 13>>,
    <<15,  9,  6,  5,  8,  3,  2, 11,  4,  1, 13,  7, 14, 10, 12,  0>> >>

PeriodAsDay == 20                                                     \* (mutant)
Day     == 18
Night   == 2
Stagger == 5

VARIABLES
    mems,       \* mems[m]: m_linkIndex, m_isDay and the time to its ConfigMems event
    optical,    \* optical[a]: m_rtOpticalTable of leaf a, by the leaf of the destination
    multi,      \* multi[a]: m_rtMpOpticalTable
    packet      \* the packet under way, or None

opticalVars == <<mems, optical, multi, packet>>

(* at: the last leaf, and the device of it that the packet was queued at;  *)
(* age: the time since then; out: the leaf it will come out at, once it    *)
(* has left that device.  seen (history): the leaves it has come through;  *)
(* late (history): on how many hops it took longer than a night.           *)
Packet == [dst : Leaves, path : Paths, at : Leaves, device : Nat, out : Leaves \cup {None},
           age : 0 .. Night, seen : SUBSET Leaves, late : 0 .. 1]

(* The schedule of each switch and the packet have their types.           *)
OpticalTypeOK ==
    /\ mems \in [Mems -> [index : 0 .. 14, isDay : BOOLEAN, timer : 0 .. 33]]
    /\ packet = None \/ packet \in Packet

-----------------------------------------------------------------------------
(* MemsNode.  Devices are numbered from 1, as a sequence is; m_linkTable   *)
(* and the leaves it holds from 0.  ms: the state of the switches.         *)

LinkTable(ms, m)        == LinkMatrix[ms[m].index + 1]
GetOutDev(table, indev) == table[indev] + 1

ReconfigureByThree(index) == (index + 3) % 15                         \* (mutant)
Reconfiguration(index)  == (index + 4) % 15

-----------------------------------------------------------------------------
(* Routes.                                                                 *)

CircuitEnd(ms, m, a) == LinkTable(ms, m)[a + 1]

AddOpticalTableEntry(table, dst, interface) ==
    [d \in DOMAIN table \cup {dst} |-> IF d = dst THEN interface ELSE table[d]]

ClearOpticalTableEntry(table, dst) == Restrict(table, DOMAIN table \ {dst})

CalculateOpticalRoute(routes, ms, m) ==
    [a \in Leaves |-> AddOpticalTableEntry(routes[a], CircuitEnd(ms, m, a), UpLink[a][m])]

ClearOpticalRoute(routes, ms, m) ==
    [a \in Leaves |-> ClearOpticalTableEntry(routes[a], CircuitEnd(ms, m, a))]

(* The circuits that leaf a reaches a leaf over: of one switch, by day,    *)
(* and on over one of another.  The last route entered is the one kept.    *)
NoRoutes == [a \in Leaves |-> << >>]

Beyond(ms, m, a) ==
    {CircuitEnd(ms, n, CircuitEnd(ms, m, a)) : n \in {n \in Mems \ {m} : ms[n].isDay}}

CalculateMpOpticalRoute(ms) ==
    LET lit == {m \in Mems : ms[m].isDay}
    IN  [a \in Leaves |-> [c \in UNION {Beyond(ms, m, a) : m \in lit} |->
            UpLink[a][Max({m \in lit : c \in Beyond(ms, m, a)})]]]

-----------------------------------------------------------------------------
(* The schedule.                                                           *)

(* (mutant) The two-hop routes are computed when no switch has its night.  *)
MpRoutesByDay(old, ms) ==
    IF MpMode /\ \A m \in Mems : ms[m].isDay THEN CalculateMpOpticalRoute(ms) ELSE old

MpRoutes(old, ms) == IF MpMode THEN CalculateMpOpticalRoute(ms) ELSE old

NightFalls(m) ==
    /\ mems[m].timer = 0 /\ mems[m].isDay
    /\ mems' = [mems EXCEPT ![m].isDay = FALSE, ![m].timer = Night]
    /\ optical' = ClearOpticalRoute(optical, mems, m)
    /\ multi' = MpRoutes(multi, mems')
    /\ UNCHANGED packet

DayBreaks(m) ==
    /\ mems[m].timer = 0 /\ ~ mems[m].isDay
    /\ mems' = [mems EXCEPT ![m].isDay = TRUE, ![m].index = Reconfiguration(@), ![m].timer = Day]
    /\ optical' = CalculateOpticalRoute(optical, mems', m)
    /\ multi' = MpRoutes(multi, mems')
    /\ UNCHANGED packet

(* InitMemsConfig: the switches enter their routes one after the other.    *)
Entered(ms) ==
    LET entered[k \in 0 .. optical_spine_num] ==
            IF k = 0 THEN NoRoutes ELSE CalculateOpticalRoute(entered[k - 1], ms, k - 1)
    IN  entered[optical_spine_num]

OpticalInit ==
    /\ mems = [m \in Mems |-> [index |-> m, isDay |-> TRUE, timer |-> Day + m * Stagger]]
    /\ optical = Entered(mems)
    /\ multi = MpRoutes(NoRoutes, mems)
    /\ packet = None

-----------------------------------------------------------------------------
(* The packet.                                                             *)

(* The test of SendToDevContinue by which a packet gets queue 0.           *)
IsUrgent(device) == device <= 4

(* On a leaf that test tells the optical devices from the others, which    *)
(* the order of the links in the topology file has to make true.           *)
ASSUME OpticalIsUrgent ==
    \A a \in Leaves : \A device \in DOMAIN LeafDevices[a] :
        IsUrgent(device) <=> IsOptical(a, device)

(* SwitchNode::GetOutDev; None for the electric routes, which lead out of  *)
(* the fabric, to the host or over an electric spine.                      *)
GetLeafOutDev(a, dst, path) ==
    CASE path # 1 /\ dst \in DOMAIN optical[a] -> optical[a][dst]
      [] path = 0 /\ dst \in DOMAIN multi[a] \ DOMAIN optical[a] -> multi[a][dst]
      [] OTHER -> None

(* A packet at leaf a: it is queued at a device that leads to an optical   *)
(* switch, or is as good as delivered.                                     *)
Routed(p, a) ==
    LET device == GetLeafOutDev(a, p.dst, p.path)
    IN  IF device = None THEN None
        ELSE [p EXCEPT !.at = a, !.device = device, !.out = None, !.age = 0, !.seen = @ \cup {a}]

SendPacket ==
    /\ packet = None
    /\ \E a \in Sources, dst \in Leaves, path \in Paths :
          packet' = Routed([dst |-> dst, path |-> path, at |-> a, device |-> 0, out |-> None,
                            age |-> 0, seen |-> {}, late |-> 0], a)
    /\ UNCHANGED <<mems, optical, multi>>

(* The packet leaves the leaf's device: the optical switch turns it into   *)
(* another of its devices as its table is now, by night as well.           *)
SendToDev ==
    /\ packet # None /\ packet.out = None
    /\ LET m == MemsBehind(packet.at, packet.device)
       IN  packet' = [packet EXCEPT !.out =
               LeafBehind(m, GetOutDev(LinkTable(mems, m), DownLink[m][packet.at]))]
    /\ UNCHANGED <<mems, optical, multi>>

ArriveAtLeaf ==
    /\ packet # None /\ packet.out # None
    /\ packet' = Routed(packet, packet.out)
    /\ UNCHANGED <<mems, optical, multi>>

(* Time passes between events.  A hop takes less than a night, but for the *)
(* hops on which the packet is late.                                       *)
Waits ==
    IF packet = None THEN None
    ELSE IF packet.age = Night THEN packet
    ELSE [packet EXCEPT !.age = @ + 1, !.late = IF packet.age + 1 = Night THEN @ + 1 ELSE @]

MayBeLate(p) == p.late = 0 /\ <<p.path, p.dst>> \in Late

Tick ==
    /\ \A m \in Mems : mems[m].timer > 0
    /\ packet # None => packet.age # Night - 1 \/ MayBeLate(packet)
    /\ mems' = [m \in Mems |-> [mems[m] EXCEPT !.timer = @ - 1]]
    /\ packet' = Waits
    /\ UNCHANGED <<optical, multi>>

OpticalNext ==
    \/ \E m \in Mems : NightFalls(m) \/ DayBreaks(m)
    \/ SendPacket \/ SendToDev \/ ArriveAtLeaf \/ Tick

OpticalSpec == OpticalInit /\ [][OpticalNext]_opticalVars

-----------------------------------------------------------------------------
(* A leaf routes to another over an optical switch exactly when it is this *)
(* switch's day and its circuit joins the two: no switch's clearing or     *)
(* setting of routes touches another's, because no two ever hold the same  *)
(* circuit, at whatever phases of the schedule they are.                   *)
OneHopRoutes ==
    \A a \in Leaves :
        LET lit == {m \in Mems : mems[m].isDay}
        IN  /\ DOMAIN optical[a] = {CircuitEnd(mems, m, a) : m \in lit}
            /\ \A m \in lit : optical[a][CircuitEnd(mems, m, a)] = UpLink[a][m]

(* A two-hop route leads over the leaf's own circuit to a leaf that has a  *)
(* one-hop route to the destination at that moment, and never to the leaf  *)
(* itself.                                                                 *)
TwoHopRoutes ==
    \A a \in Leaves, m \in Mems :
        LET over == {c \in DOMAIN multi[a] : multi[a][c] = UpLink[a][m]}
        IN  over # {} => /\ mems[m].isDay
                         /\ over \subseteq DOMAIN optical[CircuitEnd(mems, m, a)] \ {a}

(* The optical routes of all leaves are those of the circuits of the       *)
(* switches that have their day, whatever the order in which the switches  *)
(* enter and clear them: OneHopRoutes and TwoHopRoutes.                    *)
RoutesMatchCircuits == OneHopRoutes /\ TwoHopRoutes

(* The night is what guards a hop: a packet that leaves its device within  *)
(* a night of being routed comes out where its route pointed, although the *)
(* route may have been cleared since.  So a packet of the one-hop path     *)
(* takes one hop, and one more for each time it was late; on the two-hop   *)
(* path, where the second route may go between the hops, it takes three.   *)
(* Nor does a packet that is on time come back to a leaf it has been at,   *)
(* whatever nights fall and days break on its way.                         *)
Hops == Cardinality(packet.seen)
HopsBounded ==
    packet # None =>
        /\ IF packet.path = 0 THEN packet.late = 0 => Hops <= 3 ELSE Hops <= 1 + packet.late
        /\ packet.late = 0 => packet.out \notin packet.seen
=============================================================================
