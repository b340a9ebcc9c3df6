----------------------------- MODULE SpineLeaf -----------------------------
(***************************************************************************)
(* The topology that spine_leaf.py writes and the simulator builds: hosts, *)
(* optical spines (MemsNode), electric spines and leaves, numbered in this *)
(* order.  A node's devices are numbered from 1 in the order in which the  *)
(* links are listed; device 0 is the loopback device.                      *)
(***************************************************************************)
EXTENDS Integers, SequencesExt

optical_spine_num  == 4
electric_spine_num == optical_spine_num
spine_num          == optical_spine_num + electric_spine_num
leaf_num           == spine_num * 2
per_leaf_host_num  == spine_num \div 2
host_num           == leaf_num * per_leaf_host_num

Mems   == 0 .. optical_spine_num - 1
Spines == 0 .. electric_spine_num - 1
Leaves == 0 .. leaf_num - 1

MemsId(os)  == host_num + os
SpineId(es) == host_num + optical_spine_num + es
LeafId(l)   == host_num + spine_num + l

(* All links of a spine, or of a leaf's hosts, one after the other.        *)
LinksOf(id)  == [k \in 1 .. leaf_num |-> <<id, LeafId(k - 1)>>]
HostLinks(l) == [h \in 1 .. per_leaf_host_num |-> <<LeafId(l), l * per_leaf_host_num + h - 1>>]
Hosted       == FlattenSeq([k \in 1 .. leaf_num |-> HostLinks(k - 1)])
Electric     == FlattenSeq([k \in 1 .. electric_spine_num |-> LinksOf(SpineId(k - 1))])
Optical      == FlattenSeq([k \in 1 .. optical_spine_num |-> LinksOf(MemsId(k - 1))])

Links == Optical \o Electric \o Hosted

Devices(n) == SelectSeq(Links, LAMBDA link : n \in {link[1], link[2]})

MemsDevices == [m \in Mems |-> Devices(MemsId(m))]
LeafDevices == [l \in Leaves |-> Devices(LeafId(l))]

(* nbr2if[a][mems].idx, and the other ends of a leaf's and a MEMS's device.*)
UpLink == [l \in Leaves |-> [m \in Mems |->
              CHOOSE i \in DOMAIN LeafDevices[l] : LeafDevices[l][i] = <<MemsId(m), LeafId(l)>>]]
DownLink == [m \in Mems |-> [l \in Leaves |->
              CHOOSE i \in DOMAIN MemsDevices[m] : MemsDevices[m][i] = <<MemsId(m), LeafId(l)>>]]
LeafBehind(m, device) == MemsDevices[m][device][2] - LeafId(0)
MemsBehind(l, device) == LeafDevices[l][device][1] - MemsId(0)
IsOptical(l, device)  == LeafDevices[l][device][1] \in {MemsId(m) : m \in Mems}

(* What the order of the lines makes of the numbers: the first devices of  *)
(* a leaf lead to the MEMS, those of a MEMS to the leaves, in their order. *)
ASSUME DeviceNumbers ==
    \A l \in Leaves, m \in Mems :
        /\ UpLink[l][m] = m + 1 /\ MemsBehind(l, m + 1) = m
        /\ DownLink[m][l] = l + 1 /\ LeafBehind(m, l + 1) = l
=============================================================================
