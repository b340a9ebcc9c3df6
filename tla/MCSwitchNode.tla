---------------------------- MODULE MCSwitchNode ----------------------------
(* Small instances of SwitchNode, with a buffer that a handful of packets  *)
(* fills: every other device feeds the last one, and in Leaf the last one  *)
(* feeds the first, an optical device.                                     *)
EXTENDS SwitchNode

MCHeadroom == [p \in Ports |-> 1]
MCShift == [p \in Ports |-> 0]
FanIn == {<<p, NumPorts>> : p \in 1 .. NumPorts - 1}
Leaf == FanIn \cup {<<NumPorts, 1>>}
=============================================================================
