---------------------------- MODULE MCPfcFabric ----------------------------
(* Small instances of PfcFabric: two stations send to each other, the      *)
(* first on two lossless queues, and the second may pause the switch; two  *)
(* stations send to a third one.                                           *)
EXTENDS PfcFabric

MCHeadroom == [p \in Ports |-> 1]
MCShift == [p \in Ports |-> 0]

BothWays == {<<1, 2>>, <<2, 1>>}
TwoAndOne == {<<1, 1>>, <<1, 2>>, <<2, 1>>}

FanIn == {<<p, NumPorts>> : p \in 1 .. NumPorts - 1}
OneEach == {<<p, 1>> : p \in 1 .. NumPorts - 1}
=============================================================================
