--------------------------- MODULE MCNicScheduler ---------------------------
(* A small instance of NicScheduler: three flows in two priority groups,   *)
(* under DCQCN without windows and under HPCC with them.                   *)
EXTENDS NicScheduler

FlowPg   == <<3, 3, 2>>
FlowSize == <<2, 1, 1>>
FlowWin  == <<1, 1, 1>>
FlowGaps == <<{1, 2}, {1}, {1}>>

Dcqcn(late) == [windows |-> FALSE, shifts |-> FALSE, lateNacks |-> late]
Hpcc(late)  == [windows |-> TRUE, shifts |-> TRUE, lateNacks |-> late]
SettingSet  == {Dcqcn(TRUE), Dcqcn(FALSE), Hpcc(TRUE), Hpcc(FALSE)}
=============================================================================
