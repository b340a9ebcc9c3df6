---------------------------- MODULE MCSwitchMmu ----------------------------
(* Small instances of SwitchMmu: byte counts are scaled down so that the   *)
(* reserve, the shared pool, both thresholds and the headroom are all      *)
(* reached within a few packets.                                           *)
EXTENDS SwitchMmu

MCHeadroom == [p \in Ports |-> 2]
MCShift == [p \in Ports |-> IF p = 1 THEN 1 ELSE 0]
=============================================================================
