-------------------------- MODULE MCOpticalFabric --------------------------
(* The program's own schedule, and one packet from some of the leaves,     *)
(* which may be late once on the one-hop path to a few of them.            *)
EXTENDS OpticalFabric

MCLate == {10} \X {1, 7, 10}
=============================================================================
