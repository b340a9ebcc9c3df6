-------------------------------- MODULE Sums --------------------------------
(***************************************************************************)
(* Sums of integer functions over an initial segment of the positive       *)
(* integers.  The simulator numbers the devices of a node and the queues   *)
(* of a device from 1, so the bytes a switch holds are such sums.          *)
(***************************************************************************)
EXTENDS Integers

(* The partial sums of f: PartialSums(f, n)[i] = f[1] + ... + f[i].        *)
PartialSums(f, n) ==
    LET s[i \in 0 .. n] == IF i = 0 THEN 0 ELSE s[i - 1] + f[i]
    IN  s

(* f[1] + ... + f[n]                                                       *)
SumTo(f, n) == PartialSums(f, n)[n]

(* The sum of the entries of a table t of rows 1..m and columns 1..n.      *)
SumTable(t, m, n) == SumTo([i \in 1 .. m |-> SumTo(t[i], n)], m)
=============================================================================
