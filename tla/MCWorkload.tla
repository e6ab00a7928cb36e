----------------------------- MODULE MCWorkload -----------------------------
(***************************************************************************)
(* The driver with three directories of two files, and three MDSs on two    *)
(* hosts.  The first directory is another MDS's than the root, and the cache *)
(* too small to keep the last one until its files are made.                 *)
(***************************************************************************)
EXTENDS Workload

CONSTANTS h1, h2, cl

MCHostOf == [p \in {0, 1, 2, cl} |-> IF p \in {0, 1} THEN h1 ELSE h2]
MCHostOrder == <<h2, h1>>

\* A sum of the names, each with its weight.
Code(n) == CASE n = "0" -> 1 [] n = "1" -> 2 [] OTHER -> 4
MCHash(p) == FoldLeft(LAMBDA sum, n : 2 * sum + Code(n), 0, p)
=============================================================================
