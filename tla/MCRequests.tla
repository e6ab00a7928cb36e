----------------------------- MODULE MCRequests -----------------------------
(***************************************************************************)
(* Requests on three MDSs, ranks 0 and 1 on one host and 2 on another, which *)
(* the client shares; or on two that become three.  Two names; paths of up   *)
(* to two levels.                                                           *)
(***************************************************************************)
EXTENDS Requests

CONSTANTS h1, h2, cl

MCHostOf == [p \in {0, 1, 2, cl} |-> IF p \in {0, 1} THEN h1 ELSE h2]

\* The third MDS registers late, on the host of the first.
MCGrowingHostOf == [p \in {0, 1, 2, cl} |-> IF p \in {0, 2} THEN h1 ELSE h2]

MCHostOrder == <<h1, h2>>

Code(n) == CASE n = "" -> 1 [] n = "a" -> 1 [] n = "b" -> 2 [] OTHER -> 3

MCHash(p) ==
  LET sum[k \in 0 .. Len(p)] == IF k = 0 THEN 0 ELSE sum[k - 1] + k * Code(p[k])
  IN sum[Len(p)]

Call(op, p, d) == [op |-> op, path |-> p, data |-> d]
CallsOf(ops, paths) ==
  {Call(op, p, IF op = "write" THEN "x" ELSE "") : op \in ops, p \in paths}

A == <<"a">>
B == <<"b">>
AA == <<"a", "a">>
AB == <<"a", "b">>

\* Without a cache: two directories, whose owners move when one of them is
\* removed, and a directory with two entries of different owners.
MCCalls ==
  CallsOf({"mkdir"}, {A, B}) \cup CallsOf({"mknod"}, {AA, AB}) \cup CallsOf({"write"}, {AB})
    \cup CallsOf({"rm"}, {A, AA}) \cup CallsOf({"rmdir"}, {RootPath, B, A, AB})
    \cup CallsOf({"lsdir"}, {RootPath, A, AA}) \cup CallsOf({"read"}, {AB})
    \cup CallsOf({"exist"}, {AA}) \cup CallsOf({"is_file", "is_dir"}, {A, AB})

\* With a cache: the same, and a directory below a directory, whose inode
\* outlives it.
MCCachedCalls ==
  CallsOf({"mkdir"}, {A, AB}) \cup CallsOf({"mknod"}, {B, AB}) \cup CallsOf({"write"}, {AB})
    \cup CallsOf({"rm"}, {A, B}) \cup CallsOf({"rmdir"}, {A})
    \cup CallsOf({"lsdir"}, {RootPath, AB}) \cup CallsOf({"read", "is_dir"}, {B, AB})

\* With a cache, and a driver that avoids what it has cached and removed.
MCFreshCalls ==
  CallsOf({"mkdir"}, {A, AB}) \cup CallsOf({"mknod"}, {B, AB}) \cup CallsOf({"write"}, {AB})
    \cup CallsOf({"rm"}, {A, B}) \cup CallsOf({"rmdir"}, {A})
    \cup CallsOf({"lsdir"}, {RootPath, A}) \cup CallsOf({"read", "exist", "is_file"}, {B, AB})

\* In a cluster that grows: a directory with entries of different owners, of
\* which one moves to the new MDS, and what goes through several MDSs.
MCGrowingCalls ==
  CallsOf({"mkdir"}, {A, B, AB}) \cup CallsOf({"rmdir"}, {A}) \cup CallsOf({"lsdir"}, {A, AB})
=============================================================================
