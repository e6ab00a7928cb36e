------------------------------- MODULE Paths -------------------------------
(***************************************************************************)
(* Absolute paths (common/util.cc).  A path is the sequence of what stands  *)
(* between its slashes: <<>> is "/", <<"a", "b">> is "/a/b".  The empty     *)
(* name stands between two adjacent slashes, and only in front: the handlers *)
(* of the MDS form the path of an entry as fullpath + "/" + name, which for *)
(* an entry of the root gives "//a", here <<"", "a">>: the same file as     *)
(* "/a", but another string, so another hash.  No path here has ".", ".."   *)
(* or a last slash: the client never forms one from names that have none.   *)
(***************************************************************************)
EXTENDS Integers, Sequences, FiniteSets

RootPath == <<>>

\* The members of a finite set of integers, the least one first.
InOrder(S) ==
  CHOOSE s \in [1 .. Cardinality(S) -> S] :
    \A i, j \in DOMAIN s : i < j => s[i] < s[j]

\* split_path: the names, without the empty one in front, which strtok skips.
SplitPath(p) ==
  IF p # RootPath /\ p[1] = "" THEN Tail(p) ELSE p

\* dirname: what stands before the last slash; nothing, or one slash, is "/".
DirName(p) ==
  LET front == SubSeq(p, 1, Len(p) - 1)
  IN IF front = <<"">> THEN RootPath ELSE front

\* basename: what stands behind the last slash.
BaseName(p) == IF p = RootPath THEN "" ELSE p[Len(p)]

\* fullpath + "/" + name.
Join(p, n) == IF p = RootPath THEN <<"", n>> ELSE Append(p, n)

\* The first k names of a path: its substring up to slash k + 1.
Prefix(p, k) == SubSeq(p, 1, k)

\* The directories ClientProcess::lookup visits: "/", every prefix that ends
\* before a slash, and the path; for "/" itself, "/" twice.
Visited(p) ==
  IF p = RootPath THEN <<RootPath, RootPath>>
  ELSE [k \in 1 .. Len(p) + 1 |-> Prefix(p, k - 1)]
=============================================================================
