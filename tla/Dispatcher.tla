----------------------------- MODULE Dispatcher -----------------------------
(***************************************************************************)
(* Which MDS is responsible for a path: the three strategies of             *)
(* services/mds/MetadataDispatcher.cc.  They read the file system every      *)
(* time they are asked, so an answer holds only until the next mutation.    *)
(* Hashing also reads how many MDSs there are; the other two have a table    *)
(* of them, made once.                                                      *)
(***************************************************************************)
EXTENDS Messaging, Inodes, SequencesExt

CONSTANTS
  MaxRanks,   \* how many MDSs register (a bound); that of rank r is process r
  HostOrder,  \* the hosts in the order of their addresses: the keys of lut
  Hash(_)     \* std::hash of a path

Ranks == 0 .. MaxRanks - 1
NoRank == -1
Strategies == {"subtree", "hashing", "hybrid"}

ASSUME MaxRanksAssumption == MaxRanks \in Nat \ {0}
ASSUME HostOrderAssumption ==
  HostOrder \in Seq(Hosts) /\ Hosts = ToSet(HostOrder) /\ Len(HostOrder) = Cardinality(Hosts)

VARIABLES
  size,  \* mds_active_size(): how many ranks the monitor has given out
  lut    \* the ranks of each host that had an MDS when the table was made

\* The ranks the monitor has given out.
Active == 0 .. size - 1

\* build_lut: the ranks that are active, by host.
BuildLut(active) ==
  LET ranksOf(h) == {r \in active : HostOf[r] = h}
      hosts      == InOrder({i \in DOMAIN HostOrder : ranksOf(HostOrder[i]) # {}})
  IN [n \in DOMAIN hosts |-> InOrder(ranksOf(HostOrder[hosts[n]]))]

\* The index of the first entry of that name in its directory.
WhichChild(h, p) ==
  LET dir == Lookup(h, DirName(p))
  IN IF dir = Null THEN NoRank
     ELSE IF GetSub(h, dir, BaseName(p)) = Null THEN NoRank
     ELSE IndexOf(h, dir, GetSub(h, dir, BaseName(p)))

\* Slip: the table is made again for every path.
HostOfChildNow(c) == BuildLut(Active)[(c % Len(BuildLut(Active))) + 1]

\* The ranks of the host a first-level directory with that index goes to.
HostOfChild(c) == lut[(c % Len(lut)) + 1]

\* A path of the first level goes to the first MDS of its host.
DispatchLevel1(h, p) ==
  LET c == WhichChild(h, p)
  IN IF c = NoRank THEN NoRank ELSE HostOfChild(c)[1]

\* What is no directory goes where the nearest directory above it goes.
NearestDir(h, p) ==
  LET dirs == {k \in 0 .. Len(p) : IsDirPath(h, Prefix(p, k))}
  IN Prefix(p, CHOOSE k \in dirs : \A l \in dirs : l <= k)

\* Everything below a second-level directory goes where that directory goes.
SubtreeDispatch(h, p) ==
  LET d  == NearestDir(h, p)
      v  == SplitPath(d)
      c1 == WhichChild(h, Prefix(v, 1))
      c2 == WhichChild(h, Prefix(v, 2))
  IN IF v = <<>> THEN 0
     ELSE IF Len(v) = 1 THEN DispatchLevel1(h, d)
     ELSE IF c1 = NoRank \/ c2 = NoRank THEN NoRank
     ELSE HostOfChild(c1)[(c2 % Len(HostOfChild(c1))) + 1]

HashingDispatch(p) == Hash(p) % size

\* Below the first level a path goes to its directory's host, hashed there.
HybridDispatch(h, p) ==
  LET v  == SplitPath(p)
      c1 == WhichChild(h, Prefix(v, 1))
  IN IF v = <<>> THEN 0
     ELSE IF Len(v) = 1 THEN DispatchLevel1(h, p)
     ELSE IF c1 = NoRank THEN NoRank
     ELSE HostOfChild(c1)[(Hash(p) % Len(HostOfChild(c1))) + 1]

\* global_get_dispatcher_from_conf()->dispatch(path).
RankOf(strategy, h, p) ==
  CASE strategy = "subtree" -> SubtreeDispatch(h, p)
    [] strategy = "hashing" -> HashingDispatch(p)
    [] strategy = "hybrid"  -> HybridDispatch(h, p)
=============================================================================
