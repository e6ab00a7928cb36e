---------------------------- MODULE Inodes_proofs ----------------------------
(***************************************************************************)
(* The operators on a heap of inodes, for every heap: what keeps its shape, *)
(* that no entry of an inode that is alive is a deleted one, that a look-up *)
(* therefore ends at an inode that may be followed and deleted, what path   *)
(* an inode has, and what a removal cuts off.                               *)
(***************************************************************************)
EXTENDS Inodes, FiniteSetTheorems, FunctionTheorems, SequenceTheorems, WellFoundedInduction, TLAPS

\* A set of natural numbers that is not empty has a least member.
LEMMA FirstExists ==
  ASSUME NEW S \in SUBSET Nat, S # {}
  PROVE  First(S) \in S /\ \A j \in S : First(S) <= j
<1> DEFINE less == {p \in Nat \X Nat : p[1] < p[2]}
<1>1. less = OpToRel(<, Nat)
  BY Zenon DEF OpToRel
<1>2. IsWellFoundedOn(less, Nat)
  BY <1>1, NatLessThanWellFounded
<1>3. PICK x \in S : \A y \in S : <<y, x>> \notin less
  BY <1>2, WFMin
<1>4. ASSUME NEW y \in S PROVE x <= y
  <2>1. x \in Nat /\ y \in Nat
    OBVIOUS
  <2>2. y < x => <<y, x>> \in less
    BY <2>1
  <2> HIDE DEF less
  <2> QED
    BY <1>3, <2>1, <2>2
<1> QED
  BY <1>4 DEF First

\* A function from 1 .. n is a sequence of that length.
LEMMA HasLength ==
  ASSUME NEW n \in Nat, NEW S, NEW f \in [1 .. n -> S]
  PROVE  f \in Seq(S) /\ Len(f) = n
<1>1. f \in Seq(S)
  BY IsASeq
<1>2. Len(f) \in Nat /\ DOMAIN f = 1 .. Len(f) /\ DOMAIN f = 1 .. n
  BY <1>1, LenProperties
<1>3. Len(f) \in 1 .. Len(f) \/ Len(f) = 0
  BY <1>2
<1>4. n \in 1 .. n \/ n = 0
  OBVIOUS
<1> QED
  BY <1>1, <1>2, <1>3, <1>4

\* There is a function that starts with x0 and goes on by next.
Recurses(n, X, x0, next) ==
  \E f \in [0 .. n -> X] : f[0] = x0 /\ \A k \in 1 .. n : f[k] = next[k][f[k - 1]]

\* A definition by recursion has a function: of the longest that exist, the
\* next value makes a longer one.
LEMMA RecursionExists ==
  ASSUME NEW n \in Nat, NEW X, NEW x0 \in X, NEW next \in [1 .. n -> [X -> X]]
  PROVE  Recurses(n, X, x0, next)
<1> DEFINE Good(f, m) == /\ f \in [0 .. m -> X] /\ f[0] = x0
                         /\ \A k \in 1 .. m : f[k] = next[k][f[k - 1]]
           bad == {m \in 0 .. n : ~\E f : Good(f, m)}
<1>1. bad = {}
  <2> SUFFICES ASSUME bad # {} PROVE FALSE
    OBVIOUS
  <2> DEFINE m == First(bad)
  <2> HIDE DEF Good
  <2>0. bad \in SUBSET Nat
    OBVIOUS
  <2>1. m \in bad /\ \A j \in bad : m <= j
    <3> HIDE DEF bad
    <3> QED
      BY <2>0, FirstExists
  <2> HIDE DEF m
  <2>2. m # 0
    <3>1. Good([k \in {0} |-> x0], 0)
      BY DEF Good
    <3> QED
      BY <2>1, <3>1
  <2>3. m - 1 \in 0 .. n /\ m - 1 \notin bad /\ m \in 1 .. n
    <3>1. m \in 0 .. n
      BY <2>1
    <3>2. m - 1 < m /\ m - 1 \in 0 .. n /\ m \in 1 .. n
      BY <2>2, <3>1
    <3>3. \A j \in bad : m <= j
      BY <2>1
    <3> HIDE DEF bad
    <3>4. m - 1 \notin bad
      BY <3>1, <3>2, <3>3
    <3> QED
      BY <3>2, <3>4
  <2>4. PICK f : Good(f, m - 1)
    BY <2>3
  <2> USE DEF Good
  <2> DEFINE g == [k \in 0 .. m |-> IF k = m THEN next[m][f[m - 1]] ELSE f[k]]
  <2>5. f[m - 1] \in X /\ next[m][f[m - 1]] \in X
    BY <2>3, <2>4
  <2>6. Good(g, m)
    <3>1. g \in [0 .. m -> X]
      BY <2>3, <2>4, <2>5
    <3>2. \A k \in 0 .. m - 1 : g[k] = f[k]
      BY <2>3
    <3>3. g[m] = next[m][g[m - 1]]
      <4>1. m - 1 \in 0 .. m - 1 /\ m \in 0 .. m
        BY <2>3
      <4>2. g[m - 1] = f[m - 1]
        BY <3>2, <4>1
      <4>3. g[m] = next[m][f[m - 1]]
        BY <4>1
      <4> QED
        BY <4>2, <4>3
    <3>4. \A k \in 1 .. m - 1 : g[k] = next[k][g[k - 1]]
      BY <2>3, <2>4, <3>2
    <3>5. g[0] = x0
      BY <2>3, <2>4, <3>2
    <3>6. \A k \in 1 .. m : k = m \/ k \in 1 .. m - 1
      BY <2>3
    <3> HIDE DEF g
    <3> QED
      BY <3>1, <3>3, <3>4, <3>5, <3>6
  <2> HIDE DEF Good
  <2> QED
    BY <2>1, <2>6
<1>2. PICK f : Good(f, n)
  BY <1>1
<1> QED
  BY <1>2 DEF Recurses
-----------------------------------------------------------------------------
(***************************************************************************)
(* Increasing sequences of the members of a set.                            *)
(***************************************************************************)
Increasing(s) == \A i, j \in DOMAIN s : i < j => s[i] < s[j]

\* Every finite set of natural numbers has one: its least member first.
LEMMA InOrderExists ==
  ASSUME NEW S \in SUBSET Nat, IsFiniteSet(S)
  PROVE  \E s \in [1 .. Cardinality(S) -> S] : Increasing(s)
<1> DEFINE Ordered(T) == \E s \in [1 .. Cardinality(T) -> T] : Increasing(s)
           bad == {n \in Nat : \E T \in SUBSET Nat : IsFiniteSet(T) /\ Cardinality(T) = n /\ ~Ordered(T)}
<1>1. bad = {}
  <2> SUFFICES ASSUME bad # {} PROVE FALSE
    OBVIOUS
  <2> DEFINE n == First(bad)
  <2>1. n \in bad /\ \A j \in bad : n <= j
    BY FirstExists
  <2> HIDE DEF n
  <2>2. PICK T \in SUBSET Nat : IsFiniteSet(T) /\ Cardinality(T) = n /\ ~Ordered(T)
    BY <2>1
  <2>3. n \in Nat
    BY <2>1
  <2>4. n # 0
    <3> SUFFICES ASSUME n = 0 PROVE FALSE
      OBVIOUS
    <3>1. T = {} /\ 1 .. Cardinality(T) = {}
      BY <2>2, FS_EmptySet
    <3>2. [i \in {} |-> i] \in [1 .. Cardinality(T) -> T] /\ Increasing([i \in {} |-> i])
      BY <3>1 DEF Increasing
    <3> QED
      BY <2>2, <3>2
  <2>5. T # {}
    BY <2>2, <2>4, FS_EmptySet
  <2> DEFINE x == First(T)
             U == T \ {x}
  <2>6. x \in T /\ \A y \in T : x <= y
    BY <2>5, FirstExists
  <2> HIDE DEF x
  <2>7. IsFiniteSet(U) /\ Cardinality(U) = n - 1 /\ U \in SUBSET Nat
    BY <2>2, <2>6, FS_RemoveElement
  <2>8. n - 1 \in Nat /\ n - 1 \notin bad
    BY <2>1, <2>3, <2>4
  <2>9. PICK s \in [1 .. n - 1 -> U] : Increasing(s)
    BY <2>7, <2>8
  <2> DEFINE t == [i \in 1 .. n |-> IF i = 1 THEN x ELSE s[i - 1]]
  <2>10. \A i \in 1 .. n : i # 1 => i - 1 \in 1 .. n - 1 /\ s[i - 1] \in U
    BY <2>3, <2>9
  <2>11. t \in [1 .. n -> T]
    BY <2>6, <2>10
  <2>12. Increasing(t)
    <3> SUFFICES ASSUME NEW i \in 1 .. n, NEW j \in 1 .. n, i < j PROVE t[i] < t[j]
      BY DEF Increasing
    <3>1. j # 1 /\ t[j] = s[j - 1] /\ s[j - 1] \in U
      BY <2>3, <2>10
    <3>2. CASE i = 1
      <4>1. t[i] = x /\ x <= s[j - 1] /\ x # s[j - 1]
        BY <2>3, <2>6, <3>1, <3>2
      <4>2. x \in Nat /\ s[j - 1] \in Nat
        BY <2>6, <3>1
      <4> QED
        BY <3>1, <4>1, <4>2
    <3>3. CASE i # 1
      <4>1. t[i] = s[i - 1] /\ i - 1 \in 1 .. n - 1 /\ j - 1 \in 1 .. n - 1 /\ i - 1 < j - 1
        BY <2>3, <2>10, <3>1, <3>3
      <4> QED
        BY <2>9, <3>1, <4>1 DEF Increasing
    <3> QED
      BY <3>2, <3>3
  <2> HIDE DEF t
  <2> QED
    BY <2>2, <2>11, <2>12
<1>2. IsFiniteSet(S) /\ Cardinality(S) \in Nat
  BY FS_CardinalityType
<1>3. Ordered(S)
  BY <1>1, <1>2
<1> QED
  BY <1>3

\* So InOrder is one.
LEMMA InOrderIs ==
  ASSUME NEW S \in SUBSET Nat, IsFiniteSet(S)
  PROVE  /\ InOrder(S) \in [1 .. Cardinality(S) -> S] /\ Increasing(InOrder(S))
         /\ InOrder(S) \in Seq(S) /\ Len(InOrder(S)) = Cardinality(S)
         /\ Cardinality(S) \in Nat /\ (S # {} => Cardinality(S) # 0)
<1>1. PICK s \in [1 .. Cardinality(S) -> S] : Increasing(s)
  BY InOrderExists
<1>2. InOrder(S) \in [1 .. Cardinality(S) -> S] /\ Increasing(InOrder(S))
  BY <1>1 DEF InOrder, Increasing
<1>3. Cardinality(S) \in Nat /\ (S # {} => Cardinality(S) # 0)
  BY FS_CardinalityType, FS_EmptySet
<1> QED
  BY <1>2, <1>3, HasLength

\* It has every member of the set: a function on as many places.
LEMMA InOrderCovers ==
  ASSUME NEW S \in SUBSET Nat, IsFiniteSet(S), NEW x \in S
  PROVE  \E i \in 1 .. Cardinality(S) : InOrder(S)[i] = x
<1> DEFINE n == Cardinality(S)
           s == InOrder(S)
<1>1. s \in [1 .. n -> S] /\ Increasing(s) /\ n \in Nat
  BY InOrderIs
<1> HIDE DEF n, s
<1>2. \A i, j \in 1 .. n : s[i] = s[j] => i = j
  <2> SUFFICES ASSUME NEW i \in 1 .. n, NEW j \in 1 .. n, s[i] = s[j], i < j PROVE FALSE
    BY <1>1
  <2>1. s[i] < s[j] /\ s[i] \in Nat
    BY <1>1 DEF Increasing
  <2> QED
    BY <2>1
<1>3. s \in Injection(1 .. n, S)
  BY <1>1, <1>2, Fun_IsInj
<1>4. IsFiniteSet(1 .. n) /\ Cardinality(1 .. n) = n
  BY <1>1, FS_Interval
<1>5. s \in Surjection(1 .. n, S)
  BY <1>3, <1>4, FS_Injection DEF n
<1>6. \A t \in S : \E i \in 1 .. n : s[i] = t
  BY <1>5, Zenon DEF Surjection
<1> QED
  BY <1>6 DEF n, s
-----------------------------------------------------------------------------
(***************************************************************************)
(* Heaps.                                                                   *)
(***************************************************************************)
InodeFields == {"name", "isDir", "parent", "entries", "content", "alive"}

IsInode(n) ==
  /\ InodeFields \subseteq DOMAIN n
  /\ n.isDir \in BOOLEAN /\ n.alive \in BOOLEAN /\ n.parent \in Nat

\* The inodes are numbered as they are allocated: a tree that grows downwards.
IsHeap(h) ==
  /\ Len(h) \in Nat \ {0} /\ DOMAIN h = 1 .. Len(h)
  /\ h[Root].parent = Null /\ h[Root].alive /\ h[Root].isDir
  /\ \A i \in DOMAIN h :
       /\ IsInode(h[i])
       /\ i # Root => h[i].parent \in 1 .. i - 1
       /\ h[i].entries \subseteq i + 1 .. Len(h)

\* Entries point back, and what is alive lists nothing that is not.
IsTree(h) ==
  \A i \in DOMAIN h : \A j \in h[i].entries :
    h[j].parent = i /\ (h[i].alive => h[j].alive)

HeapIInv(h) == IsHeap(h) /\ IsTree(h)

\* The root alone is such a heap.
LEMMA NewHeapIs == ASSUME NEW content PROVE HeapIInv(NewHeap(content))
<1> DEFINE root == Inode("/", TRUE, Null, content)
           h == <<root>>
<1>1. /\ InodeFields \subseteq DOMAIN root /\ root.parent = Null /\ root.alive = TRUE
      /\ root.isDir = TRUE /\ root.entries = {}
  BY DEF Inode, InodeFields
<1> HIDE DEF root
<1>2. DOMAIN h = {1} /\ Len(h) = 1 /\ h[1] = root
  OBVIOUS
<1> HIDE DEF h
<1>3. DOMAIN h = 1 .. Len(h)
  BY <1>2
<1>4. IsInode(root)
  <2>1. root.isDir \in BOOLEAN /\ root.alive \in BOOLEAN
    BY <1>1, Zenon
  <2>2. root.parent \in Nat
    BY <1>1 DEF Null
  <2> QED
    BY <1>1, <2>1, <2>2 DEF IsInode
<1>5. IsHeap(h)
  BY <1>1, <1>2, <1>3, <1>4 DEF IsHeap, Root, Null
<1>6. HeapIInv(h)
  BY <1>1, <1>2, <1>5 DEF HeapIInv, IsTree
<1> QED
  BY <1>6 DEF NewHeap, h, root

\* Heap g has the inodes of h with what they had, but for their entries.
SameInode(m, n) ==
  /\ InodeFields \subseteq DOMAIN m
  /\ m.name = n.name /\ m.isDir = n.isDir /\ m.parent = n.parent

IsNew(m, i, n, dir) ==
  InodeFields \subseteq DOMAIN m /\ m.name = n /\ m.isDir = dir /\ m.parent = i

\* The inodes add_sub leaves: the old ones with what they had, but for one
\* more entry in the parent, and a new one at the end.
Grows(h, g, i, n, dir) ==
  LET N == Len(h) + 1
  IN /\ DOMAIN g = 1 .. N /\ Len(g) = N
     /\ \A j \in DOMAIN h :
          /\ SameInode(g[j], h[j]) /\ g[j].alive = h[j].alive
          /\ g[j].entries = IF j = i THEN h[j].entries \cup {N} ELSE h[j].entries
     /\ IsNew(g[N], i, n, dir) /\ g[N].alive = TRUE /\ g[N].entries = {}

\* An addition is just that.
LEMMA AddSubGrows ==
  ASSUME NEW h, IsHeap(h), NEW i, NEW n, NEW dir, NEW c
  PROVE  Grows(h, AddSub(h, i, n, dir, c), i, n, dir)
<1> DEFINE N == Len(h) + 1
           g == AddSub(h, i, n, dir, c)
<1>1. Len(h) \in Nat /\ DOMAIN h = 1 .. Len(h) /\ N \in Nat /\ N \in 1 .. N
  BY DEF IsHeap
<1>2. g = [j \in 1 .. N |->
             IF j = N THEN Inode(n, dir, i, c)
             ELSE [h[j] EXCEPT !.entries = IF j = i THEN @ \cup {N} ELSE @]]
  BY DEF AddSub, NextInode
<1>3. DOMAIN g = 1 .. N /\ Len(g) = N
  <2> HIDE DEF N
  <2>1. g \in [1 .. N -> {g[j] : j \in 1 .. N}]
    BY <1>2
  <2> HIDE DEF g
  <2> QED
    BY <1>1, <2>1, HasLength
<1>4. \A j \in DOMAIN h : j \in 1 .. N /\ j # N
  BY <1>1
<1>5. \A j \in DOMAIN h : g[j] = [h[j] EXCEPT !.entries = IF j = i THEN @ \cup {N} ELSE @]
  BY <1>2, <1>4
<1>6. g[N] = Inode(n, dir, i, c)
  BY <1>1, <1>2
<1> HIDE DEF g
<1>7. ASSUME NEW j \in DOMAIN h
      PROVE  /\ SameInode(g[j], h[j]) /\ g[j].alive = h[j].alive
             /\ g[j].entries = IF j = i THEN h[j].entries \cup {N} ELSE h[j].entries
  <2>1. InodeFields \subseteq DOMAIN h[j]
    BY DEF IsHeap, IsInode
  <2> QED
    BY <1>5, <2>1 DEF SameInode, InodeFields
<1>8. IsNew(g[N], i, n, dir) /\ g[N].alive = TRUE /\ g[N].entries = {}
  BY <1>6 DEF IsNew, Inode, InodeFields
<1> QED
  BY <1>3, <1>7, <1>8 DEF Grows, g

\* A new entry in an inode that was allocated keeps a heap a heap.
LEMMA GrowthIs ==
  ASSUME NEW h, HeapIInv(h), NEW i \in DOMAIN h, NEW n, NEW dir \in BOOLEAN,
         NEW g, Grows(h, g, i, n, dir)
  PROVE  HeapIInv(g)
<1> DEFINE N == Len(h) + 1
<1>1. /\ Len(h) \in Nat \ {0} /\ DOMAIN h = 1 .. Len(h) /\ Root \in DOMAIN h /\ N \in Nat \ {0}
      /\ i \in 1 .. Len(h) /\ N \notin DOMAIN h
  BY DEF HeapIInv, IsHeap, Root
<1>2. /\ DOMAIN g = 1 .. N /\ Len(g) = N
      /\ \A j \in DOMAIN h :
           /\ SameInode(g[j], h[j]) /\ g[j].alive = h[j].alive
           /\ g[j].entries = IF j = i THEN h[j].entries \cup {N} ELSE h[j].entries
      /\ IsNew(g[N], i, n, dir) /\ g[N].alive = TRUE /\ g[N].entries = {}
  BY DEF Grows
<1>3. g[N].isDir = dir /\ g[N].parent = i /\ InodeFields \subseteq DOMAIN g[N]
  BY <1>2 DEF IsNew
<1>4. \A j \in DOMAIN g : j \in DOMAIN h \/ j = N
  BY <1>1, <1>2
<1>5. \A j \in DOMAIN h :
        /\ IsInode(h[j]) /\ (j # Root => h[j].parent \in 1 .. j - 1)
        /\ h[j].entries \subseteq j + 1 .. Len(h)
  BY DEF HeapIInv, IsHeap
<1>6. ASSUME NEW j \in DOMAIN g
      PROVE  /\ IsInode(g[j]) /\ (j # Root => g[j].parent \in 1 .. j - 1)
             /\ g[j].entries \subseteq j + 1 .. Len(g)
  <2>1. CASE j \in DOMAIN h
    <3>1. IsInode(g[j]) /\ (j # Root => g[j].parent \in 1 .. j - 1)
      BY <1>2, <1>5, <2>1 DEF SameInode, IsInode
    <3>2. \A k \in g[j].entries : k \in h[j].entries \/ k = N
      BY <1>2, <2>1
    <3>3. h[j].entries \subseteq j + 1 .. Len(h)
      BY <1>5, <2>1
    <3>4. g[j].entries \subseteq j + 1 .. N
      <4>1. j \in 1 .. Len(h)
        BY <1>1, <2>1
      <4> HIDE DEF Grows
      <4> QED
        BY <1>1, <3>2, <3>3, <4>1
    <3> QED
      BY <1>2, <3>1, <3>4
  <2>2. CASE j = N
    <3>1. IsInode(g[j])
      <4>1. g[N].alive \in BOOLEAN
        BY <1>2, Zenon
      <4>2. g[N].parent \in Nat
        BY <1>1, <1>3
      <4> QED
        BY <1>3, <2>2, <4>1, <4>2 DEF IsInode
    <3>2. g[j].parent \in 1 .. j - 1
      BY <1>1, <1>3, <2>2
    <3> QED
      BY <1>2, <2>2, <3>1, <3>2
  <2> QED
    BY <1>4, <2>1, <2>2
<1>7. g[Root].parent = Null /\ g[Root].alive /\ g[Root].isDir
  BY <1>1, <1>2 DEF HeapIInv, IsHeap, SameInode
<1>8. IsHeap(g)
  BY <1>1, <1>2, <1>6, <1>7 DEF IsHeap
<1>9. ASSUME NEW j \in DOMAIN g, NEW k \in g[j].entries
      PROVE  g[k].parent = j /\ (g[j].alive => g[k].alive)
  <2>1. j \in DOMAIN h
    BY <1>2, <1>4
  <2>2. CASE k \in h[j].entries
    <3>1. k \in DOMAIN h
      BY <1>1, <1>5, <2>1, <2>2
    <3> QED
      BY <1>2, <2>1, <2>2, <3>1 DEF HeapIInv, IsTree, SameInode
  <2>3. CASE j = i /\ k = N
    BY <1>2, <1>3, <2>3
  <2> QED
    BY <1>2, <2>1, <2>2, <2>3
<1> QED
  BY <1>8, <1>9 DEF HeapIInv, IsTree

\* The inodes delete_myself leaves: all of them, one no longer alive, with
\* entries they had, and without that one in the entries of its parent.
Shrinks(h, g, i) ==
  /\ DOMAIN g = DOMAIN h /\ Len(g) = Len(h)
  /\ \A j \in DOMAIN h :
       /\ SameInode(g[j], h[j])
       /\ g[j].alive = (h[j].alive /\ j # i)
       /\ g[j].entries \subseteq h[j].entries
       /\ j = h[i].parent => i \notin g[j].entries

\* So is the deletion of an inode that has a parent.
LEMMA DeleteShrinks ==
  ASSUME NEW h, IsHeap(h), NEW i, h[i].parent # Null
  PROVE  Shrinks(h, DeleteMyself(h, i), i)
<1> DEFINE entries(j) == IF j \in Emptied(h, i) THEN {}
                         ELSE IF j = h[i].parent THEN h[j].entries \ {i} ELSE h[j].entries
           g == DeleteMyself(h, i)
<1>1. Len(h) \in Nat /\ DOMAIN h = 1 .. Len(h)
  BY DEF IsHeap
<1>2. g = [j \in 1 .. Len(h) |->
             [h[j] EXCEPT !.alive = @ /\ j # i, !.entries = entries(j)]]
  BY DEF DeleteMyself, Deleted
<1>3. \A j \in DOMAIN h :
        entries(j) \subseteq h[j].entries /\ (j = h[i].parent => i \notin entries(j))
  OBVIOUS
<1> HIDE DEF entries, g
<1>4. DOMAIN g = 1 .. Len(h) /\ Len(g) = Len(h)
  <2>1. g \in [1 .. Len(h) -> {g[j] : j \in 1 .. Len(h)}]
    BY <1>2
  <2> QED
    BY <1>1, <2>1, HasLength
<1>5. ASSUME NEW j \in DOMAIN h
      PROVE  /\ SameInode(g[j], h[j])
             /\ g[j].alive = (h[j].alive /\ j # i)
             /\ g[j].entries = entries(j)
  <2> DEFINE a == h[j].alive /\ j # i
  <2>1. InodeFields \subseteq DOMAIN h[j]
    BY DEF IsHeap, IsInode
  <2>2. g[j] = [h[j] EXCEPT !.alive = a, !.entries = entries(j)]
    BY <1>1, <1>2
  <2> HIDE DEF a
  <2>3. SameInode(g[j], h[j]) /\ g[j].alive = a /\ g[j].entries = entries(j)
    BY <2>1, <2>2 DEF SameInode, InodeFields
  <2> QED
    BY <2>3 DEF a
<1> QED
  BY <1>1, <1>3, <1>4, <1>5 DEF Shrinks, g

\* A removal keeps a heap a heap: what it deletes it takes out of the only
\* directory that lists it.
LEMMA DeleteIs ==
  ASSUME NEW h, HeapIInv(h), NEW i \in DOMAIN h, NEW g, g = DeleteMyself(h, i)
  PROVE  HeapIInv(g) /\ DOMAIN g = DOMAIN h
<1>1. CASE h[i].parent = Null
  BY <1>1 DEF DeleteMyself
<1>2. CASE h[i].parent # Null
  <2>1. Shrinks(h, g, i)
    BY <1>2, DeleteShrinks DEF HeapIInv
  <2>2. /\ Len(h) \in Nat \ {0} /\ DOMAIN h = 1 .. Len(h) /\ Root \in DOMAIN h
        /\ h[Root].parent = Null /\ h[Root].alive /\ h[Root].isDir
    BY DEF HeapIInv, IsHeap, Root
  <2>3. i # Root
    BY <1>2, <2>2
  <2>4. /\ DOMAIN g = DOMAIN h /\ Len(g) = Len(h)
        /\ \A j \in DOMAIN h :
             /\ SameInode(g[j], h[j])
             /\ g[j].alive = (h[j].alive /\ j # i)
             /\ g[j].entries \subseteq h[j].entries
             /\ j = h[i].parent => i \notin g[j].entries
    BY <2>1 DEF Shrinks
  <2>5. \A j \in DOMAIN h :
          /\ IsInode(h[j]) /\ (j # Root => h[j].parent \in 1 .. j - 1)
          /\ h[j].entries \subseteq j + 1 .. Len(h)
    BY DEF HeapIInv, IsHeap
  <2>6. ASSUME NEW j \in DOMAIN g
        PROVE  /\ IsInode(g[j]) /\ (j # Root => g[j].parent \in 1 .. j - 1)
               /\ g[j].entries \subseteq j + 1 .. Len(g)
    <3>1. g[j].alive \in BOOLEAN
      BY <2>4, Zenon
    <3>2. IsInode(g[j])
      BY <2>4, <2>5, <3>1 DEF SameInode, IsInode
    <3> QED
      BY <2>4, <2>5, <3>2 DEF SameInode
  <2>7. g[Root].parent = Null /\ g[Root].alive /\ g[Root].isDir
    BY <2>2, <2>3, <2>4 DEF SameInode
  <2>8. IsHeap(g)
    BY <2>2, <2>4, <2>6, <2>7 DEF IsHeap
  <2>9. ASSUME NEW d \in DOMAIN g, NEW j \in g[d].entries
        PROVE  g[j].parent = d /\ (g[d].alive => g[j].alive)
    <3>4. d \in DOMAIN h /\ (g[d].alive => h[d].alive)
      BY <2>4, Zenon
    <3>1. d \in DOMAIN h /\ j \in h[d].entries /\ j \in DOMAIN h /\ (g[d].alive => h[d].alive)
      BY <2>2, <2>4, <2>5, <3>4
    <3>2. h[j].parent = d /\ (h[d].alive => h[j].alive)
      BY <3>1 DEF HeapIInv, IsTree
    <3>3. g[j].parent = d /\ j # i
      BY <2>4, <3>1, <3>2 DEF SameInode
    <3> QED
      BY <2>4, <3>1, <3>2, <3>3
  <2> QED
    BY <2>4, <2>8, <2>9 DEF HeapIInv, IsTree
<1> QED
  BY <1>1, <1>2

\* So does writing a content.
LEMMA WriteIs ==
  ASSUME NEW h, HeapIInv(h), NEW i \in DOMAIN h, NEW d, NEW g,
         g = [h EXCEPT ![i].content = d]
  PROVE  HeapIInv(g) /\ DOMAIN g = DOMAIN h
<1>1. Len(h) \in Nat \ {0} /\ DOMAIN h = 1 .. Len(h)
  BY DEF HeapIInv, IsHeap
<1>2. DOMAIN g = DOMAIN h /\ Len(g) = Len(h)
  <2>1. g \in [1 .. Len(h) -> {g[j] : j \in 1 .. Len(h)}]
    BY <1>1
  <2> QED
    BY <1>1, <2>1, HasLength
<1>3. ASSUME NEW j \in DOMAIN h
      PROVE  SameInode(g[j], h[j]) /\ g[j].alive = h[j].alive /\ g[j].entries = h[j].entries
  <2>1. InodeFields \subseteq DOMAIN h[j]
    BY DEF HeapIInv, IsHeap, IsInode
  <2>2. CASE j = i
    BY <2>1, <2>2 DEF SameInode, InodeFields
  <2>3. CASE j # i
    BY <2>1, <2>3 DEF SameInode
  <2> QED
    BY <2>2, <2>3
<1>4. \A j \in DOMAIN h : h[j].entries \subseteq DOMAIN h
  BY <1>1 DEF HeapIInv, IsHeap
<1>5. Root \in DOMAIN h
  BY <1>1 DEF Root
<1>6. \A j \in DOMAIN h : IsInode(h[j]) /\ IsInode(g[j])
  BY <1>3 DEF HeapIInv, IsHeap, SameInode, IsInode
<1>7. IsHeap(g)
  BY <1>2, <1>3, <1>5, <1>6 DEF HeapIInv, IsHeap, SameInode
<1>8. IsTree(g)
  BY <1>2, <1>3, <1>4 DEF HeapIInv, IsTree, SameInode
<1> QED
  BY <1>2, <1>7, <1>8 DEF HeapIInv
-----------------------------------------------------------------------------
(***************************************************************************)
(* Look-ups.                                                                *)
(***************************************************************************)

\* What get_sub returns: NULL exactly if nothing has the name, else an entry.
LEMMA GetSubIs ==
  ASSUME NEW h, IsHeap(h), NEW i \in DOMAIN h, NEW n
  PROVE  /\ GetSub(h, i, n) \in h[i].entries \cup {Null}
         /\ GetSub(h, i, n) = Null <=> Named(h, i, n) = {}
         /\ GetSub(h, i, n) # Null => h[GetSub(h, i, n)].name = n
         /\ GetSub(h, i, n) \in DOMAIN h \cup {Null} /\ Null \notin DOMAIN h
<1>1. Len(h) \in Nat /\ DOMAIN h = 1 .. Len(h) /\ h[i].entries \subseteq i + 1 .. Len(h) /\ i \in Nat
  BY DEF IsHeap
<1>2. Named(h, i, n) \subseteq h[i].entries /\ Named(h, i, n) \in SUBSET Nat
      /\ h[i].entries \subseteq DOMAIN h /\ Null \notin DOMAIN h
  BY <1>1 DEF Named, Null
<1>3. CASE Named(h, i, n) = {}
  BY <1>2, <1>3 DEF GetSub
<1>4. CASE Named(h, i, n) # {}
  <2>1. First(Named(h, i, n)) \in Named(h, i, n)
    BY <1>2, <1>4, FirstExists
  <2>2. GetSub(h, i, n) = First(Named(h, i, n))
    BY <1>4 DEF GetSub
  <2>3. GetSub(h, i, n) \in h[i].entries /\ h[GetSub(h, i, n)].name = n
    BY <2>1, <2>2 DEF Named
  <2> QED
    BY <1>2, <1>4, <2>3
<1> QED
  BY <1>3, <1>4

\* The inodes a look-up may end at: they may be followed and deleted.
Sound(h) == {i \in DOMAIN h : h[i].alive /\ (i # Root => h[h[i].parent].alive)}

\* The look-up walks down the path: an empty name leaves it where it is.
IsWalk(h, p, at) ==
  at = [k \in 0 .. Len(p) |->
          IF k = 0 THEN Root
          ELSE IF p[k] = "" THEN at[k - 1]
          ELSE IF at[k - 1] = Null THEN Null ELSE GetSub(h, at[k - 1], p[k])]

\* Every path has one.
LEMMA WalkExists ==
  ASSUME NEW h, HeapIInv(h), NEW p, Len(p) \in Nat
  PROVE  \E at : IsWalk(h, p, at)
<1> DEFINE n == Len(p)
<1>0. PICK X : X = DOMAIN h \cup {Null}
  OBVIOUS
<1> DEFINE next == [k \in 1 .. n |-> [i \in X |->
                      IF p[k] = "" THEN i ELSE IF i = Null THEN Null ELSE GetSub(h, i, p[k])]]
<1>1. Root \in X /\ n \in Nat
  BY <1>0 DEF HeapIInv, IsHeap, Root
<1>2. next \in [1 .. n -> [X -> X]]
  <2> SUFFICES ASSUME NEW k \in 1 .. n, NEW x \in X
               PROVE  (IF p[k] = "" THEN x ELSE IF x = Null THEN Null ELSE GetSub(h, x, p[k])) \in X
    OBVIOUS
  <2>1. x # Null => GetSub(h, x, p[k]) \in X
    BY <1>0, GetSubIs DEF HeapIInv
  <2> QED
    BY <1>0, <2>1
<1>3. \A k \in 1 .. n : \A x \in X :
        next[k][x] = IF p[k] = "" THEN x ELSE IF x = Null THEN Null ELSE GetSub(h, x, p[k])
  OBVIOUS
<1> HIDE DEF next, n
<1>4. PICK at \in [0 .. n -> X] : at[0] = Root /\ \A k \in 1 .. n : at[k] = next[k][at[k - 1]]
  <2>1. Recurses(n, X, Root, next)
    BY <1>1, <1>2, RecursionExists
  <2> QED
    BY <2>1 DEF Recurses
<1>5. ASSUME NEW k \in 0 .. n
      PROVE  at[k] = IF k = 0 THEN Root
                     ELSE IF p[k] = "" THEN at[k - 1]
                     ELSE IF at[k - 1] = Null THEN Null ELSE GetSub(h, at[k - 1], p[k])
  <2>1. CASE k = 0
    BY <1>4, <2>1
  <2>2. CASE k # 0
    <3>1. k \in 1 .. n /\ k - 1 \in 0 .. n
      BY <1>1, <2>2
    <3> QED
      BY <1>3, <1>4, <2>2, <3>1
  <2> QED
    BY <2>1, <2>2
<1>6. at = [k \in 0 .. n |->
          IF k = 0 THEN Root
          ELSE IF p[k] = "" THEN at[k - 1]
          ELSE IF at[k - 1] = Null THEN Null ELSE GetSub(h, at[k - 1], p[k])]
  BY <1>4, <1>5
<1> QED
  BY <1>6 DEF IsWalk, n

\* A walk stays on inodes that may be followed, whose parents may be, too.
LEMMA WalkIsSound ==
  ASSUME NEW h, HeapIInv(h), NEW p, Len(p) \in Nat, NEW at, IsWalk(h, p, at)
  PROVE  \A k \in 0 .. Len(p) : at[k] \in Sound(h) \cup {Null}
<1> DEFINE n == Len(p)
           bad == {k \in 0 .. n : at[k] \notin Sound(h) \cup {Null}}
<1>1. Root \in Sound(h)
  BY DEF HeapIInv, IsHeap, Sound, Root
<1>2. \A k \in 0 .. n :
        at[k] = IF k = 0 THEN Root
                ELSE IF p[k] = "" THEN at[k - 1]
                ELSE IF at[k - 1] = Null THEN Null ELSE GetSub(h, at[k - 1], p[k])
  BY DEF IsWalk
<1>3. ASSUME bad # {} PROVE FALSE
  <2> DEFINE k == First(bad)
  <2>1. k \in bad /\ \A j \in bad : k <= j
    <3>1. bad \in SUBSET Nat
      OBVIOUS
    <3> HIDE DEF bad
    <3> QED
      BY <1>3, <3>1, FirstExists
  <2> HIDE DEF k
  <2>2. k \in 0 .. n /\ at[k] \notin Sound(h) \cup {Null}
    BY <2>1
  <2>3. k # 0
    BY <1>1, <1>2, <2>2
  <2>4. k - 1 \in 0 .. n /\ k - 1 < k
    BY <2>2, <2>3
  <2>5. at[k - 1] \in Sound(h) \cup {Null}
    <3>1. k - 1 \notin bad
      BY <2>1, <2>2, <2>4
    <3> QED
      BY <2>4, <3>1
  <2>6. at[k - 1] # Null /\ at[k] = GetSub(h, at[k - 1], p[k])
    BY <1>2, <2>2, <2>3, <2>5
  <2> DEFINE i == at[k - 1]
             j == at[k]
  <2>7. i \in DOMAIN h /\ h[i].alive
    BY <2>5, <2>6 DEF Sound
  <2>8. j \in h[i].entries /\ j \in DOMAIN h
    BY <2>2, <2>6, <2>7, GetSubIs DEF HeapIInv
  <2>9. h[j].parent = i /\ h[j].alive
    BY <2>7, <2>8 DEF HeapIInv, IsTree
  <2> QED
    BY <2>2, <2>7, <2>8, <2>9 DEF Sound
<1> QED
  BY <1>3

\* Two walks of one path are one.
LEMMA WalkIsUnique ==
  ASSUME NEW h, NEW p, Len(p) \in Nat, NEW q, Len(q) \in Nat, Len(p) <= Len(q),
         \A k \in 1 .. Len(p) : p[k] = q[k],
         NEW at, IsWalk(h, p, at), NEW to, IsWalk(h, q, to)
  PROVE  \A k \in 0 .. Len(p) : at[k] = to[k]
<1> DEFINE n == Len(p)
           bad == {k \in 0 .. n : at[k] # to[k]}
<1>1. \A k \in 0 .. n :
        at[k] = IF k = 0 THEN Root
                ELSE IF p[k] = "" THEN at[k - 1]
                ELSE IF at[k - 1] = Null THEN Null ELSE GetSub(h, at[k - 1], p[k])
  BY DEF IsWalk
<1>2. \A k \in 0 .. Len(q) :
        to[k] = IF k = 0 THEN Root
                ELSE IF q[k] = "" THEN to[k - 1]
                ELSE IF to[k - 1] = Null THEN Null ELSE GetSub(h, to[k - 1], q[k])
  BY DEF IsWalk
<1>3. ASSUME bad # {} PROVE FALSE
  <2> DEFINE k == First(bad)
  <2>1. k \in bad /\ \A j \in bad : k <= j
    <3>1. bad \in SUBSET Nat
      OBVIOUS
    <3> HIDE DEF bad
    <3> QED
      BY <1>3, <3>1, FirstExists
  <2> HIDE DEF k
  <2>2. k \in 0 .. n /\ at[k] # to[k] /\ k \in 0 .. Len(q)
    BY <2>1
  <2>3. k # 0
    BY <1>1, <1>2, <2>2
  <2>4. k - 1 \in 0 .. n /\ k - 1 < k /\ k \in 1 .. n
    BY <2>2, <2>3
  <2>5. at[k - 1] = to[k - 1]
    <3>1. k - 1 \notin bad
      BY <2>1, <2>2, <2>4
    <3> QED
      BY <2>4, <3>1
  <2>6. p[k] = q[k]
    BY <2>4
  <2> QED
    BY <1>1, <1>2, <2>2, <2>3, <2>5, <2>6
<1> QED
  BY <1>3

\* What a look-up returns is where the walk ends.
LEMMA LookupWalks ==
  ASSUME NEW h, HeapIInv(h), NEW p, Len(p) \in Nat
  PROVE  \E at : IsWalk(h, p, at) /\ Lookup(h, p) = at[Len(p)]
<1> DEFINE at == CHOOSE at : IsWalk(h, p, at)
<1>1. IsWalk(h, p, at)
  BY WalkExists
<1>2. Lookup(h, p) = at[Len(p)]
  BY DEF Lookup, IsWalk
<1> QED
  BY <1>1, <1>2

\* A look-up finds nothing, or an inode that may be followed and deleted.
LEMMA LookupIsSound ==
  ASSUME NEW h, HeapIInv(h), NEW p, Len(p) \in Nat
  PROVE  Lookup(h, p) \in Sound(h) \cup {Null}
<1>1. PICK at : IsWalk(h, p, at) /\ Lookup(h, p) = at[Len(p)]
  BY LookupWalks
<1>2. Len(p) \in 0 .. Len(p)
  OBVIOUS
<1> QED
  BY <1>1, <1>2, WalkIsSound

\* The root is found, and the empty path is the root's.
LEMMA LookupRoot ==
  ASSUME NEW h, HeapIInv(h), NEW p, Len(p) = 0
  PROVE  Lookup(h, p) = Root
<1>1. PICK at : IsWalk(h, p, at) /\ Lookup(h, p) = at[Len(p)]
  BY LookupWalks
<1> QED
  BY <1>1 DEF IsWalk

\* A path is looked up in what its directory is looked up as.
LEMMA LookupStep ==
  ASSUME NEW h, HeapIInv(h), NEW p, Len(p) \in Nat, NEW q, Len(q) = Len(p) + 1,
         \A k \in 1 .. Len(p) : q[k] = p[k]
  PROVE  Lookup(h, q) = IF q[Len(q)] = "" THEN Lookup(h, p)
                        ELSE IF Lookup(h, p) = Null THEN Null
                        ELSE GetSub(h, Lookup(h, p), q[Len(q)])
<1>1. PICK at : IsWalk(h, p, at) /\ Lookup(h, p) = at[Len(p)]
  BY LookupWalks
<1>2. PICK to : IsWalk(h, q, to) /\ Lookup(h, q) = to[Len(q)]
  BY LookupWalks
<1>3. at[Len(p)] = to[Len(p)]
  <2>1. Len(p) \in 0 .. Len(p) /\ Len(p) <= Len(q) /\ Len(q) \in Nat
    OBVIOUS
  <2> QED
    BY <1>1, <1>2, <2>1, WalkIsUnique
<1>4. Len(q) \in 0 .. Len(q) /\ Len(q) # 0 /\ Len(q) - 1 = Len(p)
  OBVIOUS
<1>5. to[Len(q)] = IF q[Len(q)] = "" THEN to[Len(q) - 1]
                  ELSE IF to[Len(q) - 1] = Null THEN Null ELSE GetSub(h, to[Len(q) - 1], q[Len(q)])
  <2> DEFINE n == Len(q)
  <2>1. n \in 0 .. n /\ n # 0
    BY <1>4
  <2>2. IsWalk(h, q, to)
    BY <1>2
  <2> QED
    BY <2>1, <2>2 DEF IsWalk
<1> QED
  BY <1>1, <1>2, <1>3, <1>4, <1>5

\* A look-up that finds something goes on finding it, if get_sub does.
LEMMA LookupsStay ==
  ASSUME NEW h, HeapIInv(h), NEW g, HeapIInv(g),
         \A j \in DOMAIN h : \A m : GetSub(h, j, m) # Null => GetSub(g, j, m) = GetSub(h, j, m),
         NEW p, Len(p) \in Nat, Lookup(h, p) # Null
  PROVE  Lookup(g, p) = Lookup(h, p)
<1>1. PICK at : IsWalk(h, p, at) /\ Lookup(h, p) = at[Len(p)]
  BY LookupWalks
<1>2. PICK to : IsWalk(g, p, to) /\ Lookup(g, p) = to[Len(p)]
  BY LookupWalks
<1> DEFINE n == Len(p)
           bad == {k \in 0 .. n : at[k] # Null /\ to[k] # at[k]}
<1>3. \A k \in 0 .. n :
        /\ at[k] = IF k = 0 THEN Root
                   ELSE IF p[k] = "" THEN at[k - 1]
                   ELSE IF at[k - 1] = Null THEN Null ELSE GetSub(h, at[k - 1], p[k])
        /\ to[k] = IF k = 0 THEN Root
                   ELSE IF p[k] = "" THEN to[k - 1]
                   ELSE IF to[k - 1] = Null THEN Null ELSE GetSub(g, to[k - 1], p[k])
  BY <1>1, <1>2 DEF IsWalk
<1>4. ASSUME bad # {} PROVE FALSE
  <2> DEFINE k == First(bad)
  <2>1. k \in bad /\ \A j \in bad : k <= j
    <3>1. bad \in SUBSET Nat
      OBVIOUS
    <3> HIDE DEF bad
    <3> QED
      BY <1>4, <3>1, FirstExists
  <2> HIDE DEF k
  <2>2. k \in 0 .. n /\ at[k] # Null /\ to[k] # at[k]
    BY <2>1
  <2>3. k # 0
    BY <1>3, <2>2
  <2>4. k - 1 \in 0 .. n /\ k - 1 < k
    BY <2>2, <2>3
  <2>5. at[k - 1] # Null
    BY <1>3, <2>2, <2>3
  <2>6. to[k - 1] = at[k - 1]
    <3>1. k - 1 \notin bad
      BY <2>1, <2>2, <2>4
    <3> QED
      BY <2>4, <2>5, <3>1
  <2>7. at[k - 1] \in DOMAIN h
    <3>1. at[k - 1] \in Sound(h) \cup {Null}
      BY <1>1, <2>4, WalkIsSound
    <3> QED
      BY <2>5, <3>1 DEF Sound
  <2>8. p[k] # ""
    BY <1>3, <2>2, <2>3, <2>6, Zenon
  <2>9. at[k] = GetSub(h, at[k - 1], p[k]) /\ to[k] = GetSub(g, at[k - 1], p[k])
    BY <1>3, <2>2, <2>3, <2>5, <2>6, <2>8
  <2> QED
    BY <2>2, <2>7, <2>9
<1>5. n \in 0 .. n
  OBVIOUS
<1> QED
  BY <1>1, <1>2, <1>4, <1>5

\* get_sub goes on finding what it found when there is a new entry, which is
\* the last; the new one it finds if nothing else had the name.
LEMMA GrowthKeepsSubs ==
  ASSUME NEW h, HeapIInv(h), NEW i \in DOMAIN h, NEW n, NEW dir, NEW g, Grows(h, g, i, n, dir)
  PROVE  /\ \A j \in DOMAIN h : \A m : GetSub(h, j, m) # Null => GetSub(g, j, m) = GetSub(h, j, m)
         /\ GetSub(h, i, n) = Null => GetSub(g, i, n) = NextInode(h)
<1> DEFINE N == Len(h) + 1
<1>1. /\ Len(h) \in Nat /\ DOMAIN h = 1 .. Len(h) /\ N \in Nat /\ IsHeap(h)
      /\ \A j \in DOMAIN h : h[j].entries \subseteq DOMAIN h
      /\ \A j \in DOMAIN h : j < N /\ j # N /\ j \in Nat
  BY DEF HeapIInv, IsHeap
<1>2. /\ g[N].name = n
      /\ \A j \in DOMAIN h : /\ g[j].name = h[j].name
                             /\ g[j].entries = IF j = i THEN h[j].entries \cup {N} ELSE h[j].entries
  BY DEF Grows, IsNew, SameInode
<1> HIDE DEF N
<1>3. ASSUME NEW j \in DOMAIN h, NEW m
      PROVE  /\ Named(g, j, m) = Named(h, j, m) \cup (IF j = i /\ m = n THEN {N} ELSE {})
             /\ Named(h, j, m) \subseteq DOMAIN h
  <2>1. \A k \in h[j].entries : g[k].name = h[k].name /\ k # N
    BY <1>1, <1>2
  <2> QED
    BY <1>1, <1>2, <2>1 DEF Named
<1>4. ASSUME NEW j \in DOMAIN h, NEW m, GetSub(h, j, m) # Null
      PROVE  GetSub(g, j, m) = GetSub(h, j, m)
  <2>1. PICK A, B : A = Named(h, j, m) /\ B = Named(g, j, m)
    OBVIOUS
  <2>2. A # {} /\ GetSub(h, j, m) = First(A)
    BY <1>4, <2>1 DEF GetSub
  <2>3. A \subseteq DOMAIN h /\ A \subseteq B /\ B \subseteq A \cup {N}
    BY <1>3, <2>1
  <2>4. B # {} /\ GetSub(g, j, m) = First(B)
    BY <2>1, <2>2, <2>3 DEF GetSub
  <2>5. A \in SUBSET Nat /\ B \in SUBSET Nat
    BY <1>1, <2>3
  <2>6. First(A) \in A /\ \A k \in A : First(A) <= k
    BY <2>2, <2>5, FirstExists
  <2>7. First(B) \in B /\ \A k \in B : First(B) <= k
    BY <2>4, <2>5, FirstExists
  <2>8. PICK a, b : a = First(A) /\ b = First(B)
    OBVIOUS
  <2>9. a \in Nat /\ b \in Nat /\ b <= a /\ a < N
    BY <1>1, <2>3, <2>5, <2>6, <2>7, <2>8
  <2>10. b \in A
    BY <1>1, <2>3, <2>7, <2>8, <2>9
  <2>11. a <= b
    BY <2>6, <2>8, <2>10
  <2>12. a = b
    BY <2>9, <2>11
  <2> QED
    BY <2>2, <2>4, <2>8, <2>12
<1>5. ASSUME GetSub(h, i, n) = Null PROVE GetSub(g, i, n) = N
  <2>1. Named(h, i, n) = {}
    BY <1>1, <1>5, GetSubIs
  <2>2. Named(g, i, n) = {N}
    BY <1>3, <2>1
  <2>3. First({N}) \in {N}
    BY <1>1, FirstExists
  <2> QED
    BY <2>2, <2>3 DEF GetSub
<1> QED
  BY <1>4, <1>5 DEF N, NextInode
-----------------------------------------------------------------------------
(***************************************************************************)
(* What follows the parents of inodes: a tree has a function for every      *)
(* definition that goes from an inode to its parent.                        *)
(***************************************************************************)
\* f has x0 at 0, and at each j what next makes of its value at up[j].
Climbs(n, X, x0, up, next, f) ==
  /\ f \in [0 .. n -> X] /\ f[0] = x0
  /\ \A j \in 1 .. n : f[j] = next[j][f[up[j]]]

\* There is one: of the longest that exist, the next value makes a longer one.
LEMMA ClimbExists ==
  ASSUME NEW n \in Nat, NEW X, NEW x0 \in X, NEW next \in [1 .. n -> [X -> X]],
         NEW up, \A j \in 1 .. n : up[j] \in 0 .. j - 1
  PROVE  \E f : Climbs(n, X, x0, up, next, f)
<1> DEFINE bad == {m \in 0 .. n : ~\E f : Climbs(m, X, x0, up, next, f)}
<1>1. bad = {}
  <2> SUFFICES ASSUME bad # {} PROVE FALSE
    OBVIOUS
  <2> DEFINE m == First(bad)
  <2>0. bad \in SUBSET Nat
    OBVIOUS
  <2>1. m \in bad /\ \A j \in bad : m <= j
    <3> HIDE DEF bad
    <3> QED
      BY <2>0, FirstExists
  <2> HIDE DEF m
  <2>2. m # 0
    <3>1. Climbs(0, X, x0, up, next, [k \in {0} |-> x0])
      BY DEF Climbs
    <3> QED
      BY <2>1, <3>1
  <2>3. m - 1 \in 0 .. n /\ m - 1 \notin bad /\ m \in 1 .. n
    <3>1. m \in 0 .. n
      BY <2>1
    <3>2. m - 1 < m /\ m - 1 \in 0 .. n /\ m \in 1 .. n
      BY <2>2, <3>1
    <3>3. \A j \in bad : m <= j
      BY <2>1
    <3> HIDE DEF bad
    <3>4. m - 1 \notin bad
      BY <3>1, <3>2, <3>3
    <3> QED
      BY <3>2, <3>4
  <2>4. PICK f : Climbs(m - 1, X, x0, up, next, f)
    BY <2>3
  <2>5. up[m] \in 0 .. m - 1 /\ f[up[m]] \in X /\ next[m][f[up[m]]] \in X
    BY <2>3, <2>4 DEF Climbs
  <2> DEFINE g == [k \in 0 .. m |-> IF k = m THEN next[m][f[up[m]]] ELSE f[k]]
  <2>6. g \in [0 .. m -> X] /\ \A k \in 0 .. m - 1 : g[k] = f[k]
    BY <2>3, <2>4, <2>5 DEF Climbs
  <2>7. g[m] = next[m][g[up[m]]]
    BY <2>3, <2>5, <2>6
  <2> HIDE DEF g
  <2>8. ASSUME NEW k \in 1 .. m PROVE g[k] = next[k][g[up[k]]]
    <3>1. k = m \/ (k \in 1 .. m - 1 /\ k \in 0 .. m - 1 /\ k \in 1 .. n)
      BY <2>3
    <3>2. CASE k \in 1 .. m - 1
      <4>1. up[k] \in 0 .. m - 1
        BY <2>3, <3>1, <3>2
      <4> QED
        BY <2>4, <2>6, <3>1, <3>2, <4>1 DEF Climbs
    <3> QED
      BY <2>7, <3>1, <3>2
  <2>9. g[0] = x0
    BY <2>3, <2>4, <2>6 DEF Climbs
  <2>10. Climbs(m, X, x0, up, next, g)
    BY <2>6, <2>8, <2>9 DEF Climbs
  <2> QED
    BY <2>1, <2>10
<1>2. n \in 0 .. n
  OBVIOUS
<1>3. n \notin bad
  <2> HIDE DEF bad
  <2> QED
    BY <1>1
<1> QED
  BY <1>2, <1>3

\* The parents of a heap, as such a way up.
LEMMA ParentsClimb ==
  ASSUME NEW h, IsHeap(h)
  PROVE  /\ Len(h) \in Nat /\ DOMAIN h = 1 .. Len(h) /\ Root \in DOMAIN h
         /\ \A j \in 1 .. Len(h) : h[j].parent \in 0 .. j - 1 /\ (h[j].parent = Null <=> j = Root)
<1>1. /\ Len(h) \in Nat \ {0} /\ DOMAIN h = 1 .. Len(h) /\ h[Root].parent = Null
      /\ \A j \in DOMAIN h : j # Root => h[j].parent \in 1 .. j - 1
  BY DEF IsHeap
<1> QED
  BY <1>1 DEF Root, Null
-----------------------------------------------------------------------------
(***************************************************************************)
(* The path of an inode.                                                    *)
(***************************************************************************)
IsPathOf(h, path) ==
  path = [j \in {Null} \cup DOMAIN h |->
            IF j = Null \/ h[j].parent = Null THEN RootPath
            ELSE Append(path[h[j].parent], h[j].name)]

LEMMA PathOfExists ==
  ASSUME NEW h, IsHeap(h)
  PROVE  \E path : IsPathOf(h, path)
<1> DEFINE n == Len(h)
           S == {h[j].name : j \in DOMAIN h}
           X == Seq(S)
           up == [j \in 1 .. n |-> h[j].parent]
           next == [j \in 1 .. n |-> [x \in X |->
                      IF h[j].parent = Null THEN RootPath ELSE Append(x, h[j].name)]]
<1>1. /\ n \in Nat /\ DOMAIN h = 1 .. n
      /\ \A j \in 1 .. n : h[j].parent \in 0 .. j - 1
  BY ParentsClimb
<1>2. RootPath \in X
  BY DEF RootPath
<1>3. next \in [1 .. n -> [X -> X]]
  <2> SUFFICES ASSUME NEW j \in 1 .. n, NEW x \in X
               PROVE  (IF h[j].parent = Null THEN RootPath ELSE Append(x, h[j].name)) \in X
    OBVIOUS
  <2>1. h[j].name \in S
    BY <1>1
  <2> QED
    BY <1>2, <2>1, AppendProperties
<1>4. \A j \in 1 .. n : up[j] \in 0 .. j - 1
  BY <1>1
<1>5. \A j \in 1 .. n : \A x \in X :
        next[j][x] = IF h[j].parent = Null THEN RootPath ELSE Append(x, h[j].name)
  OBVIOUS
<1>6. \A j \in 1 .. n : up[j] = h[j].parent
  OBVIOUS
<1> HIDE DEF next, up, X, n
<1>7. PICK f : Climbs(n, X, RootPath, up, next, f)
  BY <1>1, <1>2, <1>3, <1>4, ClimbExists
<1>8. f \in [0 .. n -> X] /\ f[0] = RootPath /\ \A j \in 1 .. n : f[j] = next[j][f[up[j]]]
  BY <1>7 DEF Climbs
<1>9. {Null} \cup DOMAIN h = 0 .. n
  BY <1>1 DEF Null
<1>10. ASSUME NEW j \in 0 .. n
       PROVE  f[j] = IF j = Null \/ h[j].parent = Null THEN RootPath
                     ELSE Append(f[h[j].parent], h[j].name)
  <2>1. CASE j = 0
    BY <1>8, <2>1 DEF Null
  <2>2. CASE j # 0
    <3>1. j \in 1 .. n /\ h[j].parent \in 0 .. n /\ j # Null
      BY <1>1, <2>2 DEF Null
    <3>2. f[h[j].parent] \in X /\ f[j] = next[j][f[h[j].parent]]
      BY <1>6, <1>8, <3>1
    <3> QED
      BY <1>5, <3>1, <3>2
  <2> QED
    BY <2>1, <2>2
<1>11. f = [j \in 0 .. n |-> IF j = Null \/ h[j].parent = Null THEN RootPath
                             ELSE Append(f[h[j].parent], h[j].name)]
  BY <1>8, <1>10
<1> QED
  BY <1>9, <1>11 DEF IsPathOf

\* It is that of its parent, and its name.
LEMMA PathOfIs ==
  ASSUME NEW h, IsHeap(h), NEW i \in DOMAIN h
  PROVE  PathOf(h, i) = IF i = Root THEN RootPath ELSE Append(PathOf(h, h[i].parent), h[i].name)
<1> DEFINE path == CHOOSE path : IsPathOf(h, path)
<1>1. IsPathOf(h, path)
  BY PathOfExists
<1>2. \A j : PathOf(h, j) = path[j]
  BY DEF PathOf, IsPathOf
<1> HIDE DEF path
<1>3. /\ Len(h) \in Nat /\ DOMAIN h = 1 .. Len(h) /\ i # Null
      /\ h[i].parent = Null <=> i = Root
  BY ParentsClimb DEF Null
<1> QED
  BY <1>1, <1>2, <1>3 DEF IsPathOf
\* It is a path.
LEMMA PathOfIsSeq ==
  ASSUME NEW h, IsHeap(h), NEW S, \A j \in DOMAIN h : h[j].name \in S
  PROVE  \A i \in DOMAIN h : PathOf(h, i) \in Seq(S)
<1> DEFINE bad == {i \in DOMAIN h : PathOf(h, i) \notin Seq(S)}
<1>1. ASSUME bad # {} PROVE FALSE
  <2> DEFINE i == First(bad)
  <2>1. DOMAIN h = 1 .. Len(h) /\ bad \in SUBSET Nat
    BY ParentsClimb
  <2>2. i \in bad /\ \A j \in bad : i <= j
    <3> HIDE DEF bad
    <3> QED
      BY <1>1, <2>1, FirstExists
  <2> HIDE DEF i
  <2>3. i \in DOMAIN h /\ PathOf(h, i) \notin Seq(S)
    BY <2>2
  <2>4. i # Root
    <3>1. RootPath \in Seq(S)
      BY DEF RootPath
    <3> QED
      BY <2>3, <3>1, PathOfIs
  <2>5. h[i].parent \in DOMAIN h /\ h[i].parent < i /\ h[i].parent \in Nat /\ i \in Nat
    BY <2>1, <2>3, <2>4, ParentsClimb DEF Null
  <2>6. PathOf(h, h[i].parent) \in Seq(S)
    BY <2>2, <2>5
  <2>7. PathOf(h, i) = Append(PathOf(h, h[i].parent), h[i].name) /\ h[i].name \in S
    BY <2>3, <2>4, PathOfIs
  <2>8. Append(PathOf(h, h[i].parent), h[i].name) \in Seq(S)
    BY <2>6, <2>7, AppendProperties
  <2> QED
    BY <2>3, <2>7, <2>8
<1> QED
  BY <1>1

\* Only the root's is that of the root.
LEMMA RootAlone ==
  ASSUME NEW h, IsHeap(h), NEW i \in DOMAIN h, PathOf(h, i) = RootPath
  PROVE  i = Root
<1> DEFINE S == {h[j].name : j \in DOMAIN h}
<1> SUFFICES ASSUME i # Root PROVE FALSE
  OBVIOUS
<1>1. h[i].parent \in DOMAIN h
  BY ParentsClimb DEF Null
<1>2. \A j \in DOMAIN h : h[j].name \in S
  OBVIOUS
<1>3. PathOf(h, h[i].parent) \in Seq(S) /\ h[i].name \in S
  BY <1>1, <1>2, PathOfIsSeq
<1>4. PathOf(h, i) = Append(PathOf(h, h[i].parent), h[i].name)
  BY PathOfIs
<1> HIDE DEF S
<1> QED
  BY <1>3, <1>4, AppendProperties DEF RootPath

\* The inodes of h have in g the parents and the names they have in h.
Kept(h, g) ==
  /\ DOMAIN h \subseteq DOMAIN g
  /\ \A j \in DOMAIN h : g[j].parent = h[j].parent /\ g[j].name = h[j].name

\* So they keep their paths.
LEMMA PathOfStays ==
  ASSUME NEW h, IsHeap(h), NEW g, IsHeap(g), Kept(h, g)
  PROVE  \A i \in DOMAIN h : PathOf(g, i) = PathOf(h, i)
<1> DEFINE bad == {i \in DOMAIN h : PathOf(g, i) # PathOf(h, i)}
<1>1. ASSUME bad # {} PROVE FALSE
  <2> DEFINE i == First(bad)
  <2>1. DOMAIN h = 1 .. Len(h) /\ bad \in SUBSET Nat
    BY ParentsClimb
  <2>2. i \in bad /\ \A j \in bad : i <= j
    <3> HIDE DEF bad
    <3> QED
      BY <1>1, <2>1, FirstExists
  <2> HIDE DEF i
  <2>3. i \in DOMAIN h /\ i \in DOMAIN g /\ PathOf(g, i) # PathOf(h, i)
    BY <2>2 DEF Kept
  <2>4. i # Root
    BY <2>3, PathOfIs
  <2>5. h[i].parent \in DOMAIN h /\ h[i].parent < i /\ h[i].parent \in Nat /\ i \in Nat
    BY <2>1, <2>3, <2>4, ParentsClimb DEF Null
  <2>6. PathOf(g, h[i].parent) = PathOf(h, h[i].parent)
    BY <2>2, <2>5
  <2>7. /\ PathOf(h, i) = Append(PathOf(h, h[i].parent), h[i].name)
        /\ PathOf(g, i) = Append(PathOf(g, g[i].parent), g[i].name)
    BY <2>3, <2>4, PathOfIs
  <2> QED
    BY <2>3, <2>6, <2>7 DEF Kept
<1> QED
  BY <1>1

\* A prefix is the one before it and one more name.
LEMMA PrefixStep ==
  ASSUME NEW S, NEW p \in Seq(S), NEW k \in 1 .. Len(p)
  PROVE  SubSeq(p, 1, k) = Append(SubSeq(p, 1, k - 1), p[k])
<1>1. Len(p) \in Nat /\ p[k] \in S /\ k \in Nat /\ k - 1 \in Int /\ \A l \in 1 .. k - 1 : p[l] \in S
  BY LenProperties
<1>2. SubSeq(p, 1, k) = SubSeq(p, 1, k - 1) \o << p[k] >>
  <2>1. 1 \in 1 .. Len(p) /\ k \in 1 .. Len(p)
    BY <1>1
  <2> QED
    BY <2>1, SubSeqRecursiveSecond
<1>3. SubSeq(p, 1, k - 1) \in Seq(S)
  BY <1>1, SubSeqProperties
<1> QED
  BY <1>1, <1>2, <1>3, AppendIsConcat

\* at is what a walk of n names reaches, and pre the paths it walks.
Passes(h, n, p, at, pre) ==
  /\ at[0] = Root /\ pre[0] = RootPath
  /\ \A l \in 1 .. n : /\ at[l] = IF at[l - 1] = Null THEN Null ELSE GetSub(h, at[l - 1], p[l])
                       /\ pre[l] = Append(pre[l - 1], p[l])
  /\ \A l \in 0 .. n : at[l] \in Sound(h) \cup {Null}

\* The inodes of a walk over names none of which is empty have the paths walked.
LEMMA WalkHasPaths ==
  ASSUME NEW h, HeapIInv(h), NEW n \in Nat, NEW p, NEW at, NEW pre,
         Passes(h, n, p, at, pre)
  PROVE  \A k \in 0 .. n : at[k] # Null => PathOf(h, at[k]) = pre[k]
<1> DEFINE bad == {k \in 0 .. n : at[k] # Null /\ PathOf(h, at[k]) # pre[k]}
<1>1. IsHeap(h)
  BY DEF HeapIInv
<1> USE DEF Passes
<1>2. ASSUME bad # {} PROVE FALSE
  <2> DEFINE k == First(bad)
  <2>1. k \in bad /\ \A j \in bad : k <= j
    <3>1. bad \in SUBSET Nat
      OBVIOUS
    <3> HIDE DEF bad
    <3> QED
      BY <1>2, <3>1, FirstExists
  <2> HIDE DEF k
  <2>2. k \in 0 .. n /\ at[k] # Null /\ PathOf(h, at[k]) # pre[k]
    BY <2>1
  <2>3. k # 0
    <3> SUFFICES ASSUME k = 0 PROVE FALSE
      OBVIOUS
    <3>1. at[k] = Root /\ Root \in DOMAIN h
      BY <1>1, <2>2, ParentsClimb
    <3> QED
      BY <1>1, <2>2, <3>1, PathOfIs
  <2>4. k \in 1 .. n /\ k - 1 \in 0 .. n /\ k - 1 < k
    BY <2>2, <2>3
  <2> DEFINE i == at[k - 1]
             j == at[k]
  <2>5. i # Null /\ j = GetSub(h, i, p[k])
    BY <2>2, <2>4
  <2>6. i \in DOMAIN h
    BY <2>4, <2>5 DEF Sound
  <2>7. j \in h[i].entries /\ j \in DOMAIN h /\ h[j].name = p[k]
    <3> DEFINE s == GetSub(h, i, p[k])
    <3>1. /\ s \in h[i].entries \cup {Null} /\ s \in DOMAIN h \cup {Null}
          /\ s # Null => h[s].name = p[k]
      BY <1>1, <2>6, GetSubIs
    <3> QED
      BY <2>2, <2>5, <3>1
  <2>8. h[j].parent = i /\ j # Root
    <3>1. h[j].parent = i
      BY <2>6, <2>7 DEF HeapIInv, IsTree
    <3>2. h[Root].parent = Null
      BY <1>1 DEF IsHeap
    <3> QED
      BY <2>5, <3>1, <3>2
  <2>9. PathOf(h, j) = Append(PathOf(h, i), p[k])
    BY <1>1, <2>7, <2>8, PathOfIs
  <2>10. PathOf(h, i) = pre[k - 1]
    BY <2>1, <2>2, <2>4, <2>5
  <2> QED
    BY <2>2, <2>4, <2>9, <2>10
<1> QED
  BY <1>2

\* A path without an empty name.
Plain(p) == \A i \in DOMAIN p : p[i] # ""

\* A path that is looked up is that of the inode that is found, if no name of
\* it is empty.
LEMMA LookupHasPath ==
  ASSUME NEW h, HeapIInv(h), NEW S, NEW p \in Seq(S), Plain(p),
         Lookup(h, p) # Null
  PROVE  PathOf(h, Lookup(h, p)) = p
<1>1. Len(p) \in Nat
  BY LenProperties
<1>2. PICK at : IsWalk(h, p, at) /\ Lookup(h, p) = at[Len(p)]
  BY <1>1, LookupWalks
<1>3. \A l \in 0 .. Len(p) : at[l] \in Sound(h) \cup {Null}
  BY <1>1, <1>2, WalkIsSound
<1>4. PICK n : n = Len(p)
  OBVIOUS
<1>5. n = Len(p) /\ n \in Nat
  BY <1>1, <1>4
<1> DEFINE pre == [k \in 0 .. n |-> SubSeq(p, 1, k)]
<1>6. \A l \in 1 .. n : SubSeq(p, 1, l) = Append(SubSeq(p, 1, l - 1), p[l])
  BY <1>5, PrefixStep
<1>7. at[0] = Root /\ \A l \in 1 .. n : at[l] = IF at[l - 1] = Null THEN Null ELSE GetSub(h, at[l - 1], p[l])
  <2>1. 0 \in 0 .. n /\ \A l \in 1 .. n : l \in 0 .. n /\ l # 0
    BY <1>5
  <2>2. IsWalk(h, p, at)
    BY <1>2
  <2>3. at[0] = Root
    BY <1>5, <2>1, <2>2, Zenon DEF IsWalk
  <2>4. ASSUME NEW l \in 1 .. n PROVE at[l] = IF at[l - 1] = Null THEN Null ELSE GetSub(h, at[l - 1], p[l])
    <3>1. l \in 0 .. Len(p) /\ l # 0 /\ l \in DOMAIN p
      BY <1>5, <2>1, LenProperties
    <3>2. p[l] # ""
      BY <3>1, Zenon DEF Plain
    <3> QED
      BY <2>2, <3>1, <3>2, Zenon DEF IsWalk
  <2> QED
    BY <2>3, <2>4
<1>8. at[0] = Root /\ pre[0] = RootPath
  <2>1. SubSeq(p, 1, 0) = << >>
    BY SubSeqEmpty
  <2>2. 0 \in 0 .. n
    BY <1>5
  <2> QED
    BY <1>7, <2>1, <2>2 DEF RootPath
<1>9. \A l \in 1 .. n :
        /\ at[l] = IF at[l - 1] = Null THEN Null ELSE GetSub(h, at[l - 1], p[l])
        /\ pre[l] = Append(pre[l - 1], p[l])
  <2> TAKE l \in 1 .. n
  <2>1. l \in 0 .. n /\ l - 1 \in 0 .. n /\ l # 0
    BY <1>5
  <2>2. pre[l] = SubSeq(p, 1, l) /\ pre[l - 1] = SubSeq(p, 1, l - 1)
    BY <2>1
  <2> QED
    BY <1>6, <1>7, <2>1, <2>2
<1>10. \A l \in 0 .. n : at[l] \in Sound(h) \cup {Null}
  BY <1>3, <1>5
<1>11. n \in 0 .. n /\ pre[n] = p /\ Lookup(h, p) = at[n]
  <2>1. SubSeq(p, 1, Len(p)) = p
    BY SubSeqFull
  <2> QED
    BY <1>2, <1>5, <2>1
<1> HIDE DEF pre
<1>12. Passes(h, n, p, at, pre)
  BY <1>8, <1>9, <1>10 DEF Passes
<1>13. \A k \in 0 .. n : at[k] # Null => PathOf(h, at[k]) = pre[k]
  BY <1>5, <1>12, WalkHasPaths
<1> QED
  BY <1>11, <1>13
\* A path without an empty name is its directory and its last name.
LEMMA DirAndBase ==
  ASSUME NEW S, NEW p \in Seq(S), Plain(p), p # RootPath
  PROVE  Append(DirName(p), BaseName(p)) = p
<1> DEFINE front == SubSeq(p, 1, Len(p) - 1)
<1>1. Len(p) \in Nat /\ DOMAIN p = 1 .. Len(p) /\ Len(p) # 0
  BY LenProperties, EmptySeq DEF RootPath
<1>2. Len(p) \in 1 .. Len(p)
  BY <1>1
<1>3. SubSeq(p, 1, Len(p)) = Append(front, p[Len(p)])
  BY <1>2, PrefixStep
<1>4. SubSeq(p, 1, Len(p)) = p
  BY SubSeqFull
<1>5. BaseName(p) = p[Len(p)]
  BY DEF BaseName
<1>6. ASSUME front = <<"">> PROVE FALSE
  <2>1. \A l \in 1 .. Len(p) - 1 : l \in 1 .. Len(p)
    BY <1>1
  <2>2. \A l \in 1 .. Len(p) - 1 : p[l] \in S
    BY <1>1, <2>1
  <2>3. /\ front \in Seq(S) /\ Len(front) = IF 1 <= Len(p) - 1 THEN Len(p) - 1 - 1 + 1 ELSE 0
        /\ \A i \in 1 .. Len(p) - 1 - 1 + 1 : front[i] = p[1 + i - 1]
    BY <1>1, <2>2, SubSeqProperties
  <2> HIDE DEF front
  <2>4. front[1] = ""
    BY <1>6, Zenon
  <2>0. Len(front) = 1
    BY <1>6, Zenon
  <2>5. 1 <= Len(p) - 1
    <3>1. Len(front) = IF 1 <= Len(p) - 1 THEN Len(p) - 1 - 1 + 1 ELSE 0
      BY <2>3
    <3>2. CASE ~(1 <= Len(p) - 1)
      <4>1. Len(front) = 0
        BY <3>1, <3>2
      <4> QED
        BY <2>0, <4>1
    <3> QED
      BY <3>2
  <2>6. front[1] = p[1] /\ 1 \in DOMAIN p
    BY <1>1, <2>3, <2>5
  <2> QED
    BY <2>4, <2>6, Zenon DEF Plain
<1>7. DirName(p) = front
  BY <1>6, Zenon DEF DirName
<1> QED
  BY <1>3, <1>4, <1>5, <1>7

\* A new entry has the path of the inode it was added to, and its name.
LEMMA NewHasPath ==
  ASSUME NEW h, HeapIInv(h), NEW i \in DOMAIN h, NEW n, NEW dir \in BOOLEAN, NEW c
  PROVE  LET g == AddSub(h, i, n, dir, c)
         IN PathOf(g, NextInode(h)) = Append(PathOf(h, i), n)
<1> DEFINE g == AddSub(h, i, n, dir, c)
           N == NextInode(h)
<1>1. Grows(h, g, i, n, dir) /\ IsHeap(h)
  BY AddSubGrows DEF HeapIInv
<1> HIDE DEF g
<1>2. HeapIInv(g)
  BY <1>1, GrowthIs
<1>3. /\ Len(h) \in Nat \ {0} /\ DOMAIN h = 1 .. Len(h) /\ DOMAIN g = 1 .. N /\ N = Len(h) + 1
      /\ g[N].name = n /\ g[N].parent = i
      /\ \A j \in DOMAIN h : g[j].name = h[j].name /\ g[j].parent = h[j].parent
  BY <1>1 DEF Grows, IsHeap, IsNew, SameInode, NextInode
<1> HIDE DEF N
<1>4. N \in DOMAIN g /\ N # Root /\ Kept(h, g)
  BY <1>3 DEF Kept, Root
<1>5. PathOf(g, N) = Append(PathOf(g, i), n)
  BY <1>2, <1>3, <1>4, PathOfIs DEF HeapIInv
<1>6. PathOf(g, i) = PathOf(h, i)
  BY <1>1, <1>2, <1>4, PathOfStays DEF HeapIInv
<1> QED
  BY <1>5, <1>6 DEF g, N

\* Every inode is what is found by its path.
EachIsFound(h) == \A j \in DOMAIN h : Lookup(h, PathOf(h, j)) = j

\* Nothing was deleted only if every inode is still an entry of its parent.
AllListed(h) ==
  \/ \E j \in DOMAIN h : ~h[j].alive
  \/ \A j \in DOMAIN h : j # Root => j \in h[h[j].parent].entries

\* The root alone is such a heap.
LEMMA NewIsListed == ASSUME NEW content PROVE AllListed(NewHeap(content))
BY DEF AllListed, NewHeap, Root

\* An addition keeps it so: the new inode is listed.
LEMMA GrowthKeepsListed ==
  ASSUME NEW h, HeapIInv(h), AllListed(h), NEW i \in DOMAIN h, NEW n, NEW dir, NEW g, Grows(h, g, i, n, dir)
  PROVE  AllListed(g)
<1> DEFINE N == Len(h) + 1
<1>1. /\ Len(h) \in Nat /\ DOMAIN h = 1 .. Len(h) /\ DOMAIN g = 1 .. N /\ N \notin DOMAIN h
      /\ \A j \in DOMAIN h : j # Root => h[j].parent \in DOMAIN h
      /\ g[N].parent = i
      /\ \A j \in DOMAIN h : /\ g[j].parent = h[j].parent /\ g[j].alive = h[j].alive
                             /\ g[j].entries = IF j = i THEN h[j].entries \cup {N} ELSE h[j].entries
  <2>1. \A j \in DOMAIN h : j # Root => h[j].parent \in DOMAIN h
    BY ParentsClimb DEF HeapIInv, Null
  <2>2. Len(h) \in Nat /\ DOMAIN h = 1 .. Len(h)
    BY DEF HeapIInv, IsHeap
  <2>3. N \notin DOMAIN h
    BY <2>2
  <2>4. /\ DOMAIN g = 1 .. N /\ g[N].parent = i
        /\ \A j \in DOMAIN h : /\ g[j].parent = h[j].parent /\ g[j].alive = h[j].alive
                               /\ g[j].entries = IF j = i THEN h[j].entries \cup {N} ELSE h[j].entries
    BY DEF Grows, IsNew, SameInode
  <2> QED
    BY <2>1, <2>2, <2>3, <2>4
<1>2. \A j \in DOMAIN g : j \in DOMAIN h \/ j = N
  BY <1>1
<1>3. \A j \in DOMAIN h : j \in DOMAIN g
  BY <1>1
<1> HIDE DEF N
<1>4. CASE \E j \in DOMAIN h : ~h[j].alive
  <2>1. PICK j \in DOMAIN h : ~h[j].alive
    BY <1>4
  <2>2. j \in DOMAIN g /\ g[j].alive = h[j].alive
    BY <1>1, <1>3
  <2>3. ~g[j].alive
    BY <2>1, <2>2, Zenon
  <2> QED
    BY <2>2, <2>3, Zenon DEF AllListed
<1>5. CASE \A j \in DOMAIN h : j # Root => j \in h[h[j].parent].entries
  <2>1. ASSUME NEW j \in DOMAIN g, j # Root PROVE j \in g[g[j].parent].entries
    <3>1. CASE j \in DOMAIN h
      BY <1>1, <1>5, <2>1, <3>1
    <3>2. CASE j = N
      BY <1>1, <3>2
    <3> QED
      BY <1>2, <3>1, <3>2
  <2> QED
    BY <2>1 DEF AllListed
<1> QED
  BY <1>4, <1>5 DEF AllListed

\* A removal leaves an inode that is not alive, unless it is one of the root.
LEMMA DeleteKeepsListed ==
  ASSUME NEW h, HeapIInv(h), AllListed(h), NEW i \in DOMAIN h
  PROVE  AllListed(DeleteMyself(h, i))
<1> DEFINE g == DeleteMyself(h, i)
<1>1. CASE h[i].parent = Null
  BY <1>1 DEF DeleteMyself
<1>2. CASE h[i].parent # Null
  <2>1. Shrinks(h, g, i)
    BY <1>2, DeleteShrinks DEF HeapIInv
  <2> HIDE DEF g
  <2>2. i \in DOMAIN g /\ g[i].alive = (h[i].alive /\ i # i)
    BY <2>1 DEF Shrinks
  <2>3. ~g[i].alive
    BY <2>2, Zenon
  <2>4. AllListed(g)
    BY <2>2, <2>3, Zenon DEF AllListed
  <2> QED
    BY <2>4 DEF g
<1> QED
  BY <1>1, <1>2

\* Writing a content changes nothing of it.
LEMMA WriteKeepsListed ==
  ASSUME NEW h, HeapIInv(h), AllListed(h), NEW i \in DOMAIN h, NEW d, NEW g,
         g = [h EXCEPT ![i].content = d]
  PROVE  AllListed(g)
<1>1. DOMAIN g = DOMAIN h /\ \A j \in DOMAIN h : j # Root => h[j].parent \in DOMAIN h
  BY ParentsClimb DEF HeapIInv, Null
<1>2. ASSUME NEW j \in DOMAIN h
      PROVE  g[j].parent = h[j].parent /\ g[j].alive = h[j].alive /\ g[j].entries = h[j].entries
  <2>1. InodeFields \subseteq DOMAIN h[j]
    BY DEF HeapIInv, IsHeap, IsInode
  <2> QED
    BY <2>1 DEF InodeFields
<1>3. CASE \E j \in DOMAIN h : ~h[j].alive
  BY <1>1, <1>2, <1>3, Zenon DEF AllListed
<1>4. CASE \A j \in DOMAIN h : j # Root => j \in h[h[j].parent].entries
  BY <1>1, <1>2, <1>4 DEF AllListed
<1> QED
  BY <1>3, <1>4 DEF AllListed

AllAlive(h) == \A j \in DOMAIN h : h[j].alive
NamesDiffer(h) == \A i \in DOMAIN h : \A j, k \in h[i].entries : h[j].name = h[k].name => j = k
AllNamed(h) == \A j \in DOMAIN h : h[j].name # ""

\* Where nothing was deleted and no directory has two entries of one name,
\* every inode is what is found by its path.
LEMMA ListedAreFound ==
  ASSUME NEW h, HeapIInv(h), AllListed(h), AllAlive(h), NamesDiffer(h), AllNamed(h)
  PROVE  EachIsFound(h)
<1> DEFINE S == {h[k].name : k \in DOMAIN h}
           Found(j) == Lookup(h, PathOf(h, j)) = j
           bad == {j \in DOMAIN h : ~Found(j)}
<1> HIDE DEF Found
<1>1. \A j \in DOMAIN h : j # Root => j \in h[h[j].parent].entries
  BY Zenon DEF AllListed, AllAlive
<1>2. /\ IsHeap(h) /\ DOMAIN h \subseteq Nat /\ Null \notin DOMAIN h
      /\ \A j \in DOMAIN h : j # Root => h[j].parent \in DOMAIN h /\ h[j].parent < j
  <2>1. IsHeap(h) /\ DOMAIN h = 1 .. Len(h) /\ Len(h) \in Nat
    BY DEF HeapIInv, IsHeap
  <2>2. ASSUME NEW j \in DOMAIN h, j # Root PROVE h[j].parent \in DOMAIN h /\ h[j].parent < j
    <3>1. h[j].parent \in 1 .. j - 1
      BY <2>1, <2>2 DEF IsHeap
    <3>2. j \in 1 .. Len(h)
      BY <2>1
    <3> QED
      BY <2>1, <3>1, <3>2
  <2>3. DOMAIN h \subseteq Nat /\ Null \notin DOMAIN h
    BY <2>1 DEF Null
  <2> QED
    BY <2>1, <2>2, <2>3
<1>3. \A j \in DOMAIN h : PathOf(h, j) \in Seq(S) /\ h[j].name \in S
  <2>1. \A j \in DOMAIN h : h[j].name \in S
    OBVIOUS
  <2> HIDE DEF S
  <2> QED
    BY <1>2, <2>1, PathOfIsSeq
<1> HIDE DEF S
<1>4. ASSUME bad # {} PROVE FALSE
  <2>1. bad \in SUBSET Nat
    BY <1>2
  <2>2. PICK j : j \in bad /\ \A k \in bad : j <= k
    <3> HIDE DEF bad
    <3> QED
      BY <1>4, <2>1, FirstExists
  <2>3. j \in DOMAIN h /\ j \in Nat /\ Lookup(h, PathOf(h, j)) # j
    BY <1>2, <2>2 DEF Found
  <2>4. j # Root
    <3>1. Len(RootPath) = 0
      BY DEF RootPath
    <3> QED
      BY <1>2, <2>3, <3>1, PathOfIs, LookupRoot
  <2>5. PICK i : i = h[j].parent
    OBVIOUS
  <2>6. i \in DOMAIN h /\ i < j /\ i # Null
    BY <1>2, <2>3, <2>4, <2>5
  <2>7. Lookup(h, PathOf(h, i)) = i
    <3>1. i \notin bad
      <4>1. i \in Nat /\ j \in Nat /\ i < j
        BY <1>2, <2>3, <2>6
      <4> HIDE DEF bad
      <4> QED
        BY <2>2, <4>1
    <3> QED
      BY <2>6, <3>1 DEF Found
  <2>80. PICK p, n : p = PathOf(h, i) /\ n = h[j].name
    OBVIOUS
  <2>81. PICK q : q = Append(p, n)
    OBVIOUS
  <2>9. PathOf(h, j) = q /\ p \in Seq(S) /\ n \in S /\ n # ""
    <3>1. n # ""
      BY <2>3, <2>80, Zenon DEF AllNamed
    <3> QED
      BY <1>2, <1>3, <2>3, <2>4, <2>5, <2>6, <2>80, <2>81, <3>1, PathOfIs
  <2>10. /\ Len(p) \in Nat /\ Len(q) = Len(p) + 1 /\ q[Len(p) + 1] = n
         /\ \A k \in 1 .. Len(p) : q[k] = p[k]
    <3>1. p \in Seq(S) /\ n \in S
      BY <2>9
    <3> QED
      BY <2>81, <3>1, LenProperties, AppendProperties
  <2>11. Lookup(h, q) = IF q[Len(q)] = "" THEN Lookup(h, p)
                        ELSE IF Lookup(h, p) = Null THEN Null
                        ELSE GetSub(h, Lookup(h, p), q[Len(q)])
    BY <2>10, LookupStep
  <2>12. q[Len(q)] = n
    BY <2>10
  <2>13. Lookup(h, q) = GetSub(h, i, n)
    BY <2>6, <2>7, <2>80, <2>9, <2>11, <2>12, Zenon
  <2>14. GetSub(h, i, n) = j
    <3>1. j \in Named(h, i, n)
      BY <1>1, <2>3, <2>4, <2>5, <2>80 DEF Named
    <3>2. GetSub(h, i, n) \in h[i].entries /\ h[GetSub(h, i, n)].name = n
      BY <1>2, <2>6, <3>1, GetSubIs
    <3>3. j \in h[i].entries /\ h[j].name = n
      BY <3>1 DEF Named
    <3> QED
      BY <2>6, <3>2, <3>3 DEF NamesDiffer
  <2> QED
    BY <2>3, <2>9, <2>13, <2>14
<1> QED
  BY <1>4, Zenon DEF EachIsFound, Found

\* What leaves names, parents and entries alone keeps it so.
LEMMA EachStaysFound ==
  ASSUME NEW h, HeapIInv(h), NEW g, HeapIInv(g), Kept(h, g), EachIsFound(h),
         \A j \in DOMAIN h : \A m : GetSub(h, j, m) # Null => GetSub(g, j, m) = GetSub(h, j, m)
  PROVE  \A j \in DOMAIN h : Lookup(g, PathOf(g, j)) = j
<1> SUFFICES ASSUME NEW j \in DOMAIN h PROVE Lookup(g, PathOf(g, j)) = j
  OBVIOUS
<1> DEFINE S == {h[k].name : k \in DOMAIN h}
           p == PathOf(h, j)
<1>1. PathOf(g, j) = p
  BY PathOfStays DEF HeapIInv
<1>2. Len(p) \in Nat
  <2>1. \A k \in DOMAIN h : h[k].name \in S
    OBVIOUS
  <2> HIDE DEF S
  <2>2. p \in Seq(S)
    BY <2>1, PathOfIsSeq DEF HeapIInv
  <2> QED
    BY <2>2, LenProperties
<1>3. Lookup(h, p) = j /\ j # Null
  BY ParentsClimb DEF EachIsFound, HeapIInv, Null
<1> HIDE DEF p
<1>4. Lookup(g, p) = Lookup(h, p)
  BY <1>2, <1>3, LookupsStay
<1> QED
  BY <1>1, <1>3, <1>4

\* So does a new entry whose name is not there yet.
LEMMA NewIsFound ==
  ASSUME NEW h, HeapIInv(h), EachIsFound(h), NEW i \in DOMAIN h, NEW n, GetSub(h, i, n) = Null,
         NEW dir \in BOOLEAN, NEW c
  PROVE  n # "" => EachIsFound(AddSub(h, i, n, dir, c))
<1> DEFINE S == {h[k].name : k \in DOMAIN h} \cup {n}
           p == PathOf(h, i)
<1>1. PICK g, N : g = AddSub(h, i, n, dir, c) /\ N = NextInode(h)
  OBVIOUS
<1>2. Grows(h, g, i, n, dir) /\ PathOf(g, N) = Append(p, n)
  BY <1>1, AddSubGrows, NewHasPath DEF HeapIInv
<1>3. HeapIInv(g)
  BY <1>2, GrowthIs
<1>4. /\ DOMAIN h = 1 .. Len(h) /\ Len(h) \in Nat /\ DOMAIN g = 1 .. N /\ N = Len(h) + 1
      /\ \A j \in DOMAIN h : g[j].name = h[j].name /\ g[j].parent = h[j].parent
  BY <1>1, <1>2 DEF Grows, HeapIInv, IsHeap, SameInode, NextInode
<1>5. Kept(h, g)
  BY <1>4 DEF Kept
<1>6. \A j \in DOMAIN g : j \in DOMAIN h \/ j = N
  <2>1. DOMAIN h = 1 .. Len(h) /\ Len(h) \in Nat /\ DOMAIN g = 1 .. N /\ N = Len(h) + 1
    BY <1>4
  <2> QED
    BY <2>1
<1>7. /\ \A j \in DOMAIN h : \A m : GetSub(h, j, m) # Null => GetSub(g, j, m) = GetSub(h, j, m)
      /\ GetSub(g, i, n) = N
  <2>1. /\ \A j \in DOMAIN h : \A m : GetSub(h, j, m) # Null => GetSub(g, j, m) = GetSub(h, j, m)
        /\ GetSub(h, i, n) = Null => GetSub(g, i, n) = NextInode(h)
    BY <1>2, GrowthKeepsSubs
  <2> QED
    BY <1>1, <2>1
<1>8. \A j \in DOMAIN h : Lookup(g, PathOf(g, j)) = j
  BY <1>3, <1>5, <1>7, EachStaysFound
<1>9. p \in Seq(S) /\ n \in S
  <2>1. \A k \in DOMAIN h : h[k].name \in S
    OBVIOUS
  <2>2. n \in S
    OBVIOUS
  <2> HIDE DEF S
  <2> QED
    BY <2>1, <2>2, PathOfIsSeq DEF HeapIInv
<1>10. PathOf(g, i) = p
  BY <1>3, <1>5, PathOfStays DEF HeapIInv
<1> HIDE DEF S, p
<1>11. PICK q : q = Append(p, n)
  OBVIOUS
<1>12. /\ Len(p) \in Nat /\ Len(q) = Len(p) + 1 /\ q[Len(p) + 1] = n
       /\ \A k \in 1 .. Len(p) : q[k] = p[k]
  BY <1>9, <1>11, LenProperties, AppendProperties
<1>13. Lookup(g, p) = i
  BY <1>8, <1>10
<1>14. i # Null
  BY <1>4 DEF Null
<1>15. n # "" => Lookup(g, q) = N
  <2>1. Lookup(g, q) = IF q[Len(q)] = "" THEN Lookup(g, p)
                       ELSE IF Lookup(g, p) = Null THEN Null
                       ELSE GetSub(g, Lookup(g, p), q[Len(q)])
    BY <1>3, <1>12, LookupStep
  <2>2. q[Len(q)] = n
    BY <1>12
  <2> QED
    BY <1>7, <1>13, <1>14, <2>1, <2>2, Zenon
<1>16. n # "" => EachIsFound(g)
  BY <1>2, <1>6, <1>8, <1>11, <1>15, Zenon DEF EachIsFound
<1> QED
  BY <1>1, <1>16
-----------------------------------------------------------------------------
(***************************************************************************)
(* What comes down from an inode, entry by entry, and what a removal of one *)
(* does to what comes down from the root.                                   *)
(***************************************************************************)
\* d follows entries down from a, through what is ok.
Descends(h, a, ok, d) ==
  d = [j \in DOMAIN h |-> ok[j] /\ (j = a \/ (j > a /\ IsListed(h, j) /\ d[h[j].parent]))]

\* There is such a function: it goes up the parents of what is listed.
LEMMA DescendsExists ==
  ASSUME NEW h, IsHeap(h), NEW a \in Nat, NEW ok \in [DOMAIN h -> BOOLEAN]
  PROVE  \E d : Descends(h, a, ok, d)
<1> DEFINE n == Len(h)
           up == [j \in 1 .. n |-> h[j].parent]
           Step(j, x) == ok[j] /\ (j = a \/ (j > a /\ IsListed(h, j) /\ x))
           next == [j \in 1 .. n |-> [x \in BOOLEAN |-> Step(j, x)]]
<1>1. n \in Nat /\ DOMAIN h = 1 .. n /\ \A j \in 1 .. n : h[j].parent \in 0 .. j - 1
  BY ParentsClimb
<1>2. \A j \in 1 .. n : \A x \in BOOLEAN : Step(j, x) \in BOOLEAN
  OBVIOUS
<1>3. \A j \in 1 .. n : \A x \in BOOLEAN : next[j][x] = Step(j, x)
  OBVIOUS
<1>4. next \in [1 .. n -> [BOOLEAN -> BOOLEAN]]
  BY <1>2
<1>5. \A j \in 1 .. n : up[j] = h[j].parent /\ up[j] \in 0 .. j - 1
  BY <1>1
<1> HIDE DEF next, up, n
<1>6. PICK f : Climbs(n, BOOLEAN, FALSE, up, next, f)
  BY <1>1, <1>4, <1>5, ClimbExists
<1>7. f \in [0 .. n -> BOOLEAN] /\ \A j \in 1 .. n : f[j] = next[j][f[up[j]]]
  BY <1>6 DEF Climbs
<1>8. \A j \in 1 .. n : f[j] = Step(j, f[h[j].parent])
  <2> TAKE j \in 1 .. n
  <2>1. h[j].parent \in 0 .. n
    BY <1>1
  <2> QED
    BY <1>3, <1>5, <1>7, <2>1
<1> DEFINE d == [j \in DOMAIN h |-> f[j]]
<1>9. ASSUME NEW j \in DOMAIN h
      PROVE  d[j] = (ok[j] /\ (j = a \/ (j > a /\ IsListed(h, j) /\ d[h[j].parent])))
  <2>1. d[j] = Step(j, f[h[j].parent])
    BY <1>1, <1>8
  <2>2. CASE IsListed(h, j)
    <3>1. d[h[j].parent] = f[h[j].parent]
      BY <2>2 DEF IsListed
    <3> HIDE DEF d
    <3> QED
      BY <2>1, <3>1
  <2>3. CASE ~IsListed(h, j)
    <3> HIDE DEF d
    <3> QED
      BY <2>1, <2>3
  <2> QED
    BY <2>2, <2>3
<1>10. Descends(h, a, ok, d)
  <2>1. d = [j \in DOMAIN h |-> d[j]]
    OBVIOUS
  <2> HIDE DEF d
  <2> QED
    BY <1>9, <2>1 DEF Descends
<1> QED
  BY <1>10

\* One is below an inode that is the inode, or whose parent is, and lists it.
LEMMA BelowIs ==
  ASSUME NEW h, IsHeap(h), NEW a \in DOMAIN h, NEW i \in DOMAIN h
  PROVE  IsBelow(h, a, i) = (i = a \/ (i > a /\ IsListed(h, i) /\ IsBelow(h, a, h[i].parent)))
<1> DEFINE Is(d) == d = [j \in DOMAIN h |->
                           \/ j = a
                           \/ j > a /\ IsListed(h, j) /\ d[h[j].parent]]
           below == CHOOSE d : Is(d)
           ok == [j \in DOMAIN h |-> TRUE]
<1>1. a \in Nat
  BY ParentsClimb
<1>2. PICK d : Descends(h, a, ok, d)
  BY <1>1, DescendsExists
<1>3. Is(d)
  BY <1>2 DEF Descends
<1>4. Is(below)
  <2> HIDE DEF Is
  <2> QED
    BY <1>3, Zenon
<1>5. \A j : IsBelow(h, a, j) = below[j]
  BY DEF IsBelow
<1> HIDE DEF below
<1>6. below[i] = (i = a \/ (i > a /\ IsListed(h, i) /\ below[h[i].parent]))
  BY <1>4
<1> QED
  BY <1>5, <1>6

\* What the recursion of a removal visits is below the inode it starts from.
LEMMA EmptiedIsBelow ==
  ASSUME NEW h, IsHeap(h), NEW i \in DOMAIN h
  PROVE  \A j \in Emptied(h, i) : j \in DOMAIN h /\ IsBelow(h, i, j)
<1> DEFINE Is(d) == d = [j \in DOMAIN h |->
                           /\ h[j].isDir
                           /\ j = i \/ (j > i /\ IsListed(h, j) /\ d[h[j].parent])]
           visited == CHOOSE d : Is(d)
           ok == [j \in DOMAIN h |-> h[j].isDir]
<1>1. /\ i \in Nat /\ DOMAIN h = 1 .. Len(h)
      /\ \A j \in DOMAIN h : h[j].isDir \in BOOLEAN
  BY ParentsClimb DEF IsHeap, IsInode
<1>2. PICK d : Descends(h, i, ok, d)
  <2>1. ok \in [DOMAIN h -> BOOLEAN]
    BY <1>1
  <2> HIDE DEF ok
  <2> QED
    BY <1>1, <2>1, DescendsExists
<1>3. Is(d)
  BY <1>2 DEF Descends
<1>4. Is(visited)
  <2> HIDE DEF Is
  <2> QED
    BY <1>3, Zenon
<1>5. Emptied(h, i) = {j \in DOMAIN h : visited[j]}
  BY DEF Emptied
<1> HIDE DEF visited
<1>6. \A j \in DOMAIN h : visited[j] => j = i \/ (j > i /\ IsListed(h, j) /\ visited[h[j].parent])
  BY <1>4
<1> DEFINE bad == {j \in Emptied(h, i) : ~IsBelow(h, i, j)}
<1>7. ASSUME bad # {} PROVE FALSE
  <2> DEFINE j == First(bad)
  <2>1. j \in bad /\ \A k \in bad : j <= k
    <3>1. bad \in SUBSET Nat
      BY <1>1, <1>5
    <3> HIDE DEF bad
    <3> QED
      BY <1>7, <3>1, FirstExists
  <2> HIDE DEF j
  <2>2. j \in DOMAIN h /\ visited[j] /\ ~IsBelow(h, i, j)
    BY <1>5, <2>1
  <2>3. j > i /\ IsListed(h, j) /\ visited[h[j].parent]
    BY <1>6, <2>2, BelowIs
  <2>4. h[j].parent \in Emptied(h, i)
    BY <1>5, <2>3 DEF IsListed
  <2>5. h[j].parent < j /\ h[j].parent \in Nat /\ j \in Nat
    BY <1>1, <2>2, ParentsClimb
  <2>6. IsBelow(h, i, h[j].parent)
    BY <2>1, <2>4, <2>5
  <2> QED
    BY <2>2, <2>3, <2>6, BelowIs
<1> QED
  BY <1>5, <1>7

\* What comes down from the root still does when entries are only added.
LEMMA GrowthKeepsReachable ==
  ASSUME NEW h, IsHeap(h), NEW g, IsHeap(g), DOMAIN h \subseteq DOMAIN g,
         \A j \in DOMAIN h : g[j].parent = h[j].parent /\ h[j].entries \subseteq g[j].entries
  PROVE  \A j \in DOMAIN h : Reachable(h, j) => Reachable(g, j)
<1> DEFINE bad == {j \in DOMAIN h : Reachable(h, j) /\ ~Reachable(g, j)}
<1>1. ASSUME bad # {} PROVE FALSE
  <2> DEFINE j == First(bad)
  <2>1. DOMAIN h = 1 .. Len(h) /\ bad \in SUBSET Nat /\ Root \in DOMAIN h /\ Root \in DOMAIN g
    BY ParentsClimb
  <2>2. j \in bad /\ \A k \in bad : j <= k
    <3> HIDE DEF bad
    <3> QED
      BY <1>1, <2>1, FirstExists
  <2> HIDE DEF j
  <2>3. j \in DOMAIN h /\ j \in DOMAIN g /\ Reachable(h, j) /\ ~Reachable(g, j)
    BY <2>2
  <2>4. j # Root
    BY <2>1, <2>3, BelowIs DEF Reachable
  <2>5. j > Root /\ IsListed(h, j) /\ Reachable(h, h[j].parent)
    BY <2>1, <2>3, <2>4, BelowIs DEF Reachable
  <2>6. h[j].parent \in DOMAIN h /\ h[j].parent < j /\ h[j].parent \in Nat /\ j \in Nat
    BY <2>1, <2>3, <2>5, ParentsClimb DEF IsListed
  <2>7. Reachable(g, g[j].parent)
    BY <2>2, <2>3, <2>5, <2>6
  <2>8. IsListed(g, j)
    BY <2>3, <2>5, <2>6 DEF IsListed
  <2> QED
    BY <2>1, <2>3, <2>5, <2>7, <2>8, BelowIs DEF Reachable
<1> QED
  BY <1>1

\* The entries a removal leaves are those there were, but for those of what
\* it visits and for the inode it removes.
LEMMA DeleteLeaves ==
  ASSUME NEW h, IsHeap(h), NEW i, h[i].parent # Null, NEW j \in DOMAIN h,
         NEW k \in h[j].entries, j \notin Emptied(h, i), j = h[i].parent => k # i
  PROVE  k \in DeleteMyself(h, i)[j].entries
<1> DEFINE e == IF j = h[i].parent THEN h[j].entries \ {i} ELSE h[j].entries
<1>1. j \in 1 .. Len(h) /\ "entries" \in DOMAIN h[j]
  BY DEF IsHeap, IsInode, InodeFields
<1>2. DeleteMyself(h, i)[j] = [h[j] EXCEPT !.alive = @ /\ j # i, !.entries = e]
  BY <1>1 DEF DeleteMyself, Deleted
<1>3. k \in e
  OBVIOUS
<1> HIDE DEF e
<1> QED
  BY <1>1, <1>2, <1>3

\* A removal cuts off the inode and what is below it.
LEMMA DeleteCutsOff ==
  ASSUME NEW h, HeapIInv(h), NEW i \in DOMAIN h, h[i].parent # Null
  PROVE  LET g == DeleteMyself(h, i)
         IN \A j \in DOMAIN h : IsBelow(h, i, j) => ~Reachable(g, j)
<1> DEFINE g == DeleteMyself(h, i)
<1>1. IsHeap(h) /\ HeapIInv(g) /\ DOMAIN g = DOMAIN h /\ Shrinks(h, g, i)
  BY DeleteIs, DeleteShrinks DEF HeapIInv
<1> HIDE DEF g
<1>2. \A j \in DOMAIN h :
        /\ g[j].parent = h[j].parent /\ g[j].entries \subseteq h[j].entries
        /\ j = h[i].parent => i \notin g[j].entries
  BY <1>1 DEF Shrinks, SameInode
<1> DEFINE bad == {j \in DOMAIN h : IsBelow(h, i, j) /\ Reachable(g, j)}
<1>3. ASSUME bad # {} PROVE FALSE
  <2> DEFINE j == First(bad)
  <2>1. /\ DOMAIN h = 1 .. Len(h) /\ bad \in SUBSET Nat /\ Root \in DOMAIN h
        /\ h[Root].parent = Null
    BY <1>1, ParentsClimb
  <2>2. j \in bad /\ \A k \in bad : j <= k
    <3> HIDE DEF bad
    <3> QED
      BY <1>3, <2>1, FirstExists
  <2> HIDE DEF j
  <2>3. j \in DOMAIN h /\ IsBelow(h, i, j) /\ Reachable(g, j)
    BY <2>2
  <2>4. j # Root
    <3> SUFFICES ASSUME j = Root PROVE FALSE
      OBVIOUS
    <3>1. i # Root /\ i \in Nat /\ ~(Root > i)
      BY <2>1 DEF Root
    <3> QED
      BY <1>1, <2>1, <2>3, <3>1, BelowIs
  <2>5. IsListed(g, j) /\ Reachable(g, g[j].parent)
    BY <1>1, <2>1, <2>3, <2>4, BelowIs DEF HeapIInv, Reachable
  <2>6. h[j].parent \in DOMAIN h /\ j \in g[h[j].parent].entries /\ Reachable(g, h[j].parent)
    BY <1>1, <1>2, <2>3, <2>5 DEF IsListed
  <2>7. j # i
    BY <1>2, <2>6
  <2>8. IsBelow(h, i, h[j].parent)
    BY <1>1, <2>3, <2>7, BelowIs
  <2>9. h[j].parent < j /\ h[j].parent \in Nat /\ j \in Nat
    BY <1>1, <2>1, <2>3, ParentsClimb
  <2> QED
    BY <2>2, <2>6, <2>8, <2>9
<1> QED
  BY <1>3 DEF g

\* And nothing else.
LEMMA DeleteLeavesTheRest ==
  ASSUME NEW h, HeapIInv(h), NEW i \in DOMAIN h, h[i].parent # Null
  PROVE  LET g == DeleteMyself(h, i)
         IN \A j \in DOMAIN h : Reachable(h, j) /\ ~IsBelow(h, i, j) => Reachable(g, j)
<1> DEFINE g == DeleteMyself(h, i)
<1>1. IsHeap(h) /\ HeapIInv(g) /\ DOMAIN g = DOMAIN h /\ Shrinks(h, g, i)
  BY DeleteIs, DeleteShrinks DEF HeapIInv
<1>2. \A j \in DOMAIN h : \A k \in h[j].entries :
        j \notin Emptied(h, i) /\ (j = h[i].parent => k # i) => k \in g[j].entries
  BY <1>1, DeleteLeaves
<1> HIDE DEF g
<1>3. \A j \in DOMAIN h : g[j].parent = h[j].parent
  BY <1>1 DEF Shrinks, SameInode
<1> DEFINE bad == {j \in DOMAIN h : Reachable(h, j) /\ ~IsBelow(h, i, j) /\ ~Reachable(g, j)}
<1>4. ASSUME bad # {} PROVE FALSE
  <2> DEFINE j == First(bad)
  <2>1. DOMAIN h = 1 .. Len(h) /\ bad \in SUBSET Nat /\ Root \in DOMAIN h
    BY <1>1, ParentsClimb
  <2>2. j \in bad /\ \A k \in bad : j <= k
    <3> HIDE DEF bad
    <3> QED
      BY <1>4, <2>1, FirstExists
  <2> HIDE DEF j
  <2>3. j \in DOMAIN h /\ Reachable(h, j) /\ ~IsBelow(h, i, j) /\ ~Reachable(g, j)
    BY <2>2
  <2>4. j # Root
    BY <1>1, <2>1, <2>3, BelowIs DEF Reachable, HeapIInv
  <2>5. j > Root /\ IsListed(h, j) /\ Reachable(h, h[j].parent)
    BY <1>1, <2>1, <2>3, <2>4, BelowIs DEF Reachable
  <2>6. h[j].parent \in DOMAIN h /\ h[j].parent < j /\ h[j].parent \in Nat /\ j \in Nat
    BY <1>1, <2>1, <2>3, <2>5, ParentsClimb DEF IsListed
  <2>7. ~IsBelow(h, i, h[j].parent)
    <3> SUFFICES ASSUME IsBelow(h, i, h[j].parent) PROVE FALSE
      OBVIOUS
    <3>1. h[j].parent = i \/ h[j].parent > i
      BY <1>1, <2>6, BelowIs
    <3>2. i \in Nat /\ j > i
      BY <2>1, <2>6, <3>1
    <3> QED
      BY <1>1, <2>3, <2>5, <3>2, BelowIs
  <2>8. Reachable(g, h[j].parent)
    BY <2>2, <2>5, <2>6, <2>7
  <2>9. h[j].parent \notin Emptied(h, i)
    BY <1>1, <2>7, EmptiedIsBelow
  <2>10. j # i
    BY <1>1, <2>3, BelowIs
  <2>11. IsListed(g, j)
    BY <1>1, <1>2, <1>3, <2>3, <2>5, <2>6, <2>9, <2>10 DEF IsListed
  <2> QED
    BY <1>1, <1>3, <2>1, <2>3, <2>5, <2>8, <2>11, BelowIs DEF Reachable, HeapIInv
<1> QED
  BY <1>4 DEF g
=============================================================================
