------------------------- MODULE FileSystem_proofs -------------------------
(***************************************************************************)
(* The invariants of FileSystem, for any set of names and contents and any  *)
(* bound on the number of inodes.  They are inductive together: that no     *)
(* entry dangles needs that entries point back, since delete_myself takes   *)
(* the inode out of its parent's entries and of no others.  And that it     *)
(* cuts off what is below the inode it deletes and nothing else.            *)
(***************************************************************************)
EXTENDS FileSystem, Inodes_proofs

\* Of the entries of one name a directory is the first, so it is what get_sub
\* returns: what is inductive of DirectoriesAreNotHidden.
DirectoriesComeFirst ==
  \A i \in DOMAIN heap : \A j, k \in heap[i].entries :
    heap[j].isDir /\ heap[k].name = heap[j].name => j <= k

IInv == TypeOK /\ NoDanglingEntry /\ EntriesPointBack /\ DirectoriesComeFirst

\* The fields of every inode, from the type of the heap.
LEMMA HeapType ==
  ASSUME TypeOK
  PROVE  /\ Len(heap) \in Nat /\ DOMAIN heap = 1 .. Len(heap) /\ Root \in DOMAIN heap
         /\ \A i \in DOMAIN heap :
              /\ heap[i] \in InodeType
              /\ heap[i].name \in Names \cup {"/"} /\ heap[i].isDir \in BOOLEAN
              /\ heap[i].alive \in BOOLEAN /\ heap[i].parent \in Nat
              /\ heap[i].entries \subseteq DOMAIN heap
<1>1. heap \in Seq(InodeType) /\ heap # <<>>
  BY DEF TypeOK
<1>2. Len(heap) \in Nat /\ DOMAIN heap = 1 .. Len(heap) /\ Len(heap) # 0
  BY <1>1
<1>3. \A i \in DOMAIN heap : heap[i] \in InodeType
  BY <1>1
<1>4. \A i \in DOMAIN heap : heap[i].entries \subseteq i + 1 .. Len(heap)
  BY DEF TypeOK
<1>5. \A i \in DOMAIN heap : heap[i].entries \subseteq DOMAIN heap
  <2> TAKE i \in DOMAIN heap
  <2> QED
    BY <1>2, <1>4
<1>6. \A i \in DOMAIN heap :
        /\ heap[i].name \in Names \cup {"/"} /\ heap[i].isDir \in BOOLEAN
        /\ heap[i].alive \in BOOLEAN /\ heap[i].parent \in Nat
  BY <1>3 DEF InodeType
<1> QED
  BY <1>2, <1>3, <1>5, <1>6 DEF Root

\* No name is found exactly if no entry has it: NULL is no inode.
LEMMA GetSubNull ==
  ASSUME TypeOK, NEW i \in DOMAIN heap, NEW n, GetSub(heap, i, n) = Null
  PROVE  Named(heap, i, n) = {}
<1> SUFFICES ASSUME Named(heap, i, n) # {} PROVE FALSE
  OBVIOUS
<1>1. Named(heap, i, n) \subseteq i + 1 .. Len(heap) /\ i \in Nat /\ Len(heap) \in Nat
  BY HeapType DEF TypeOK, Named
<1>2. First(Named(heap, i, n)) \in Named(heap, i, n)
  BY <1>1, FirstExists
<1> QED
  BY <1>1, <1>2 DEF GetSub, Null

\* The inodes add_sub leaves: the old ones with what they had, but for one
\* more entry in the parent, and a new one at the end.
LEMMA AddSubFields ==
  ASSUME TypeOK, NEW i \in DOMAIN heap, NEW n \in Names, NEW dir \in BOOLEAN,
         heap' = AddSub(heap, i, n, dir, NoData)
  PROVE  /\ heap' \in Seq(InodeType)
         /\ DOMAIN heap' = 1 .. Len(heap) + 1 /\ Len(heap') = Len(heap) + 1
         /\ \A j \in DOMAIN heap :
              /\ heap'[j].name = heap[j].name /\ heap'[j].isDir = heap[j].isDir
              /\ heap'[j].parent = heap[j].parent /\ heap'[j].alive = heap[j].alive
              /\ heap'[j].entries = IF j = i THEN heap[j].entries \cup {Len(heap) + 1}
                                    ELSE heap[j].entries
         /\ LET new == heap'[Len(heap) + 1]
            IN /\ new.name = n /\ new.isDir = dir /\ new.parent = i
               /\ new.alive = TRUE /\ new.entries = {}
<1> DEFINE N == Len(heap) + 1
<1>1. Len(heap) \in Nat /\ DOMAIN heap = 1 .. Len(heap) /\ i \in 1 .. Len(heap)
  BY HeapType
<1>2. heap' = [j \in 1 .. N |->
                 IF j = N THEN Inode(n, dir, i, NoData)
                 ELSE [heap[j] EXCEPT !.entries = IF j = i THEN @ \cup {N} ELSE @]]
  BY DEF AddSub, NextInode
<1>3. \A j \in 1 .. Len(heap) : j # N /\ j \in 1 .. N
  BY <1>1
<1>4. \A j \in DOMAIN heap :
        heap'[j] = [heap[j] EXCEPT !.entries = IF j = i THEN @ \cup {N} ELSE @]
  BY <1>1, <1>2, <1>3
<1>5. heap'[N] = Inode(n, dir, i, NoData) /\ N \in 1 .. N
  BY <1>1, <1>2
<1>6. \A j \in DOMAIN heap : heap'[j] \in InodeType
  <2> TAKE j \in DOMAIN heap
  <2> DEFINE e == IF j = i THEN heap[j].entries \cup {N} ELSE heap[j].entries
  <2>1. heap[j] \in InodeType /\ heap'[j] = [heap[j] EXCEPT !.entries = e]
    BY <1>4, HeapType
  <2>2. e \in SUBSET Nat
    BY <1>1, <2>1 DEF InodeType
  <2> HIDE DEF e
  <2> QED
    BY <2>1, <2>2 DEF InodeType
<1>7. heap'[N] \in InodeType
  BY <1>1, <1>5 DEF Inode, InodeType
<1>8. heap' \in Seq(InodeType) /\ DOMAIN heap' = 1 .. N /\ Len(heap') = N
  <2>1. \A j \in 1 .. N : heap'[j] \in InodeType
    BY <1>1, <1>6, <1>7
  <2>2. heap' \in [1 .. N -> InodeType] /\ N \in Nat
    BY <1>1, <1>2, <2>1
  <2> HIDE DEF N
  <2> QED
    BY <2>2, IsASeq
<1>9. \A j \in DOMAIN heap :
        /\ heap'[j].name = heap[j].name /\ heap'[j].isDir = heap[j].isDir
        /\ heap'[j].parent = heap[j].parent /\ heap'[j].alive = heap[j].alive
        /\ heap'[j].entries = IF j = i THEN heap[j].entries \cup {N} ELSE heap[j].entries
  <2> TAKE j \in DOMAIN heap
  <2>1. heap[j] \in InodeType
    BY HeapType
  <2> QED
    BY <1>4, <2>1 DEF InodeType
<1>10. /\ heap'[N].name = n /\ heap'[N].isDir = dir /\ heap'[N].parent = i
       /\ heap'[N].alive = TRUE /\ heap'[N].entries = {}
  BY <1>5 DEF Inode
<1> QED
  BY <1>8, <1>9, <1>10, Zenon

\* A new entry keeps the invariant, if no entry of the parent has the name of
\* a new directory.
LEMMA AddSubKeepsIInv ==
  ASSUME IInv, NEW i \in DOMAIN heap, NEW n \in Names, NEW dir \in BOOLEAN,
         dir => Named(heap, i, n) = {},
         heap' = AddSub(heap, i, n, dir, NoData)
  PROVE  IInv'
<1> DEFINE N == Len(heap) + 1
<1>1. TypeOK /\ NoDanglingEntry /\ EntriesPointBack /\ DirectoriesComeFirst
  BY DEF IInv
<1>2. /\ Len(heap) \in Nat /\ DOMAIN heap = 1 .. Len(heap) /\ Root \in DOMAIN heap
      /\ \A j \in DOMAIN heap : heap[j].entries \subseteq DOMAIN heap
      /\ \A j \in DOMAIN heap : heap[j].isDir \in BOOLEAN
  BY <1>1, HeapType
<1>3. /\ heap' \in Seq(InodeType)
      /\ DOMAIN heap' = 1 .. N /\ Len(heap') = N
  BY <1>1, AddSubFields
<1>4. \A j \in DOMAIN heap :
        /\ heap'[j].name = heap[j].name /\ heap'[j].isDir = heap[j].isDir
        /\ heap'[j].parent = heap[j].parent /\ heap'[j].alive = heap[j].alive
        /\ heap'[j].entries = IF j = i THEN heap[j].entries \cup {N} ELSE heap[j].entries
  BY <1>1, AddSubFields
<1>5. /\ heap'[N].name = n /\ heap'[N].isDir = dir /\ heap'[N].parent = i
      /\ heap'[N].alive = TRUE /\ heap'[N].entries = {}
  BY <1>1, AddSubFields
<1>6. \A j \in DOMAIN heap' : j \in DOMAIN heap \/ j = N
  BY <1>2, <1>3
<1>7. N \notin DOMAIN heap
  BY <1>2
<1> HIDE DEF N
<1>12. ASSUME NEW j \in DOMAIN heap, NEW k \in heap'[j].entries
       PROVE  (k \in heap[j].entries /\ k \in DOMAIN heap) \/ (j = i /\ k = N)
  <2>1. heap'[j].entries = IF j = i THEN heap[j].entries \cup {N} ELSE heap[j].entries
    BY <1>4
  <2>2. heap[j].entries \subseteq DOMAIN heap
    BY <1>2
  <2> QED
    BY <2>1, <2>2
<1>8. TypeOK'
  <2>1. heap' # <<>>
    BY <1>2, <1>3 DEF N
  <2>2. heap'[Root].parent = Null /\ heap'[Root].alive
    BY <1>1, <1>2, <1>4 DEF TypeOK
  <2>3. ASSUME NEW j \in DOMAIN heap'
        PROVE  /\ j # Root => heap'[j].parent \in 1 .. j - 1
               /\ heap'[j].entries \subseteq j + 1 .. Len(heap')
    <3>1. CASE j \in DOMAIN heap
      <4>1. heap[j].entries \subseteq j + 1 .. Len(heap) /\ (j # Root => heap[j].parent \in 1 .. j - 1)
        BY <1>1, <3>1 DEF TypeOK
      <4>2. heap'[j].parent = heap[j].parent
        BY <1>4, <3>1, Zenon
      <4>3. \A k \in heap'[j].entries : k \in j + 1 .. Len(heap) \/ k = N
        BY <1>12, <3>1, <4>1
      <4>4. Len(heap') = Len(heap) + 1 /\ N = Len(heap) + 1 /\ j \in 1 .. Len(heap) /\ Len(heap) \in Nat
        BY <1>2, <1>3, <3>1 DEF N
      <4>5. \A k \in heap'[j].entries : k \in j + 1 .. Len(heap')
        BY <4>3, <4>4
      <4> QED
        BY <4>1, <4>2, <4>5
    <3>2. CASE j = N
      BY <1>2, <1>5, <3>2 DEF N
    <3> QED
      BY <1>6, <3>1, <3>2
  <2> QED
    BY <1>3, <2>1, <2>2, <2>3 DEF TypeOK
<1>9. NoDanglingEntry'
  <2> SUFFICES ASSUME NEW j \in DOMAIN heap', heap'[j].alive, NEW k \in heap'[j].entries
               PROVE  heap'[k].alive
    BY DEF NoDanglingEntry
  <2>1. j \in DOMAIN heap
    BY <1>5, <1>6
  <2>2. CASE k \in heap[j].entries /\ k \in DOMAIN heap
    BY <1>1, <1>4, <2>1, <2>2 DEF NoDanglingEntry
  <2> QED
    BY <1>5, <1>12, <2>1, <2>2
<1>10. EntriesPointBack'
  <2> SUFFICES ASSUME NEW j \in DOMAIN heap', NEW k \in heap'[j].entries
               PROVE  heap'[k].parent = j
    BY DEF EntriesPointBack
  <2>1. j \in DOMAIN heap
    BY <1>5, <1>6
  <2>2. CASE k \in heap[j].entries /\ k \in DOMAIN heap
    BY <1>1, <1>4, <2>1, <2>2 DEF EntriesPointBack
  <2> QED
    BY <1>5, <1>12, <2>1, <2>2
<1>11. DirectoriesComeFirst'
  <2> SUFFICES ASSUME NEW d \in DOMAIN heap', NEW j \in heap'[d].entries, NEW k \in heap'[d].entries,
                      heap'[j].isDir, heap'[k].name = heap'[j].name
               PROVE  j <= k
    BY DEF DirectoriesComeFirst
  <2>1. d \in DOMAIN heap
    BY <1>5, <1>6
  <2>2. CASE j \in heap[d].entries /\ k \in heap[d].entries
    <3>1. j \in DOMAIN heap /\ k \in DOMAIN heap
      BY <1>2, <2>1, <2>2
    <3>2. heap[j].isDir /\ heap[k].name = heap[j].name
      BY <1>4, <3>1
    <3> QED
      BY <1>1, <2>1, <2>2, <3>2 DEF DirectoriesComeFirst
  <2>3. CASE k = N
    <3>1. j \in DOMAIN heap \/ j = N
      BY <1>12, <2>1
    <3> QED
      BY <1>2, <2>3, <3>1 DEF N
  <2>4. CASE j = N /\ k \in heap[d].entries
    \* Then the new entry is a directory, and k is called what it is called.
    <3>1. d = i
      BY <1>2, <1>4, <1>7, <2>1, <2>4
    <3>2. heap[k].name = n /\ dir
      BY <1>2, <1>4, <1>5, <2>1, <2>4
    <3> QED
      BY <2>4, <3>1, <3>2 DEF Named
  <2> QED
    BY <1>12, <2>1, <2>2, <2>3, <2>4
<1> QED
  BY <1>8, <1>9, <1>10, <1>11 DEF IInv

\* The inodes delete_myself leaves: all of them, one no longer alive, with
\* entries they had, and without that one in the entries of its parent.
LEMMA DeleteFields ==
  ASSUME TypeOK, NEW i \in DOMAIN heap, heap[i].parent # Null,
         heap' = DeleteMyself(heap, i)
  PROVE  /\ heap' \in Seq(InodeType)
         /\ DOMAIN heap' = DOMAIN heap /\ Len(heap') = Len(heap)
         /\ \A j \in DOMAIN heap :
              /\ heap'[j].name = heap[j].name /\ heap'[j].isDir = heap[j].isDir
              /\ heap'[j].parent = heap[j].parent
              /\ heap'[j].alive = (heap[j].alive /\ j # i)
              /\ heap'[j].entries \subseteq heap[j].entries
              /\ j = heap[i].parent => i \notin heap'[j].entries
<1> DEFINE entries(j) == IF j \in Emptied(heap, i) THEN {}
                         ELSE IF j = heap[i].parent THEN heap[j].entries \ {i} ELSE heap[j].entries
<1>1. Len(heap) \in Nat /\ DOMAIN heap = 1 .. Len(heap)
  BY HeapType
<1>2. heap' = [j \in 1 .. Len(heap) |->
                 [heap[j] EXCEPT !.alive = @ /\ j # i, !.entries = entries(j)]]
  BY DEF DeleteMyself, Deleted
<1>3. \A j \in DOMAIN heap :
        heap'[j] = [heap[j] EXCEPT !.alive = @ /\ j # i, !.entries = entries(j)]
  BY <1>1, <1>2
<1>4. \A j \in DOMAIN heap :
        entries(j) \subseteq heap[j].entries /\ (j = heap[i].parent => i \notin entries(j))
  OBVIOUS
<1> HIDE DEF entries
<1>5. ASSUME NEW j \in DOMAIN heap
      PROVE  /\ heap'[j] \in InodeType
             /\ heap'[j].name = heap[j].name /\ heap'[j].isDir = heap[j].isDir
             /\ heap'[j].parent = heap[j].parent
             /\ heap'[j].alive = (heap[j].alive /\ j # i)
             /\ heap'[j].entries = entries(j)
  <2> DEFINE a == heap[j].alive /\ j # i
  <2>1. heap[j] \in InodeType /\ entries(j) \in SUBSET Nat
    BY <1>4, HeapType DEF InodeType
  <2>2. heap'[j] = [heap[j] EXCEPT !.alive = a, !.entries = entries(j)]
    BY <1>3
  <2>3. a \in BOOLEAN
    OBVIOUS
  <2> HIDE DEF a
  <2>4. /\ heap'[j] \in InodeType
        /\ heap'[j].name = heap[j].name /\ heap'[j].isDir = heap[j].isDir
        /\ heap'[j].parent = heap[j].parent
        /\ heap'[j].alive = a /\ heap'[j].entries = entries(j)
    BY <2>1, <2>2, <2>3 DEF InodeType
  <2> QED
    BY <2>4 DEF a
<1>6. heap' \in Seq(InodeType) /\ DOMAIN heap' = DOMAIN heap /\ Len(heap') = Len(heap)
  <2>1. heap' \in [1 .. Len(heap) -> InodeType]
    BY <1>1, <1>2, <1>5
  <2> QED
    BY <1>1, <2>1, IsASeq
<1> QED
  BY <1>4, <1>5, <1>6

\* A removal keeps the invariant: what it deletes it takes out of the only
\* directory that lists it.
LEMMA DeleteKeepsIInv ==
  ASSUME IInv, NEW i \in DOMAIN heap, heap' = DeleteMyself(heap, i)
  PROVE  IInv'
<1>1. TypeOK /\ NoDanglingEntry /\ EntriesPointBack /\ DirectoriesComeFirst
  BY DEF IInv
<1>2. CASE heap[i].parent = Null
  <2>1. heap' = heap
    BY <1>2 DEF DeleteMyself, Deleted
  <2> QED
    BY <2>1 DEF IInv, TypeOK, NoDanglingEntry, EntriesPointBack, DirectoriesComeFirst, GetSub, Named
<1>3. CASE heap[i].parent # Null
  <2>1. /\ heap' \in Seq(InodeType)
        /\ DOMAIN heap' = DOMAIN heap /\ Len(heap') = Len(heap)
        /\ \A j \in DOMAIN heap :
             /\ heap'[j].name = heap[j].name /\ heap'[j].isDir = heap[j].isDir
             /\ heap'[j].parent = heap[j].parent
             /\ heap'[j].alive = (heap[j].alive /\ j # i)
             /\ heap'[j].entries \subseteq heap[j].entries
             /\ j = heap[i].parent => i \notin heap'[j].entries
    BY <1>1, <1>3, DeleteFields
  <2>2. /\ DOMAIN heap = 1 .. Len(heap) /\ Root \in DOMAIN heap
        /\ \A j \in DOMAIN heap : heap[j].entries \subseteq DOMAIN heap
    BY <1>1, HeapType
  <2>3. i # Root
    BY <1>1, <1>3 DEF TypeOK
  <2>4. TypeOK'
    <3>1. heap' # <<>>
      BY <1>1, <2>1, <2>2
    <3>2. heap'[Root].parent = Null /\ heap'[Root].alive
      BY <1>1, <2>1, <2>2, <2>3 DEF TypeOK
    <3>3. \A j \in DOMAIN heap' :
            /\ j # Root => heap'[j].parent \in 1 .. j - 1
            /\ heap'[j].entries \subseteq j + 1 .. Len(heap')
      BY <1>1, <2>1 DEF TypeOK
    <3> QED
      BY <2>1, <3>1, <3>2, <3>3 DEF TypeOK
  <2>5. NoDanglingEntry'
    <3> SUFFICES ASSUME NEW d \in DOMAIN heap, heap'[d].alive, NEW j \in heap'[d].entries
                 PROVE  heap'[j].alive
      BY <2>1 DEF NoDanglingEntry
    <3>1. j \in heap[d].entries /\ j \in DOMAIN heap /\ heap[d].alive
      BY <2>1, <2>2
    <3>2. heap[j].alive /\ heap[j].parent = d
      BY <1>1, <3>1 DEF NoDanglingEntry, EntriesPointBack
    <3>3. j # i
      BY <2>1, <3>2
    <3> QED
      BY <2>1, <3>1, <3>2, <3>3
  <2>6. EntriesPointBack'
    BY <1>1, <2>1, <2>2 DEF EntriesPointBack
  <2>7. DirectoriesComeFirst'
    BY <1>1, <2>1, <2>2 DEF DirectoriesComeFirst
  <2> QED
    BY <2>4, <2>5, <2>6, <2>7 DEF IInv
<1> QED
  BY <1>2, <1>3

\* The initial heap is its root.
LEMMA InitIInv == Init => IInv
<1> SUFFICES ASSUME Init PROVE IInv
  OBVIOUS
<1> DEFINE root == Inode("/", TRUE, Null, NoData)
<1>1. root \in InodeType /\ root.parent = Null /\ root.alive = TRUE /\ root.entries = {}
  BY DEF Inode, InodeType, Null
<1>2. heap = <<root>>
  BY DEF Init, NewHeap
<1> HIDE DEF root
<1>3. DOMAIN heap = {1} /\ Len(heap) = 1 /\ heap[1] = root /\ heap \in Seq(InodeType) /\ heap # <<>>
  BY <1>1, <1>2
<1> QED
  BY <1>1, <1>3 DEF IInv, TypeOK, NoDanglingEntry, EntriesPointBack, DirectoriesComeFirst, Root

\* Every operation keeps the invariant.
LEMMA NextIInv == IInv /\ [Next]_vars => IInv'
<1> SUFFICES ASSUME IInv, [Next]_vars PROVE IInv'
  OBVIOUS
<1>1. TypeOK
  BY DEF IInv
<1>2. ASSUME NEW i \in DOMAIN heap, NEW n \in Names, Mknod(i, n)
      PROVE  IInv'
  BY <1>2, AddSubKeepsIInv DEF Mknod
<1>3. ASSUME NEW i \in DOMAIN heap, NEW n \in Names, Mkdir(i, n)
      PROVE  IInv'
  <2>1. Named(heap, i, n) = {}
    BY <1>1, <1>3, GetSubNull DEF Mkdir
  <2> QED
    BY <1>3, <2>1, AddSubKeepsIInv DEF Mkdir
<1>4. ASSUME NEW i \in DOMAIN heap, Rm(i)
      PROVE  IInv'
  BY <1>4, DeleteKeepsIInv DEF Rm
<1>5. ASSUME NEW i \in DOMAIN heap, NEW d \in Data, Write(i, d)
      PROVE  IInv'
  <2>1. heap' = [heap EXCEPT ![i].content = d] /\ heap \in Seq(InodeType) /\ heap # <<>>
    BY <1>1, <1>5 DEF Write, TypeOK
  <2>2. heap[i] \in InodeType
    BY <1>1, HeapType
  <2>3. [heap[i] EXCEPT !.content = d] \in InodeType
    BY <2>2 DEF InodeType
  <2>4. /\ heap' \in Seq(InodeType) /\ heap' # <<>>
        /\ DOMAIN heap' = DOMAIN heap /\ Len(heap') = Len(heap)
    BY <2>1, <2>3
  <2>5. \A j \in DOMAIN heap :
          /\ heap'[j].name = heap[j].name /\ heap'[j].isDir = heap[j].isDir
          /\ heap'[j].parent = heap[j].parent /\ heap'[j].alive = heap[j].alive
          /\ heap'[j].entries = heap[j].entries
    BY <2>1, <2>2 DEF InodeType
  <2>6. Root \in DOMAIN heap /\ \A j \in DOMAIN heap : heap[j].entries \subseteq DOMAIN heap
    BY <1>1, HeapType
  <2>7. TypeOK'
    BY <1>1, <2>4, <2>5, <2>6 DEF TypeOK
  <2>8. NoDanglingEntry' /\ EntriesPointBack'
    BY <2>4, <2>5, <2>6 DEF IInv, NoDanglingEntry, EntriesPointBack
  <2>9. DirectoriesComeFirst'
    BY <2>4, <2>5, <2>6 DEF IInv, DirectoriesComeFirst
  <2> QED
    BY <2>7, <2>8, <2>9 DEF IInv
<1>6. CASE UNCHANGED vars
  BY <1>6 DEF vars, IInv, TypeOK, NoDanglingEntry, EntriesPointBack, DirectoriesComeFirst
<1> QED
  BY <1>2, <1>3, <1>4, <1>5, <1>6 DEF Next

\* If a directory is the first of its name, get_sub returns it.
LEMMA FirstIsFound ==
  ASSUME IInv PROVE DirectoriesAreNotHidden
<1> SUFFICES ASSUME NEW i \in DOMAIN heap, NEW j \in heap[i].entries, heap[j].isDir
             PROVE  GetSub(heap, i, heap[j].name) = j
  BY DEF DirectoriesAreNotHidden
<1> DEFINE S == Named(heap, i, heap[j].name)
<1>1. heap[i].entries \subseteq i + 1 .. Len(heap) /\ i \in Nat /\ Len(heap) \in Nat
  BY HeapType DEF IInv, TypeOK
<1>2. j \in S /\ S \in SUBSET Nat /\ \A k \in S : j <= k
  BY <1>1 DEF IInv, DirectoriesComeFirst, Named
<1>3. First(S) \in S /\ \A k \in S : First(S) <= k
  BY <1>2, FirstExists
<1>4. First(S) = j
  <2> HIDE DEF S
  <2>1. First(S) \in Nat /\ j \in Nat /\ First(S) <= j /\ j <= First(S)
    BY <1>2, <1>3
  <2> QED
    BY <2>1
<1> QED
  BY <1>2, <1>4 DEF GetSub

\* The strengthening holds of every state of the file system.
LEMMA Inductive == Spec => []IInv
BY InitIInv, NextIInv, PTL DEF Spec

\* The heap keeps its shape: the root stays, and the tree grows downwards.
THEOREM TypeCorrect == Spec => []TypeOK
<1>1. IInv => TypeOK
  BY DEF IInv
<1> QED
  BY <1>1, Inductive, PTL

\* Whatever was removed, lookup and listdir never follow a dangling pointer
\* out of an inode that is still there.
THEOREM NoEntryDangles == Spec => []NoDanglingEntry
<1>1. IInv => NoDanglingEntry
  BY DEF IInv
<1> QED
  BY <1>1, Inductive, PTL

\* An inode is an entry of its parent or of nothing.
THEOREM ParentsAreRight == Spec => []EntriesPointBack
<1>1. IInv => EntriesPointBack
  BY DEF IInv
<1> QED
  BY <1>1, Inductive, PTL

\* However often mknod has made its name again, a directory is found.
THEOREM DirectoriesAreFound == Spec => []DirectoriesAreNotHidden
<1>1. IInv => DirectoriesAreNotHidden
  BY FirstIsFound
<1> QED
  BY <1>1, Inductive, PTL
-----------------------------------------------------------------------------
(***************************************************************************)
(* What a removal cuts off.                                                 *)
(***************************************************************************)
\* The heap is a tree whose root is a directory.
TreeIInv == HeapIInv(heap)

\* Every operation keeps it one.
LEMMA TreeInductive ==
  /\ Init => TreeIInv
  /\ TreeIInv /\ [Next]_vars => TreeIInv'
<1>1. Init => HeapIInv(heap)
  BY NewHeapIs DEF Init
<1>2. ASSUME HeapIInv(heap), NEW i \in DOMAIN heap, NEW n \in Names, NEW dir \in BOOLEAN,
             heap' = AddSub(heap, i, n, dir, NoData)
      PROVE  HeapIInv(heap')
  BY <1>2, AddSubGrows, GrowthIs DEF HeapIInv
<1>3. ASSUME HeapIInv(heap), [Next]_vars
      PROVE  HeapIInv(heap')
  <2>1. CASE \E i \in DOMAIN heap, n \in Names : Mknod(i, n) \/ Mkdir(i, n)
    BY <1>2, <1>3, <2>1 DEF Mknod, Mkdir
  <2>2. CASE \E i \in DOMAIN heap : Rm(i)
    BY <1>3, <2>2, DeleteIs DEF Rm
  <2>3. CASE \E i \in DOMAIN heap, d \in Data : Write(i, d)
    BY <1>3, <2>3, WriteIs DEF Write
  <2>4. CASE UNCHANGED vars
    BY <1>3, <2>4 DEF vars
  <2> QED
    BY <1>3, <2>1, <2>2, <2>3, <2>4 DEF Next
<1> QED
  BY <1>1, <1>3 DEF TreeIInv

\* What a step cuts off and does not.
Exact ==
  \A i \in DOMAIN heap : Reachable(heap, i) =>
    (Reachable(heap', i) <=>
       ~\E a \in DOMAIN heap : heap[a].alive /\ ~heap'[a].alive /\ IsBelow(heap, a, i))

\* An operation that leaves entries and inodes where they are cuts off none.
LEMMA GrowthIsExact ==
  ASSUME HeapIInv(heap), HeapIInv(heap'), DOMAIN heap \subseteq DOMAIN heap',
         \A j \in DOMAIN heap :
           /\ heap'[j].parent = heap[j].parent /\ heap'[j].alive = heap[j].alive
           /\ heap[j].entries \subseteq heap'[j].entries
  PROVE  Exact
BY GrowthKeepsReachable DEF HeapIInv, Exact

\* A removal cuts off what is below the inode that it deletes.
LEMMA DeleteIsExact ==
  ASSUME HeapIInv(heap), NEW i \in DOMAIN heap, MayDelete(heap, i),
         heap' = DeleteMyself(heap, i)
  PROVE  Exact
<1>1. HeapIInv(heap')
  BY DeleteIs
<1>2. CASE heap[i].parent = Null
  BY <1>1, <1>2, GrowthIsExact DEF DeleteMyself
<1>3. CASE heap[i].parent # Null
  <2>1. \A a \in DOMAIN heap : heap[a].alive /\ ~heap'[a].alive <=> a = i
    BY <1>3, DeleteShrinks DEF HeapIInv, Shrinks, MayDelete
  <2>2. \A j \in DOMAIN heap : IsBelow(heap, i, j) => ~Reachable(heap', j)
    BY <1>3, DeleteCutsOff
  <2>3. \A j \in DOMAIN heap : Reachable(heap, j) /\ ~IsBelow(heap, i, j) => Reachable(heap', j)
    BY <1>3, DeleteLeavesTheRest
  <2> QED
    BY <2>1, <2>2, <2>3 DEF Exact
<1> QED
  BY <1>2, <1>3

\* So every operation cuts off what is below the inodes it deletes.
LEMMA StepIsExact ==
  ASSUME HeapIInv(heap), Next
  PROVE  Exact
<1>1. HeapIInv(heap')
  BY TreeInductive DEF TreeIInv
<1>2. ASSUME NEW i \in DOMAIN heap, NEW n \in Names, NEW dir \in BOOLEAN,
             heap' = AddSub(heap, i, n, dir, NoData)
      PROVE  Exact
  <2>1. Grows(heap, heap', i, n, dir) /\ Len(heap) \in Nat /\ DOMAIN heap = 1 .. Len(heap)
    BY <1>2, AddSubGrows DEF HeapIInv, IsHeap
  <2>2. DOMAIN heap \subseteq DOMAIN heap'
    BY <2>1 DEF Grows
  <2>3. \A j \in DOMAIN heap :
          /\ heap'[j].parent = heap[j].parent /\ heap'[j].alive = heap[j].alive
          /\ heap[j].entries \subseteq heap'[j].entries
    BY <2>1 DEF Grows, SameInode
  <2> QED
    BY <1>1, <2>2, <2>3, GrowthIsExact
<1>3. CASE \E i \in DOMAIN heap, n \in Names : Mknod(i, n) \/ Mkdir(i, n)
  BY <1>2, <1>3 DEF Mknod, Mkdir
<1>4. CASE \E i \in DOMAIN heap : Rm(i)
  BY <1>4, DeleteIsExact DEF Rm
<1>5. ASSUME NEW i \in DOMAIN heap, NEW d \in Data, Write(i, d)
      PROVE  Exact
  <2>1. heap' = [heap EXCEPT ![i].content = d]
    BY <1>5 DEF Write
  <2>2. DOMAIN heap' = DOMAIN heap
    BY <2>1
  <2>3. ASSUME NEW j \in DOMAIN heap
        PROVE  /\ heap'[j].parent = heap[j].parent /\ heap'[j].alive = heap[j].alive
               /\ heap'[j].entries = heap[j].entries
    <3>1. {"parent", "alive", "entries"} \subseteq DOMAIN heap[j]
      BY DEF HeapIInv, IsHeap, IsInode, InodeFields
    <3>2. CASE j = i
      BY <2>1, <3>1, <3>2
    <3>3. CASE j # i
      BY <2>1, <3>3
    <3> QED
      BY <3>2, <3>3
  <2> QED
    BY <1>1, <2>2, <2>3, GrowthIsExact
<1> QED
  BY <1>3, <1>4, <1>5 DEF Next

\* A removal cuts off the inode and what is below it and nothing else, however
\* deep the tree, and no other operation cuts anything off.
THEOREM RemovalsAreExact == Spec => RemovalIsExact
<1> DEFINE Cut == \A i \in DOMAIN heap : Reachable(heap, i) =>
                     (Reachable(heap', i) <=>
                        ~\E a \in DOMAIN heap : /\ heap[a].alive /\ ~heap'[a].alive
                                                /\ IsBelow(heap, a, i))
<1>1. TreeIInv /\ [Next]_vars => [Cut]_vars
  BY StepIsExact DEF Exact, TreeIInv
<1> QED
  BY <1>1, TreeInductive, PTL DEF Spec, RemovalIsExact
=============================================================================
