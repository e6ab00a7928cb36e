----------------------------- MODULE FileSystem -----------------------------
(***************************************************************************)
(* FileSystem as its own component: any sequence of calls of its public     *)
(* operations, on any inode pointer a caller may still follow.  READ and    *)
(* LISTDIR change nothing and have no action here; Requests has them.       *)
(***************************************************************************)
EXTENDS Inodes

CONSTANTS
  Names,      \* the names callers use; filename_valid holds of each
  Data,       \* the contents callers write
  NoData,     \* the content of a new file
  MaxInodes   \* how many inodes are allocated (a bound of the model)

ASSUME MaxInodesAssumption == MaxInodes \in Nat \ {0}
ASSUME NamesAssumption == "" \notin Names /\ "/" \notin Names

VARIABLE heap
vars == <<heap>>

Init == heap = NewHeap(NoData)

\* Both take any inode for a parent, a file too.  Only mkdir looks whether
\* the name is taken.
Mknod(i, n) ==
  /\ MayFollow(heap, i) /\ Len(heap) < MaxInodes
  /\ heap' = AddSub(heap, i, n, FALSE, NoData)

\* Slip: mkdir does not look either.
MkdirUnchecked(i, n) ==
  /\ MayFollow(heap, i) /\ Len(heap) < MaxInodes
  /\ heap' = AddSub(heap, i, n, TRUE, NoData)

Mkdir(i, n) ==
  /\ MayFollow(heap, i) /\ Len(heap) < MaxInodes
  /\ GetSub(heap, i, n) = Null
  /\ heap' = AddSub(heap, i, n, TRUE, NoData)

\* rm and rmdir are the same call; neither looks at the kind of the inode.
Rm(i) ==
  /\ MayDelete(heap, i)
  /\ heap' = DeleteMyself(heap, i)

Write(i, d) ==
  /\ MayFollow(heap, i)
  /\ heap' = [heap EXCEPT ![i].content = d]

Next ==
  \E i \in DOMAIN heap :
    \/ \E n \in Names : Mknod(i, n) \/ Mkdir(i, n)
    \/ Rm(i)
    \/ \E d \in Data : Write(i, d)

Spec == Init /\ [][Next]_vars
-----------------------------------------------------------------------------
InodeType ==
  [name : Names \cup {"/"}, isDir : BOOLEAN, parent : Nat,
   entries : SUBSET Nat, content : Data \cup {NoData}, alive : BOOLEAN]

\* The root is never deleted; an inode comes after its parent, and the
\* entries of an inode are inodes.
TypeOK ==
  /\ heap \in Seq(InodeType) /\ heap # <<>>
  /\ heap[Root].parent = Null /\ heap[Root].alive
  /\ \A i \in DOMAIN heap :
       /\ i # Root => heap[i].parent \in 1 .. i - 1
       /\ heap[i].entries \subseteq i + 1 .. Len(heap)

\* An inode a caller may follow has no entry that was deleted: lookup and
\* listdir, which follow entries unchecked, never meet a dangling pointer.
\* (A parent pointer may dangle: that of an inode below a deleted one does.)
NoDanglingEntry ==
  \A i \in DOMAIN heap : heap[i].alive =>
    \A j \in heap[i].entries : heap[j].alive

\* Every entry points back: what delete_myself finds through the parent
\* pointer is the directory that lists it, and no other one lists it.
EntriesPointBack ==
  \A i \in DOMAIN heap : \A j \in heap[i].entries : heap[j].parent = i

\* mknod makes duplicates of a name, but what stands first is the directory
\* if there is one: no directory is ever hidden from lookup by an entry of
\* the same name, and there is at most one of a name.
DirectoriesAreNotHidden ==
  \A i \in DOMAIN heap : \A j \in heap[i].entries :
    heap[j].isDir => GetSub(heap, i, heap[j].name) = j

\* A removal cuts off the inode and what is below it and nothing else, and
\* no other step cuts anything off: the erasing loops of delete_myself_recur
\* and delete_sub neither stop short nor take a neighbour with them.
RemovalIsExact ==
  [][\A i \in DOMAIN heap : Reachable(heap, i) =>
       (Reachable(heap', i) <=>
          ~\E a \in DOMAIN heap : /\ heap[a].alive /\ ~heap'[a].alive
                                  /\ IsBelow(heap, a, i))]_vars
=============================================================================
