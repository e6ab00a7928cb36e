------------------------------- MODULE Inodes -------------------------------
(***************************************************************************)
(* The in-memory file system all MDSs share (fs/FileSystem.cc), as          *)
(* operators on a heap: heap[i] is the i-th inode allocated since the       *)
(* program started, 1 is the root, 0 is NULL.  An inode that was deleted    *)
(* keeps its record with alive = FALSE, which stands for the dangling       *)
(* pointer its holders are left with; the operators that follow a pointer   *)
(* come with a predicate that says whether the pointer may be followed.     *)
(*                                                                         *)
(* A number is an allocation and no address: it is used once, although the  *)
(* memory of a deleted inode may be that of a later one, and a dangling     *)
(* pointer then leads to this.  To follow it is undefined either way, and   *)
(* the modules that hold inodes end a behaviour where one is followed.      *)
(*                                                                         *)
(* The vector of a directory's entries is a set here: entries are appended  *)
(* when they are allocated and never moved, so its order is the order of    *)
(* the inodes.                                                             *)
(***************************************************************************)
EXTENDS Paths

Null == 0
Root == 1

\* new Inode(name, isDir, parent): no entries.
Inode(name, isDir, parent, content) ==
  [name |-> name, isDir |-> isDir, parent |-> parent,
   entries |-> {}, content |-> content, alive |-> TRUE]

NewHeap(content) == <<Inode("/", TRUE, Null, content)>>

NextInode(h) == Len(h) + 1

\* The entries of i called name; get_sub returns the first, or NULL.
Named(h, i, name) == {j \in h[i].entries : h[j].name = name}

First(inodes) == CHOOSE i \in inodes : \A j \in inodes : i <= j

GetSub(h, i, name) ==
  IF Named(h, i, name) = {} THEN Null ELSE First(Named(h, i, name))

\* it - parent->begin() for the entry j of i.
IndexOf(h, i, j) == Cardinality({l \in h[i].entries : l < j})

\* FileSystem::lookup(path): at[k] is the inode reached after k names, of
\* which split_path drops those that are empty.
Lookup(h, p) ==
  LET at[k \in 0 .. Len(p)] ==
        IF k = 0 THEN Root
        ELSE IF p[k] = "" THEN at[k - 1]
        ELSE IF at[k - 1] = Null THEN Null ELSE GetSub(h, at[k - 1], p[k])
  IN at[Len(p)]

IsDirPath(h, p) == Lookup(h, p) # Null /\ h[Lookup(h, p)].isDir

\* Slip: the parent of a new inode is the root.
AddSubOfRoot(h, i, name, isDir, content) ==
  [j \in 1 .. NextInode(h) |->
     IF j = NextInode(h) THEN Inode(name, isDir, Root, content)
     ELSE [h[j] EXCEPT !.entries = IF j = i THEN @ \cup {NextInode(h)} ELSE @]]

\* add_sub of a new inode.
AddSub(h, i, name, isDir, content) ==
  [j \in 1 .. NextInode(h) |->
     IF j = NextInode(h) THEN Inode(name, isDir, i, content)
     ELSE [h[j] EXCEPT !.entries = IF j = i THEN @ \cup {NextInode(h)} ELSE @]]

\* i is an entry of its parent: a lookup in the parent can find it.
IsListed(h, i) == h[i].parent \in DOMAIN h /\ i \in h[h[i].parent].entries

(***************************************************************************)
(* delete_myself and delete_myself_recur.  The recursion goes down through  *)
(* directories only and empties each directory it visits; it deletes the    *)
(* inode it started from and none of the others, which stay allocated,      *)
(* cut off, with a parent pointer to where they were.                       *)
(***************************************************************************)
Emptied(h, i) ==
  LET visited[j \in DOMAIN h] ==
        /\ h[j].isDir
        /\ j = i \/ (j > i /\ IsListed(h, j) /\ visited[h[j].parent])
  IN {j \in DOMAIN h : visited[j]}

\* What deleting i, the inodes in gone from its parent and those in emptied
\* of all entries does to the heap.
Deleted(h, i, gone, emptied) ==
  [j \in 1 .. Len(h) |->
     [h[j] EXCEPT !.alive = @ /\ j # i,
                  !.entries = IF j \in emptied THEN {}
                              ELSE IF j = h[i].parent THEN @ \ gone ELSE @]]

\* Slips: the root is deleted too; the parent keeps the entry; the parent
\* loses every entry from there on.
DeleteAny(h, i)       == Deleted(h, i, {i}, Emptied(h, i))
DeleteUnlisted(h, i)  == IF h[i].parent = Null THEN h ELSE Deleted(h, i, {}, Emptied(h, i))
DeleteToTheEnd(h, i)  == IF h[i].parent = Null THEN h ELSE Deleted(h, i, i .. Len(h), Emptied(h, i))

DeleteMyself(h, i) ==
  IF h[i].parent = Null THEN h
  ELSE Deleted(h, i, {i}, Emptied(h, i))

\* The pointers delete_myself follows: this, and the parent.
MayFollow(h, i) == h[i].alive
MayDelete(h, i) == h[i].alive /\ (h[i].parent # Null => h[h[i].parent].alive)

\* Entry by entry, one comes from a down to i.
IsBelow(h, a, i) ==
  LET below[j \in DOMAIN h] ==
        \/ j = a
        \/ j > a /\ IsListed(h, j) /\ below[h[j].parent]
  IN below[i]

Reachable(h, i) == IsBelow(h, Root, i)

\* The path of an inode along its parent pointers.
PathOf(h, i) ==
  LET path[j \in {Null} \cup DOMAIN h] ==
        IF j = Null \/ h[j].parent = Null THEN RootPath
        ELSE Append(path[h[j].parent], h[j].name)
  IN path[i]
=============================================================================
