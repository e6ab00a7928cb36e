---------------------------- MODULE PathService ----------------------------
(***************************************************************************)
(* What the cluster promises to a client: a file system whose operations    *)
(* take paths.  A call is one atomic operation on what its path names when  *)
(* it is carried out.  The operations' effects are those of FileSystem.cc,  *)
(* their conditions those of the methods of ClientProcess that have their   *)
(* names; caches, routes, ranks, messages and slaves do not exist here.     *)
(***************************************************************************)
EXTENDS Inodes

CONSTANTS
  Nil,        \* no call
  Calls,      \* the calls: [op, path, data]
  NoData,     \* the content of a new file
  MaxInodes   \* how many inodes are allocated (a bound)

VARIABLES
  heap,    \* the file system
  call,    \* the call in progress, or Nil
  done,    \* it has had its effect
  result,  \* what the last call has returned
  out      \* where the list or the data it returns are put: [list, data]
vars == <<heap, call, done, result, out>>

Init ==
  /\ heap = NewHeap(NoData)
  /\ call = Nil /\ done = FALSE /\ result = TRUE
  /\ out.list = <<>> /\ out.data = NoData

At(p) == Lookup(heap, p)
Parent(p) == At(DirName(p))

\* Whether a call that changes the file system finds what it needs ...
Possible(c) ==
  CASE c.op = "mknod" -> Parent(c.path) # Null
    [] c.op = "mkdir" -> Parent(c.path) # Null /\ GetSub(heap, Parent(c.path), BaseName(c.path)) = Null
    [] c.op \in {"rm", "write"} -> At(c.path) # Null
    [] c.op = "rmdir" -> IsDirPath(heap, c.path)
    [] OTHER -> FALSE

\* ... and the file system it leaves.
Effect(c) ==
  CASE c.op = "mknod" -> AddSub(heap, Parent(c.path), BaseName(c.path), FALSE, NoData)
    [] c.op = "mkdir" -> AddSub(heap, Parent(c.path), BaseName(c.path), TRUE, NoData)
    [] c.op \in {"rm", "rmdir"} -> DeleteMyself(heap, At(c.path))
    [] c.op = "write" -> [heap EXCEPT ![At(c.path)].content = c.data]

\* The result of a call that only asks.
Answer(c) ==
  CASE c.op \in {"exist", "read"} -> At(c.path) # Null
    [] c.op \in {"is_dir", "lsdir"} -> IsDirPath(heap, c.path)
    [] c.op = "is_file" -> At(c.path) # Null /\ ~IsDirPath(heap, c.path)
    [] OTHER -> FALSE

\* What a call that succeeds has put out: the content it reads, or every
\* entry of the directory, once and in any order.
OutputOK(c) ==
  CASE c.op = "read" -> out.data = heap[At(c.path)].content
    [] c.op = "lsdir" ->
         LET entries == heap[At(c.path)].entries
         IN /\ Len(out.list) = Cardinality(entries)
            /\ {out.list[k] : k \in DOMAIN out.list} = entries
    [] OTHER -> TRUE

Invoke ==
  /\ call = Nil
  /\ call' \in Calls
  /\ call'.op \in {"mknod", "mkdir"} => Len(heap) < MaxInodes
  /\ UNCHANGED <<heap, done, result, out>>

Apply ==
  /\ call # Nil /\ ~done
  /\ Possible(call)
  /\ heap' = Effect(call)
  /\ done' = TRUE
  /\ UNCHANGED <<call, result, out>>

\* The output is written while the call goes on, and handed over at its end.
WriteOutput ==
  /\ call # Nil
  /\ UNCHANGED <<heap, call, done, result>>

Return ==
  /\ call # Nil
  /\ ~done => ~Possible(call)
  /\ result' = (done \/ Answer(call))
  /\ result' => OutputOK(call)
  /\ call' = Nil /\ done' = FALSE
  /\ UNCHANGED <<heap, out>>

Next == Invoke \/ Apply \/ WriteOutput \/ Return

Spec == Init /\ [][Next]_vars

\* Every call returns.
CallsReturn == call # Nil ~> call = Nil
=============================================================================
