------------------------------ MODULE Workload ------------------------------
(***************************************************************************)
(* The driver: TestClientProcess::entry (SubtreeVSHashingSim.cc), whose      *)
(* calls are those of Requests, made in the order of its four loops, with    *)
(* the client cache the program is configured with.  What it prints is the   *)
(* time its calls have taken, nearly all of it the delays of sends: so the   *)
(* sends of each call are counted.                                          *)
(***************************************************************************)
EXTENDS Requests

CONSTANTS
  DIR_SIZE,           \* how many directories are made
  FILE_SIZE_PER_DIR   \* and files in each of them

ASSUME SizesAssumption == DIR_SIZE \in Nat \ {0} /\ FILE_SIZE_PER_DIR \in Nat \ {0}

VARIABLES
  loop,  \* which of the loops runs
  made,  \* how many calls it has made, i or i * FILE_SIZE_PER_DIR + j
  sends  \* history: the messages that were sent in this call

workloadVars == <<vars, loop, made, sends>>

\* std::to_string names the directories and the files.
Dir(i) == <<ToString(i)>>
File(i, j) == <<ToString(i), ToString(j)>>

\* The loops, and how many calls each of them makes.
Loops == <<"mkdir", "mknod", "lsdir", "rmdir">>
Op == Loops[loop]
Amount ==
  CASE Op \in {"mkdir", "rmdir"} -> DIR_SIZE
    [] Op = "mknod" -> DIR_SIZE * FILE_SIZE_PER_DIR
    [] Op = "lsdir" -> 3 * DIR_SIZE

\* Slip: one directory too few is gone through.
NextPathsButLast ==
  CASE Op = "mknod" -> {File(made \div FILE_SIZE_PER_DIR, made % FILE_SIZE_PER_DIR)}
    [] Op = "lsdir" -> {Dir(i) : i \in 0 .. DIR_SIZE}
    [] Op = "mkdir" -> {Dir(made)}
    [] Op = "rmdir" -> {Dir(0)}

\* The paths the next call may have.  RandomRange(0, DIR_SIZE) has both ends:
\* the last of the directories that may be listed is none.
NextPaths ==
  CASE Op = "mknod" -> {File(made \div FILE_SIZE_PER_DIR, made % FILE_SIZE_PER_DIR)}
    [] Op = "lsdir" -> {Dir(i) : i \in 0 .. DIR_SIZE}
    [] OTHER -> {Dir(made)}

WorkloadInit == Init /\ loop = 1 /\ made = 0 /\ sends = 0

Make ==
  /\ made < Amount
  /\ \E p \in NextPaths : Begin([op |-> Op, path |-> p, data |-> NoData])
  /\ made' = made + 1
  /\ sends' = 0
  /\ UNCHANGED loop

\* A step of the cluster; a send that finds a receiver pushes a frame.
Carry ==
  /\ Step
  /\ sends' = IF Len(stack') > Len(stack) THEN sends + 1 ELSE sends
  /\ UNCHANGED <<loop, made>>

\* The loop is over, the average of its calls printed; reset_zero, and on.
LoopEnds == made = Amount /\ call = Nil

NextLoop ==
  /\ LoopEnds /\ loop < Len(Loops)
  /\ loop' = loop + 1
  /\ made' = 0 /\ sends' = 0
  /\ UNCHANGED vars

\* The program ends.
Exit == LoopEnds /\ loop = Len(Loops) /\ UNCHANGED workloadVars

WorkloadNext == Make \/ Carry \/ NextLoop \/ Exit

WorkloadSpec == WorkloadInit /\ [][WorkloadNext]_workloadVars
-----------------------------------------------------------------------------
(***************************************************************************)
(* Properties.                                                             *)
(***************************************************************************)
Missing == Dir(DIR_SIZE)

\* Every call of the driver succeeds, but for the listings of the directory
\* that is not there; what is listed is all of a directory's files; nothing
\* deleted is followed, although the cache still has the directories that are
\* removed; and at the end the tree is as empty as it was.
WorkloadRuns ==
  [][/\ ~ub'
     /\ Returning =>
          /\ result' = (call.path # Missing)
          /\ call.op = "lsdir" /\ result' => Len(callback.list) = FILE_SIZE_PER_DIR
          /\ call.op = "rmdir" /\ made = Amount => heap'[Root].entries = {}]_workloadVars

\* Once the client has made a file in a directory, making another takes one
\* request and its reply: the walk finds the root and the directory in the
\* cache, where they are moved to the front each time.  Under subtree the
\* request may be forwarded, and then every one of them is, for what the client
\* knows is the route it has learned from making the directory, rank 0, and a
\* walk that never leaves the cache corrects no route.
FilesCostOneRequest ==
  [][Returning /\ call.op = "mknod" /\ BaseName(call.path) # "0" =>
       LET forwarded == strategy = "subtree" /\ routetable[DirName(call.path)] # OwnerOf(call.path)
       IN sends = IF forwarded THEN 3 ELSE 2]_workloadVars

\* What is printed after the last two loops as the average time of a call is
\* the time since reset_zero divided by DIR_SIZE: it is that, if so many calls
\* were made.
AverageIsPerCall == LoopEnds /\ Op \in {"lsdir", "rmdir"} => made = DIR_SIZE
=============================================================================
