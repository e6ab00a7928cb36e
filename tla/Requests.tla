------------------------------ MODULE Requests ------------------------------
(***************************************************************************)
(* A client's file operations once the cluster has formed: the path walk    *)
(* with its cache and its learned routes (process/ClientProcess.cc), the     *)
(* execution, forwarding and fan-out of a request by the metadata services  *)
(* (services/MDSService.cc), on the file system they share.                 *)
(*                                                                         *)
(* The MDS of rank r is process r; more of them may register between calls.  *)
(***************************************************************************)
EXTENDS Dispatcher, LRU

CONSTANTS
  Client,       \* the client process
  InitialSize,  \* how many MDSs had registered when the dispatchers were created
  KnownRanks,   \* the ranks in the client's mdsmap; all, if it connected last
  EnableCache,  \* ENABLE_CLIENT_CACHE
  CacheSize,    \* CLIENT_LRU_SIZE
  Calls,        \* the calls a driver makes: [op, path, data] (a bound)
  NoData,       \* the empty string
  MaxInodes     \* how many inodes are allocated (a bound)

ASSUME RequestProcsAssumption == Procs = Ranks \cup {Client} /\ Client \notin Ranks
ASSUME InitialSizeAssumption == InitialSize \in 1 .. MaxRanks
ASSUME KnownRanksAssumption == KnownRanks \subseteq Ranks /\ 0 \in KnownRanks
ASSUME CacheAssumption == EnableCache \in BOOLEAN /\ CacheSize \in Nat \ {0}
ASSUME MaxInodesAssumption == MaxInodes \in Nat \ {0}
ASSUME CallsAssumption == Nil \notin Calls /\ \A c \in Calls : c.path \in Seq(STRING \ {""})
\* Nobody creates "/": dirname of it reads the last character of no string.
ASSUME RootAssumption == \A c \in Calls : c.op \in {"mknod", "mkdir"} => c.path # RootPath

VARIABLES
  strategy,          \* mds_md_dist_strategy, set before anything starts
  heap,              \* gfs
  callback_inolist,  \* MDSService::callback_inolist of each MDS
  cache,             \* the client's LRU cache: path -> inode
  routetable,        \* the ranks that have answered for a path
  callback,          \* callback_inoptr, callback_inolist, callback_data
  call,              \* the call in progress, or Nil
  client,            \* where in it the client is: control point, step, inode
  result,            \* what the last call has returned
  ub,                \* a deleted inode was followed: what comes is undefined
  applied,           \* history: operations carried out that change heap, of this call
  charged            \* history: <<rank, inode>> for every "memory" tick of it

fsVars      == <<strategy, heap, size, lut>>
cacheVars   == <<cache, routetable>>
callVars    == <<call, client, result>>
historyVars == <<applied, charged>>
vars == <<msgVars, fsVars, callback_inolist, cacheVars, callback, callVars, ub, historyVars>>

\* Where the MDS of rank r listens: services of a host start in rank order.
MdsEntity(r) ==
  Entity(HostOf[r], Cardinality({q \in Ranks : q < r /\ HostOf[q] = HostOf[r]}))

\* NETWORK_PORT_PROC_REVMAP_BASE is far above the number of services of a host.
ASSUME ServicePortsAssumption == \A r \in Ranks : MdsEntity(r).port < RevBase

NoCallback == [ino |-> Null, list |-> <<>>, data |-> NoData]
NotWalking == [pc |-> "idle", at |-> 0, ino |-> Null]

Init ==
  /\ MessagingInit
  /\ size = InitialSize
  /\ lut = BuildLut(Active)
  /\ service_map = [h \in Hosts |->
       [p \in {MdsEntity(r).port : r \in {q \in Active : HostOf[q] = h}} |->
          CHOOSE r \in Active : MdsEntity(r) = Entity(h, p)]]
  /\ strategy \in Strategies
  /\ heap = NewHeap(NoData)
  /\ callback_inolist = [r \in Ranks |-> <<>>]
  /\ cache = <<>>
  /\ routetable = <<>>
  /\ callback = NoCallback
  /\ call = Nil
  /\ client = NotWalking
  /\ result = TRUE
  /\ ub = FALSE
  /\ applied = 0 /\ charged = <<>>

\* The program follows the pointer of a deleted inode, whosever its memory is by
\* now: nothing is modelled from there on.
Undefined ==
  /\ ub' = TRUE
  /\ UNCHANGED <<msgVars, fsVars, callback_inolist, cacheVars, callback, callVars, historyVars>>

OwnerOf(p) == RankOf(strategy, heap, p)

\* The MDS that registers next has the monitor give it a rank and send the map
\* to the other MDSs (Formation); client and dispatchers do not hear of it.
Register ==
  /\ ~ub /\ call = Nil
  /\ size < MaxRanks
  /\ size' = size + 1
  /\ service_map' = [service_map EXCEPT ![MdsEntity(size).host] = Bind(@, MdsEntity(size).port, size)]
  /\ UNCHANGED <<proc_revmap, stack, ret, strategy, heap, lut, callback_inolist, cacheVars,
                 callback, callVars, ub, historyVars>>
-----------------------------------------------------------------------------
(***************************************************************************)
(* The messages.                                                           *)
(***************************************************************************)
MClientRequest(op, fullpath, name, ino, data) ==
  [op |-> op, fullpath |-> fullpath, name |-> name, ino |-> ino, data |-> data]

\* With the entity to answer, which the inner message still has as its source.
MClientRequestForward(inner_m, src) == [req |-> inner_m, src |-> src]

MClientRequestReply(fromwho, fullpath, ino, list, data) ==
  [from |-> fromwho, fullpath |-> fullpath, ino |-> ino, list |-> list, data |-> data]

MMDSSlaveRequest(op, fullpath, ino) == [op |-> op, fullpath |-> fullpath, ino |-> ino]

\* Of it only the inodes the slave found to be its own are read.
MMDSSlaveRequestReply(inode_list) == [list |-> inode_list]
-----------------------------------------------------------------------------
(***************************************************************************)
(* The client.                                                             *)
(***************************************************************************)
CreatesEntry(op) == op \in {"mknod", "mkdir"}

\* lookup(path), or lookup(dirname(path)) to create an entry: the paths that
\* are looked up one after the other.
WalkTo(c) == IF CreatesEntry(c.op) THEN DirName(c.path) ELSE c.path
WalkOf(c) == Visited(WalkTo(c))
Walk == WalkOf(call)

\* findroute: the dispatcher itself, or the longest prefix with a known route.
FindRoute(p) ==
  LET known == {k \in 0 .. Len(p) : Prefix(p, k) \in DOMAIN routetable}
  IN IF strategy # "subtree" THEN OwnerOf(p)
     ELSE IF known = {} THEN NoRank
     ELSE routetable[Prefix(p, CHOOSE k \in known : \A l \in known : l <= k)]

\* mdsmap[target], a null pointer for a rank the map has not; without a
\* target root_mds, the entity of rank 0.
Target(p) ==
  LET t == FindRoute(p)
  IN IF t = NoRank THEN MdsEntity(0)
     ELSE IF t \in KnownRanks THEN MdsEntity(t) ELSE Nil

\* Slip: what an earlier request was answered is not forgotten.
SendRequestKeeping(op, fullpath, name, ino, data) ==
  /\ UNCHANGED <<callback, service_map>>
  /\ Send(<<>>, Client, Target(fullpath), "CLIENTREQ",
          MClientRequest(op, fullpath, name, ino, data))

SendRequest(op, fullpath, name, ino, data) ==
  /\ callback' = [callback EXCEPT !.ino = Null, !.list = <<>>]
  /\ UNCHANGED service_map
  /\ Send(<<>>, Client, Target(fullpath), "CLIENTREQ",
          MClientRequest(op, fullpath, name, ino, data))

\* The call returns; a list or content it has asked for has been copied to the
\* caller, and the callbacks stay as they are.
Finish(b) ==
  /\ result' = b
  /\ UNCHANGED callback
  /\ call' = Nil
  /\ client' = NotWalking
  /\ applied' = 0 /\ charged' = <<>>

\* Slip: the search for the next slash starts where it was.
FoundInPlace(ino) ==
  /\ client' = IF client.at < Len(Walk)
               THEN [pc |-> "walk", at |-> client.at, ino |-> ino]
               ELSE [pc |-> "found", at |-> client.at, ino |-> ino]
  /\ UNCHANGED <<callback, call, result, historyVars>>

\* A step of the walk has found an inode.
Found(ino) ==
  /\ client' = IF client.at < Len(Walk)
               THEN [pc |-> "walk", at |-> client.at + 1, ino |-> ino]
               ELSE [pc |-> "found", at |-> client.at, ino |-> ino]
  /\ UNCHANGED <<callback, call, result, historyVars>>

Begin(c) ==
  /\ ~ub /\ client.pc = "idle"
  /\ CreatesEntry(c.op) => Len(heap) < MaxInodes
  /\ call' = c
  /\ client' = [client EXCEPT !.pc = "walk", !.at = 1]
  /\ UNCHANGED <<msgVars, fsVars, callback_inolist, cacheVars, callback, result, ub, historyVars>>

LookupCached ==
  /\ ~ub /\ client.pc = "walk"
  /\ EnableCache /\ Cached(cache, Walk[client.at])
  /\ cache' = LRUGet(cache, Walk[client.at])
  /\ Found(CachedValue(cache, Walk[client.at]))
  /\ UNCHANGED <<msgVars, fsVars, callback_inolist, routetable, ub>>

LookupRemote ==
  /\ ~ub /\ client.pc = "walk"
  /\ ~(EnableCache /\ Cached(cache, Walk[client.at]))
  /\ client' = [client EXCEPT !.pc = "looking"]
  /\ SendRequest("LOOKUP", Walk[client.at], "", Null, NoData)
  /\ UNCHANGED <<fsVars, callback_inolist, cacheVars, call, result, ub, historyVars>>

\* remote_lookup's result is ignored: what counts is what the reply has left.
LookupReturns ==
  /\ ~ub /\ client.pc = "looking" /\ stack = <<>>
  /\ IF callback.ino = Null THEN Finish(FALSE) ELSE Found(callback.ino)
  /\ UNCHANGED <<msgVars, fsVars, callback_inolist, cacheVars, ub>>

\* The calls that look at the inode they have found: is_file, is_dir, rmdir.
Looks(op) == op \in {"is_file", "is_dir", "rmdir"}

LooksAtDeleted ==
  /\ ~ub /\ client.pc = "found"
  /\ Looks(call.op) /\ ~MayFollow(heap, client.ino)
  /\ Undefined

\* The calls that end without a request of their own.
Answered ==
  /\ ~ub /\ client.pc = "found"
  /\ Looks(call.op) => MayFollow(heap, client.ino)
  /\ \/ call.op = "exist" /\ Finish(TRUE)
     \/ call.op = "is_file" /\ Finish(~heap[client.ino].isDir)
     \/ call.op = "is_dir" /\ Finish(heap[client.ino].isDir)
     \/ call.op = "rmdir" /\ ~heap[client.ino].isDir /\ Finish(FALSE)
  /\ UNCHANGED <<msgVars, fsVars, callback_inolist, cacheVars, ub>>

RequestOp ==
  [mknod |-> "CREATE", mkdir |-> "MKDIR", rm |-> "RM", rmdir |-> "RMDIR",
   read |-> "READ", write |-> "WRITE", lsdir |-> "LISTDIR"]

Request ==
  /\ ~ub /\ client.pc = "found"
  /\ call.op \in DOMAIN RequestOp
  /\ call.op = "rmdir" => MayFollow(heap, client.ino) /\ heap[client.ino].isDir
  /\ client' = [client EXCEPT !.pc = "asked"]
  /\ SendRequest(RequestOp[call.op], call.path,
                 IF CreatesEntry(call.op) THEN BaseName(call.path) ELSE "",
                 client.ino, call.data)
  /\ UNCHANGED <<fsVars, callback_inolist, cacheVars, call, result, ub, historyVars>>

\* Slip: here, too, the result is ignored.
RequestReturnsTrue ==
  /\ ~ub /\ client.pc = "asked" /\ stack = <<>>
  /\ Finish(TRUE)
  /\ UNCHANGED <<msgVars, fsVars, callback_inolist, cacheVars, ub>>

RequestReturns ==
  /\ ~ub /\ client.pc = "asked" /\ stack = <<>>
  /\ Finish(ret)
  /\ UNCHANGED <<msgVars, fsVars, callback_inolist, cacheVars, ub>>

\* The routes once rank "from" has answered for p.
RoutesWith(p, from) ==
  [q \in DOMAIN routetable \cup {p} |-> IF q = p THEN from ELSE routetable[q]]

\* Slip: the inode is cached as that of its directory.
CacheWithInDir(p, ino) ==
  IF ino # Null THEN LRUSet(cache, CacheSize, DirName(p), ino) ELSE LRUGet(cache, p)

\* The cache then: the inode that was sent, or the old one moved to the front.
\* Nothing is ever taken out.
CacheWith(p, ino) ==
  IF ino # Null THEN LRUSet(cache, CacheSize, p, ino) ELSE LRUGet(cache, p)

HandleReply ==
  /\ ~ub /\ Called(Client, "REPLY")
  /\ LET m == Top.arg
     IN /\ routetable' = RoutesWith(m.fullpath, m.from)
        /\ cache' = CacheWith(m.fullpath, m.ino)
        /\ callback' = [ino |-> m.ino, list |-> callback.list \o m.list, data |-> m.data]
  /\ Return(TRUE)
  /\ UNCHANGED <<service_map, fsVars, callback_inolist, callVars, ub, historyVars>>
-----------------------------------------------------------------------------
(***************************************************************************)
(* The metadata services.  handle_clientrequest serves a CLIENTREQ and, with *)
(* the message it wraps, a FORWARD.                                         *)
(***************************************************************************)
RequestIn(f) == IF f.type = "FORWARD" THEN f.arg.req ELSE f.arg

\* Slip: the answer goes to whoever has sent the message.
ReplyToSender(f) == f.src

ReplyTo(f) == IF f.type = "FORWARD" THEN f.arg.src ELSE f.src

\* The top frame is a request that r has just been handed.
Asked(r) == Called(r, "CLIENTREQ") \/ Called(r, "FORWARD")

Req == RequestIn(Top)

\* Slip: what counts is the directory.
MineByDirectory(r, p) == OwnerOf(DirName(p)) \in {r, NoRank}

\* It is r's to execute, or nobody's.
Mine(r, p) == OwnerOf(p) \in {r, NoRank}

Executes(r, op) == ~ub /\ Asked(r) /\ Req.op = op /\ Mine(r, Req.fullpath)

Forward(r) ==
  /\ ~ub /\ Asked(r) /\ ~Mine(r, Req.fullpath)
  /\ UNCHANGED <<service_map, fsVars, callback_inolist, cacheVars, callback, callVars, ub, historyVars>>
  /\ Send(TopAt("tail"), r, MdsEntity(OwnerOf(Req.fullpath)), "FORWARD",
          MClientRequestForward(Req, ReplyTo(Top)))

\* "return send_message(&m->src, new MClientRequestReply(...))".
Reply(r, ino, list, data) ==
  /\ UNCHANGED <<service_map, cacheVars, callback, callVars>>
  /\ Send(TopAt("tail"), r, ReplyTo(Top), "REPLY",
          MClientRequestReply(r, Req.fullpath, ino, list, data))

Fail ==
  /\ Return(FALSE)
  /\ UNCHANGED <<service_map, cacheVars, callback, callVars, historyVars>>

\* A removal of the root counts, too: it is carried out and answered like any
\* other, and changes nothing.
Mutate(h) == heap' = h /\ applied' = applied + 1 /\ UNCHANGED <<strategy, size, lut>>

OpLookup(r) ==
  /\ Executes(r, "LOOKUP")
  /\ LET ino == Lookup(heap, Req.fullpath)
     IN IF ino = Null THEN Fail
        ELSE Reply(r, ino, <<>>, NoData) /\ UNCHANGED historyVars
  /\ UNCHANGED <<fsVars, callback_inolist, ub>>

OpCreate(r) ==
  /\ Executes(r, "CREATE") /\ MayFollow(heap, Req.ino)
  /\ Mutate(AddSub(heap, Req.ino, Req.name, FALSE, NoData))
  /\ Reply(r, NextInode(heap), <<>>, NoData)
  /\ UNCHANGED <<callback_inolist, ub, charged>>

OpMkdir(r) ==
  /\ Executes(r, "MKDIR") /\ MayFollow(heap, Req.ino)
  /\ IF GetSub(heap, Req.ino, Req.name) # Null
     THEN Fail /\ UNCHANGED fsVars
     ELSE /\ Mutate(AddSub(heap, Req.ino, Req.name, TRUE, NoData))
          /\ Reply(r, NextInode(heap), <<>>, NoData)
          /\ UNCHANGED charged
  /\ UNCHANGED <<callback_inolist, ub>>

OpRead(r) ==
  /\ Executes(r, "READ") /\ MayFollow(heap, Req.ino)
  /\ Reply(r, Null, <<>>, heap[Req.ino].content)
  /\ UNCHANGED <<fsVars, callback_inolist, ub, historyVars>>

OpWrite(r) ==
  /\ Executes(r, "WRITE") /\ MayFollow(heap, Req.ino)
  /\ Mutate([heap EXCEPT ![Req.ino].content = Req.data])
  /\ Reply(r, Null, <<>>, NoData)
  /\ UNCHANGED <<callback_inolist, ub, charged>>

OpRm(r) ==
  /\ Executes(r, "RM") /\ MayDelete(heap, Req.ino)
  /\ Mutate(DeleteMyself(heap, Req.ino))
  /\ Reply(r, Null, <<>>, NoData)
  /\ UNCHANGED <<callback_inolist, ub, charged>>

\* Whose entry it is: the path is fullpath + "/" + name, whatever inode the
\* request holds.
EntryOwner(fullpath, i) == OwnerOf(Join(fullpath, heap[i].name))

\* The entries of a directory r counts as its own.
OwnEntries(r, f) ==
  {i \in heap[f.ino].entries : EntryOwner(f.fullpath, i) \in {r, NoRank}}

\* Slip: an MDS is asked once for every entry it has.
OthersForEach(r, f) ==
  LET others == InOrder(heap[f.ino].entries \ OwnEntries(r, f))
  IN [k \in DOMAIN others |-> EntryOwner(f.fullpath, others[k])]

\* other_targeted_mds: who has the others, once each, in the order of the
\* entries.
Others(r, f) ==
  LET others == heap[f.ino].entries \ OwnEntries(r, f)
      Owner(i) == EntryOwner(f.fullpath, i)
      firsts == InOrder({i \in others : \A j \in others : Owner(i) = Owner(j) => i <= j})
  IN [k \in DOMAIN firsts |-> Owner(firsts[k])]

\* gsw.tick_random("memory", count).
Charge(r, inodes) == charged' = charged \o [n \in DOMAIN inodes |-> <<r, inodes[n]>>]

(***************************************************************************)
(* rmdir and listdir: the executing MDS goes through the entries, asks the   *)
(* MDSs the others belong to one after the other, and then removes the      *)
(* directory or puts the list together.  local.others is what is left of    *)
(* other_targeted_mds; local.list are the entries of its own (of which rmdir *)
(* keeps only the count), then for listdir also those of the others.        *)
(***************************************************************************)
ScansDirectory(r) == \E op \in {"RMDIR", "LISTDIR"} : Executes(r, op)

OpScan(r) ==
  /\ ScansDirectory(r) /\ MayFollow(heap, Req.ino)
  /\ IF ~heap[Req.ino].isDir THEN Fail
     ELSE LET own == InOrder(OwnEntries(r, Req))
          IN /\ stack' = TopWith("scan", [others |-> Others(r, Req), list |-> own])
             /\ ret' = TRUE
             /\ Charge(r, IF Req.op = "LISTDIR" THEN own ELSE <<>>)
             /\ UNCHANGED <<service_map, proc_revmap, cacheVars, callback, callVars, applied>>
  /\ UNCHANGED <<fsVars, callback_inolist, ub>>

AskSlave(r) ==
  /\ ~ub /\ Resumed("scan") /\ Top.to = r
  /\ Top.local.others # <<>>
  /\ callback_inolist' = IF Req.op = "LISTDIR" THEN [callback_inolist EXCEPT ![r] = <<>>]
                         ELSE callback_inolist
  /\ UNCHANGED <<service_map, fsVars, cacheVars, callback, callVars, ub, historyVars>>
  /\ Send(TopWith("slave", [Top.local EXCEPT !.others = Tail(@)]), r,
          MdsEntity(Head(Top.local.others)), "SLAVEREQ",
          MMDSSlaveRequest(Req.op, Req.fullpath, Req.ino))

SlaveReturns(r) ==
  /\ ~ub /\ Resumed("slave") /\ Top.to = r
  /\ IF ~ret THEN Return(FALSE)
     ELSE /\ stack' = TopWith("scan", [Top.local EXCEPT
                        !.list = IF Req.op = "LISTDIR" THEN @ \o callback_inolist[r] ELSE @])
          /\ UNCHANGED <<proc_revmap, ret>>
  /\ UNCHANGED <<service_map, fsVars, callback_inolist, cacheVars, callback, callVars, ub, historyVars>>

ScanDone(r, op) ==
  /\ ~ub /\ Resumed("scan") /\ Top.to = r
  /\ Top.local.others = <<>> /\ Req.op = op

EndListdir(r) ==
  /\ ScanDone(r, "LISTDIR")
  /\ Reply(r, Null, Top.local.list, NoData)
  /\ UNCHANGED <<fsVars, callback_inolist, ub, historyVars>>

EndRmdir(r) ==
  /\ ScanDone(r, "RMDIR") /\ MayDelete(heap, Req.ino)
  /\ Charge(r, Top.local.list)
  /\ Mutate(DeleteMyself(heap, Req.ino))
  /\ Reply(r, Null, <<>>, NoData)
  /\ UNCHANGED <<callback_inolist, ub>>

\* handle_slave_op_rmdir and handle_slave_op_listdir, whose answers differ in
\* that rmdir's is empty.
SlaveOp(r) ==
  IF ~heap[Top.arg.ino].isDir THEN Return(FALSE) /\ UNCHANGED <<service_map, charged>>
  ELSE LET own == InOrder(OwnEntries(r, Top.arg))
       IN /\ Charge(r, own)
          /\ UNCHANGED service_map
          /\ Send(TopAt("tail"), r, Top.src, "SLAVEREPLY",
                  MMDSSlaveRequestReply(IF Top.arg.op = "LISTDIR" THEN own ELSE <<>>))

\* A slave that the directory itself belongs to, or that is asked about one
\* that belongs to nobody, answers nothing and succeeds.
HandleSlaveRequest(r) ==
  /\ ~ub /\ Called(r, "SLAVEREQ")
  /\ IF Mine(r, Top.arg.fullpath)
     THEN Return(TRUE) /\ UNCHANGED <<service_map, charged>>
     ELSE MayFollow(heap, Top.arg.ino) /\ SlaveOp(r)
  /\ UNCHANGED <<fsVars, callback_inolist, cacheVars, callback, callVars, ub, applied>>

HandleSlaveReply(r) ==
  /\ ~ub /\ Called(r, "SLAVEREPLY")
  /\ callback_inolist' = [callback_inolist EXCEPT ![r] = @ \o Top.arg.list]
  /\ Return(TRUE)
  /\ UNCHANGED <<service_map, fsVars, cacheVars, callback, callVars, ub, historyVars>>

\* The handlers that follow the pointer of a request before they can tell.
FollowsDeleted(r) ==
  /\ \/ /\ \E op \in {"CREATE", "MKDIR", "READ", "WRITE"} : Executes(r, op)
        /\ ~MayFollow(heap, Req.ino)
     \/ Executes(r, "RM") /\ ~MayDelete(heap, Req.ino)
     \/ ScansDirectory(r) /\ ~MayFollow(heap, Req.ino)
     \/ ScanDone(r, "RMDIR") /\ ~MayDelete(heap, Req.ino)
     \/ /\ ~ub /\ Called(r, "SLAVEREQ")
        /\ ~Mine(r, Top.arg.fullpath) /\ ~MayFollow(heap, Top.arg.ino)
  /\ Undefined

HandleReturn ==
  /\ ~ub /\ ReturnTail
  /\ UNCHANGED <<fsVars, callback_inolist, cacheVars, callback, callVars, ub, historyVars>>
-----------------------------------------------------------------------------
MdsStep(r) ==
  \/ Forward(r)
  \/ OpLookup(r) \/ OpCreate(r) \/ OpMkdir(r) \/ OpRead(r) \/ OpWrite(r) \/ OpRm(r)
  \/ OpScan(r) \/ AskSlave(r) \/ SlaveReturns(r) \/ EndListdir(r) \/ EndRmdir(r)
  \/ HandleSlaveRequest(r) \/ HandleSlaveReply(r)
  \/ FollowsDeleted(r)

ClientStep ==
  \/ LookupCached \/ LookupRemote \/ LookupReturns
  \/ LooksAtDeleted \/ Answered \/ Request \/ RequestReturns
  \/ HandleReply

\* The "default: break" of the handlers has no step here: no message comes to
\* a process that has no handler for it, or the runs would end in a deadlock.
Step == ClientStep \/ (\E r \in Ranks : MdsStep(r)) \/ HandleReturn

Next == (\E c \in Calls : Begin(c)) \/ Register \/ Step

\* One thread, and nothing in it blocks: a call that was made is carried out.
Spec == Init /\ [][Next]_vars /\ WF_vars(Step)

(***************************************************************************)
(* A driver that knows what it has cached: it makes no call that would walk  *)
(* a path under which the cache has something else than the file system.    *)
(***************************************************************************)
RightlyCached(c) ==
  \A i \in DOMAIN cache :
    (\E k \in 1 .. Len(WalkOf(c)) : cache[i].key = WalkOf(c)[k]) =>
      cache[i].value = Lookup(heap, cache[i].key)

TakesNothingStale == \A c \in Calls : EnableCache /\ Begin(c) => RightlyCached(c)

FreshSpec == Init /\ [][Next /\ TakesNothingStale]_vars
-----------------------------------------------------------------------------
(***************************************************************************)
(* Properties.                                                             *)
(***************************************************************************)
InodesOf(h) == DOMAIN h
RequestType(m) ==
  /\ m.op \in {"LOOKUP"} \cup {RequestOp[op] : op \in DOMAIN RequestOp}
  /\ m.ino \in InodesOf(heap) \cup {Null}

\* Every variable has its type; a message carries what its type says.
TypeOK ==
  /\ \A h \in Hosts : IsPortTable(service_map[h], 0, Ranks) /\ IsPortTable(proc_revmap[h], RevBase, Procs)
  /\ strategy \in Strategies
  /\ size \in InitialSize .. MaxRanks
  /\ \A i \in DOMAIN heap : heap[i].entries \subseteq InodesOf(heap)
  /\ \A k \in DOMAIN stack :
       LET f == stack[k]
       IN CASE f.type = "CLIENTREQ"  -> f.by = Client /\ f.to \in Ranks /\ RequestType(f.arg)
            [] f.type = "FORWARD"    -> {f.by, f.to} \subseteq Ranks /\ RequestType(f.arg.req)
            [] f.type = "REPLY"      -> f.by \in Ranks /\ f.to = Client /\ f.arg.from = f.by
            [] f.type = "SLAVEREQ"   -> {f.by, f.to} \subseteq Ranks /\ f.by # f.to
            [] f.type = "SLAVEREPLY" -> {f.by, f.to} \subseteq Ranks
  /\ Len(cache) <= CacheSize
  /\ \A i \in DOMAIN cache : cache[i].value \in InodesOf(heap)
  /\ \A p \in DOMAIN routetable : routetable[p] \in Ranks
  /\ client.pc \in {"idle", "walk", "looking", "found", "asked"}
  /\ client.ino \in InodesOf(heap) \cup {Null}
  /\ call = Nil <=> client.pc = "idle"
  /\ {result, ub} \subseteq BOOLEAN

\* No deleted inode is followed.
NoUseAfterFree == ~ub

\* A handler that has yet to answer holds an address that leads to the
\* process that asked: for a forwarded request the client, however many
\* ports the sends in between have taken and given back.
AnswerReachesAsker ==
  \A k \in DOMAIN stack :
    LET f == stack[k]
    IN /\ f.type \in {"CLIENTREQ", "FORWARD"} /\ f.pc \in {"call", "scan", "slave"} =>
            Dispatch(service_map, proc_revmap, ReplyTo(f)) = Client
       /\ f.type = "SLAVEREQ" /\ f.pc = "call" =>
            Dispatch(service_map, proc_revmap, f.src) = f.by

\* No process has two sends in progress, so no inner send gives up the port
\* an outer one waits on, as the registration of an MDS does: whoever forwards
\* a request is neither the MDS that executes it nor one of its slaves.
NobodyWaitsTwice ==
  \A j, k \in DOMAIN stack : stack[j].by = stack[k].by => j = k

\* A request is forwarded at most once, to a rank that keeps it, and only the
\* routes a client has learned can need it: with the other strategies client
\* and MDS ask the same dispatcher about the same path.
ForwardedAtMostOnce ==
  LET forwards == {k \in DOMAIN stack : stack[k].type = "FORWARD"}
  IN /\ Cardinality(forwards) <= 1
     /\ forwards # {} => strategy = "subtree"

\* An MDS that has registered after the look-up table was made is never sent
\* anything under the two strategies that have the table: no request, no
\* forward, no part of a directory.  (Under hashing it is at once responsible
\* for its share of the paths, whoever created them.)
LateRanksAreIdle ==
  strategy # "hashing" =>
    \A k \in DOMAIN stack : stack[k].to # Client =>
      \E i \in DOMAIN lut : stack[k].to \in ToSet(lut[i])

\* A call that is to change the file system has its operation carried out once
\* if it returns TRUE and not at all if it returns FALSE; a call that only asks
\* has none.
Mutates(op) == op \in {"mknod", "mkdir", "rm", "rmdir", "write"}

Returning == call # Nil /\ call' = Nil

ExactlyOnce ==
  [][Returning => applied = (IF Mutates(call.op) /\ result' THEN 1 ELSE 0)]_vars

IsEachOnce(s, inodes) == Len(s) = Cardinality(inodes) /\ ToSet(s) = inodes

\* The master and the slaves decide one by one, each with the dispatcher as it
\* is, which entries are theirs.  At the end no entry was left to nobody and
\* none was taken by two, although each of them takes those that belong to
\* nobody and a slave asked about a directory of nobody's does nothing.
ScanEnds == \E r \in Ranks : EndListdir(r) \/ EndRmdir(r)

EntriesChargedOnce ==
  [][ScanEnds => IsEachOnce([k \in DOMAIN charged' |-> charged'[k][2]], heap[Req.ino].entries)]_vars

\* Nothing was removed, and no directory has two entries of one name.
OnlyGrown ==
  \A i \in DOMAIN heap :
    /\ heap[i].alive
    /\ \A j, k \in heap[i].entries : heap[j].name = heap[k].name => j = k

\* As long as the file system has only grown, the client's cache agrees with it
\* on every path it has, through whatever walks, forwards and evictions the
\* entries have come and gone.  (Nothing is said of it later: an entry may be
\* that of an inode whose memory was given back, and perhaps to another one.)
CacheIsCoherent ==
  OnlyGrown => \A i \in DOMAIN cache : cache[i].value = Lookup(heap, cache[i].key)

Service == INSTANCE PathService WITH done <- applied > 0, out <- callback

\* What a driver may rely on: whatever MDSs a call goes through, it is one
\* atomic operation on the file system, and its result says what it did.
Atomic == Service!Spec

\* Every call returns, unless it follows a deleted inode.
CallsReturn == call # Nil ~> call = Nil \/ ub
=============================================================================
