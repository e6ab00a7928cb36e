------------------------- MODULE PathService_proofs -------------------------
(***************************************************************************)
(* What a client that takes nothing stale from its cache may rely on; that a *)
(* client without a cache and a driver that only adds are such; and that the *)
(* requests of one that knows every MDS implement the file system of         *)
(* PathService.  First what becomes of a call's request: no message is lost, *)
(* a request is refused only for a reason, and an answer has what was asked  *)
(* for.  Then, step by step, what each of the steps on the way is to         *)
(* PathService; and then the cache.                                         *)
(***************************************************************************)
EXTENDS Requests_proofs

\* The address of an MDS is one.
LEMMA MdsHasEntity ==
  ASSUME NEW r \in Ranks
  PROVE  MdsEntity(r) # Nil /\ r # Nil
<1>1. r \in Procs /\ HostOf[r] \in Hosts
  BY ProcsType, HostsAssumption
<1>2. Cardinality(Earlier(r)) \in Nat
  BY EarlierAreFinite, FS_CardinalityType
<1>3. MdsEntity(r) = [host |-> HostOf[r], port |-> Cardinality(Earlier(r))]
  BY DEF MdsEntity, Entity, Earlier
<1> QED
  BY <1>1, <1>2, <1>3, NilIsNoEntity, NilAssumption

\* What is sent to an MDS that serves arrives.
LEMMA MdsIsReached ==
  ASSUME ServicesIInv, NEW q \in Serving, NEW caller, NEW p, NEW type, NEW arg,
         Send(caller, p, MdsEntity(q), type, arg), UNCHANGED service_map
  PROVE  ret' = TRUE
<1>1. PICK e : e = MdsEntity(q)
  OBVIOUS
<1>2. e # Nil /\ q # Nil
  BY <1>1, ServingLeads, MdsHasEntity
<1>3. \A rev : Dispatch(service_map', rev, e) = q
  BY <1>1, ServingLeads
<1> QED
  BY <1>1, <1>2, <1>3 DEF Send

\* So does the answer of a slave.
LEMMA SlaveAnswerArrives ==
  ASSUME DataIInv, stack # <<>>, Top.type = "SLAVEREQ", Top.pc = "call", NEW r \in Ranks, Top.to = r,
         NEW arg, Send(TopAt("tail"), r, Top.src, "SLAVEREPLY", arg), UNCHANGED service_map
  PROVE  ret' = TRUE /\ Dispatch(service_map', proc_revmap', Top.src) = Top.by
<1> DEFINE e == Top.src
           port == FindOrFreePort(proc_revmap[HostOf[r]], RevBase, r)
           rev == [proc_revmap EXCEPT ![HostOf[r]] = Bind(@, port, r)]
<1>1. /\ RevIInv /\ ShapeIInv /\ ServicesIInv /\ FrameType(Top) /\ BoundIn(proc_revmap, Top)
      /\ Top.by \in Ranks
  <2>1. RevIInv /\ ShapeIInv /\ ServicesIInv /\ FrameType(Top) /\ FrameOK(DOMAIN heap, Serving, Top)
    BY TopFrame
  <2> QED
    BY <2>1, ServingLeads DEF FrameOK, ShapeIInv
<1>2. /\ e.host \in Hosts /\ e.port >= RevBase /\ e.port \in Nat /\ RevBase \in Nat
      /\ e = Entity(e.host, e.port) /\ Top.by # Nil
      /\ e.port \in DOMAIN proc_revmap[e.host] /\ proc_revmap[e.host][e.port] = Top.by
  BY <1>1, ProcsType, HostsAssumption, RevBaseAssumption, NilAssumption DEF BoundIn, FrameType, RevPorts
<1>3. e.port \notin DOMAIN service_map'[e.host]
  BY <1>1, <1>2, ServicesLead
<1>4. e # Nil
  BY <1>2, NilIsNoEntity DEF Entity
<1>5. proc_revmap = [h \in Hosts |-> proc_revmap[h]] /\ HostOf[r] \in Hosts
  BY <1>1, ProcsType, HostsAssumption DEF RevIInv, RevTables
<1>6. Send(TopAt("tail"), r, e, "SLAVEREPLY", arg)
  OBVIOUS
<1> HIDE DEF e, port
<1>7. e.port \in DOMAIN rev[e.host] /\ rev[e.host][e.port] = Top.by
  BY <1>2, <1>5 DEF Bind
<1> HIDE DEF rev
<1>8. Dispatch(service_map', rev, e) = Top.by
  BY <1>3, <1>7 DEF Dispatch
<1>9. ret' = TRUE /\ proc_revmap' = rev
  BY <1>2, <1>4, <1>6, <1>8 DEF Send, rev, port
<1> QED
  BY <1>8, <1>9 DEF e

\* And so does a request of the client, if it knows all MDSs.
LEMMA ClientRequestArrives ==
  ASSUME HashIsNat, KnownRanks = Ranks, DataIInv, stack = <<>>,
         NEW op, NEW p \in Path, NEW name, NEW ino, NEW data, SendRequest(op, p, name, ino, data)
  PROVE  /\ ret' = TRUE
         /\ \E to : Starts(MClientRequest(op, p, name, ino, data), to)
<1>1. PICK arg, e : /\ arg = MClientRequest(op, p, name, ino, data) /\ e = Target(p)
                    /\ Send(<<>>, Client, e, "CLIENTREQ", arg) /\ UNCHANGED service_map
  BY DEF SendRequest
<1>2. ServicesIInv /\ TreeIInv /\ RoutesOK(Serving, routetable) /\ IsStack(<<>>)
  BY DEF DataIInv, AskerIInv, RequestsIInv, RevIInv
<1>3. e # Nil
  <2>1. FindRoute(p) \in Serving \cup {NoRank} /\ Serving \subseteq Ranks /\ 0 \in Serving
    BY <1>2, FindRouteServes, ServingLeads
  <2> QED
    BY <1>1, <2>1, MdsHasEntity DEF Target
<1>4. PICK q \in Serving : e = MdsEntity(q)
  BY <1>1, <1>2, <1>3, TargetLeads
<1>5. ret' = TRUE
  BY <1>1, <1>2, <1>4, MdsIsReached
<1>6. stack' # <<>>
  <2>1. Pushes(<<>>, Client, e, "CLIENTREQ", arg)
    BY <1>1, <1>2, <1>5, SendFrames
  <2>2. Len(<<>>) = 0
    BY EmptySeq
  <2> QED
    BY <2>1, <2>2 DEF Pushes
<1> QED
  BY <1>5, <1>6, ClientSends

\* What the client has asked for: it has the inode of its path, until that
\* has changed.
AskedForIt ==
  /\ applied = 0 =>
       /\ client.ino = Lookup(heap, WalkTo(call))
       /\ call.op = "rmdir" => heap[client.ino].isDir
  /\ stack # <<>> =>
       stack[1].arg = MClientRequest(RequestOp[call.op], call.path,
                        IF CreatesEntry(call.op) THEN BaseName(call.path) ELSE "",
                        client.ino, call.data)

\* A directory is gone through: what the executing MDS has in its list, with
\* what was sent to it since, is what was charged.
Gathers(list, sent) ==
  /\ heap[client.ino].isDir
  /\ call.op = "lsdir" =>
       list \in Seq(Nat) /\ sent \in Seq(Nat) /\ ChargedInodes = list \o sent

\* A request that is neither answered nor refused: where it is.
Arriving == IsRequest(Top) /\ Top.pc = "call"

Scanning == Top.pc = "scan" /\ Gathers(Top.local.list, <<>>)

Resuming == Top.pc = "slave" /\ ret = TRUE /\ Gathers(Top.local.list, callback_inolist[Top.to])

AtSlave ==
  /\ Top.type = "SLAVEREQ"
  /\ Top.pc = "call" => Top.arg.op = RequestOp[call.op]
  /\ Top.pc # "call" => ret = TRUE
  /\ LET f == stack[Len(stack) - 1] IN Gathers(f.local.list, callback_inolist[f.to])

SlaveAnswers ==
  /\ Top.type = "SLAVEREPLY" /\ Top.pc = "call"
  /\ LET f == stack[Len(stack) - 2]
     IN /\ Top.to = f.to /\ Top.arg.list \in Seq(Nat)
        /\ Gathers(f.local.list, callback_inolist[f.to] \o Top.arg.list)

Pending ==
  /\ stack # <<>> /\ applied = 0 /\ callback.list = <<>>
  /\ Arriving \/ Scanning \/ Resuming \/ AtSlave \/ SlaveAnswers

\* A request that was refused: there is the entry already, or no directory.
Refused ==
  /\ applied = 0 /\ ret = FALSE
  /\ \A k \in DOMAIN stack : IsRequest(stack[k]) /\ stack[k].pc = "tail"
  /\ \/ call.op = "mkdir" /\ GetSub(heap, client.ino, BaseName(call.path)) # Null
     \/ call.op = "lsdir" /\ ~heap[client.ino].isDir

\* A request that was answered, and what the client has then of the answer.
Replying == stack # <<>> /\ Top.pc = "call"

List == IF Replying THEN callback.list \o Top.arg.list ELSE callback.list
Data == IF Replying THEN Top.arg.data ELSE callback.data

Served ==
  /\ \A k \in DOMAIN stack :
       stack[k].type = "REPLY" \/ (IsRequest(stack[k]) /\ stack[k].pc = "tail")
  /\ Replying \/ ret = TRUE
  /\ call.op = "read" => Data = heap[client.ino].content
  /\ call.op = "lsdir" => heap[client.ino].isDir /\ IsEachOnce(List, heap[client.ino].entries)

\* The inductive invariant, with those before.
OutcomeIInv ==
  /\ callback_inolist \in [Ranks -> Seq(Nat)]
  /\ {"ino", "list", "data"} \subseteq DOMAIN callback
  /\ client.pc = "looking" /\ Lookup(heap, Walk[client.at]) # Null => callback.ino # Null \/ Replying
  /\ client.pc = "asked" => AskedForIt /\ (Pending \/ Refused \/ Served)

\* What was asked for stays that.
LEMMA AskedForStays ==
  ASSUME AskedForIt, UNCHANGED <<call, client>>, stack' # <<>> => stack # <<>> /\ stack'[1].arg = stack[1].arg,
         (UNCHANGED heap /\ applied' = applied) \/ applied' # 0
  PROVE  AskedForIt'
BY DEF AskedForIt, WalkTo

\* The request at the top is that.
LEMMA TopIsAskedFor ==
  ASSUME DataIInv, ChainIInv, AppliedIInv, AskedForIt, client.pc = "asked", stack # <<>>, IsRequest(Top)
  PROVE  /\ call.op \in DOMAIN RequestOp /\ call \in Calls
         /\ Req.op = RequestOp[call.op] /\ Req.fullpath = call.path /\ Req.ino = client.ino /\ Req.data = call.data
         /\ Req.name = IF CreatesEntry(call.op) THEN BaseName(call.path) ELSE ""
         /\ Req.op = "CREATE" <=> call.op = "mknod"
         /\ Req.op = "MKDIR" <=> call.op = "mkdir"
         /\ Req.op = "RM" <=> call.op = "rm"
         /\ Req.op = "RMDIR" <=> call.op = "rmdir"
         /\ Req.op = "READ" <=> call.op = "read"
         /\ Req.op = "WRITE" <=> call.op = "write"
         /\ Req.op = "LISTDIR" <=> call.op = "lsdir"
<1>1. call.op \in DOMAIN RequestOp /\ call \in Calls
  BY DEF AppliedIInv, DataIInv, WalkIInv
<1>2. Req = stack[1].arg
  BY RequestIsFirst
<1>3. /\ Req.op = RequestOp[call.op] /\ Req.fullpath = call.path /\ Req.ino = client.ino /\ Req.data = call.data
      /\ Req.name = IF CreatesEntry(call.op) THEN BaseName(call.path) ELSE ""
  <2>1. PICK name : name = IF CreatesEntry(call.op) THEN BaseName(call.path) ELSE ""
    OBVIOUS
  <2>2. Req = MClientRequest(RequestOp[call.op], call.path, name, client.ino, call.data)
    BY <1>2, <2>1 DEF AskedForIt
  <2> QED
    BY <2>1, <2>2 DEF MClientRequest
<1>4. \A op \in DOMAIN RequestOp :
         /\ RequestOp[op] = "CREATE" <=> op = "mknod"
         /\ RequestOp[op] = "MKDIR" <=> op = "mkdir"
         /\ RequestOp[op] = "RM" <=> op = "rm"
         /\ RequestOp[op] = "RMDIR" <=> op = "rmdir"
         /\ RequestOp[op] = "READ" <=> op = "read"
         /\ RequestOp[op] = "WRITE" <=> op = "write"
         /\ RequestOp[op] = "LISTDIR" <=> op = "lsdir"
  BY DEF RequestOp
<1>5. PICK o, q : o = call.op /\ q = RequestOp[o]
  OBVIOUS
<1>6. /\ q = "CREATE" <=> o = "mknod"
      /\ q = "MKDIR" <=> o = "mkdir"
      /\ q = "RM" <=> o = "rm"
      /\ q = "RMDIR" <=> o = "rmdir"
      /\ q = "READ" <=> o = "read"
      /\ q = "WRITE" <=> o = "write"
      /\ q = "LISTDIR" <=> o = "lsdir"
  BY <1>1, <1>4, <1>5
<1>7. Req.op = q /\ call.op = o
  BY <1>3, <1>5
<1> QED
  BY <1>1, <1>3, <1>6, <1>7

\* What a send leaves that arrives: the handler under it is at pc, with local.
Pushed(n, pc, local, e, type, arg) ==
  /\ n = Len(stack) /\ n \in Nat \ {0} /\ DOMAIN stack = 1 .. n /\ Top = stack[n]
  /\ Len(stack') = n + 1 /\ DOMAIN stack' = 1 .. n + 1
  /\ \A k \in 1 .. n - 1 : stack'[k] = stack[k]
  /\ Moved(stack'[n], pc) /\ stack'[n].local = local
  /\ stack'[1].arg = stack[1].arg
  /\ stack' # <<>> /\ Top' = stack'[n + 1]
  /\ stack'[n + 1].type = type /\ stack'[n + 1].arg = arg /\ stack'[n + 1].pc = "call"
  /\ stack'[n + 1].to = Dispatch(service_map', proc_revmap', e)

\* It does.
LEMMA SentAbove ==
  ASSUME DataIInv, stack # <<>>, NEW pc, NEW local, NEW r \in Ranks, NEW e, NEW type, NEW arg,
         \/ Send(TopAt(pc), r, e, type, arg) /\ local = Top.local
         \/ Send(TopWith(pc, local), r, e, type, arg),
         ret' = TRUE
  PROVE  \E n : Pushed(n, pc, local, e, type, arg)
<1>0. PICK n : n = Len(stack)
  OBVIOUS
<1>1. /\ Continues(stack', stack'[n]) /\ stack'[n].pc = pc /\ stack'[n].local = local
      /\ Len(stack') = n + 1 /\ DOMAIN stack' = 1 .. n + 1
      /\ stack'[n + 1].type = type /\ stack'[n + 1].arg = arg /\ stack'[n + 1].pc = "call"
      /\ stack'[n + 1].to = Dispatch(service_map', proc_revmap', e)
  <2>1. /\ Continues(stack', stack'[Len(stack)])
        /\ stack'[Len(stack)].pc = pc /\ stack'[Len(stack)].local = local
        /\ Len(stack') = Len(stack) + 1 /\ DOMAIN stack' = 1 .. Len(stack) + 1
        /\ stack'[Len(stack) + 1].type = type /\ stack'[Len(stack) + 1].arg = arg
        /\ stack'[Len(stack) + 1].pc = "call"
        /\ stack'[Len(stack) + 1].to = Dispatch(service_map', proc_revmap', e)
    BY SendLeaves
  <2> QED
    BY <1>0, <2>1
<1>2. /\ n \in Nat \ {0} /\ DOMAIN stack = 1 .. n /\ Top = stack[n]
      /\ \A k \in 1 .. n - 1 : stack'[k] = stack[k]
      /\ Moved(stack'[n], pc)
  BY <1>0, <1>1 DEF Continues, Top, Moved
<1>3. stack'[1].arg = stack[1].arg
  BY <1>2 DEF Moved
<1>4. stack' # <<>> /\ Top' = stack'[n + 1]
  BY <1>1, <1>2 DEF Top
<1> QED
  BY <1>0, <1>1, <1>2, <1>3, <1>4 DEF Pushed

\* A request that is answered waits for the end of the answer.
LEMMA AnswerIsAbove ==
  ASSUME DataIInv, ChainIInv, AppliedIInv, stack # <<>>, IsRequest(Top),
         NEW r \in Ranks, NEW ino, NEW list, NEW data, Reply(r, ino, list, data)
  PROVE  /\ stack' # <<>> /\ stack'[1].arg = stack[1].arg
         /\ Top'.pc = "call" /\ Top'.arg.ino = ino /\ Top'.arg.list = list /\ Top'.arg.data = data
         /\ \A k \in DOMAIN stack' :
              stack'[k].type = "REPLY" \/ (IsRequest(stack'[k]) /\ stack'[k].pc = "tail")
         /\ UNCHANGED <<call, client, callback>>
<1>1. PICK e, arg, local : /\ arg = MClientRequestReply(r, Req.fullpath, ino, list, data)
                           /\ Send(TopAt("tail"), r, e, "REPLY", arg)
                           /\ local = Top.local
  BY DEF Reply
<1>2. ret' = TRUE
  BY ReplyArrives
<1>3. PICK n : Pushed(n, "tail", local, e, "REPLY", arg)
  BY <1>1, <1>2, SentAbove
<1>4. \A k \in 1 .. n - 1 : IsRequest(stack[k]) /\ stack[k].pc = "tail"
  BY <1>3, TopWants DEF Pushed
<1>5. IsRequest(stack'[n]) /\ stack'[n].pc = "tail"
  BY <1>3 DEF Moved, IsRequest, Pushed
<1>6. ASSUME NEW k \in DOMAIN stack'
      PROVE  stack'[k].type = "REPLY" \/ (IsRequest(stack'[k]) /\ stack'[k].pc = "tail")
  <2>1. k \in 1 .. n - 1 \/ k = n \/ k = n + 1
    BY <1>3 DEF Pushed
  <2> QED
    BY <1>3, <1>4, <1>5, <2>1 DEF Pushed
<1>7. arg.ino = ino /\ arg.list = list /\ arg.data = data
  BY <1>1 DEF MClientRequestReply
<1>8. UNCHANGED <<call, client, callback>>
  BY DEF Reply, callVars
<1> QED
  BY <1>3, <1>6, <1>7, <1>8 DEF Pushed

\* So is one that changes the file system, which is asked for no output.
LEMMA ChangeIsServed ==
  ASSUME DataIInv, ChainIInv, AppliedIInv, client.pc = "asked", AskedForIt,
         stack # <<>>, IsRequest(Top), Changes(Req.op),
         NEW r \in Ranks, NEW ino, NEW list, NEW data, Reply(r, ino, list, data)
  PROVE  Served'
<1>1. /\ stack' # <<>> /\ Top'.pc = "call" /\ call' = call
      /\ \A k \in DOMAIN stack' :
           stack'[k].type = "REPLY" \/ (IsRequest(stack'[k]) /\ stack'[k].pc = "tail")
  BY AnswerIsAbove
<1>2. call.op # "read" /\ call.op # "lsdir"
  <2>1. /\ Req.op = "READ" <=> call.op = "read"
        /\ Req.op = "LISTDIR" <=> call.op = "lsdir"
    BY TopIsAskedFor
  <2> QED
    BY <2>1 DEF Changes
<1> QED
  BY <1>1, <1>2 DEF Served, Replying, IsRequest

\* One that is refused returns to the client.
LEMMA FailIsRefused ==
  ASSUME DataIInv, ChainIInv, AppliedIInv, client.pc = "asked", AskedForIt, Pending,
         stack # <<>>, IsRequest(Top), Fail, UNCHANGED heap,
         \/ call.op = "mkdir" /\ GetSub(heap, client.ino, BaseName(call.path)) # Null
         \/ call.op = "lsdir" /\ ~heap[client.ino].isDir
  PROVE  AskedForIt' /\ Refused'
<1>1. Return(FALSE) /\ UNCHANGED <<call, client, applied>>
  BY DEF Fail, callVars, historyVars
<1>2. ret' = FALSE /\ applied' = 0
  BY <1>1 DEF Return, Pending
<1>3. stack' # <<>> => stack'[1].arg = stack[1].arg
  BY <1>1, ReturnKeepsFirst
<1>4. /\ DOMAIN stack' = 1 .. Len(stack) - 1
      /\ \A k \in DOMAIN stack' : stack'[k] = stack[k]
  BY <1>1, ReturnLeaves DEF DataIInv, AskerIInv, RequestsIInv
<1>5. \A k \in 1 .. Len(stack) - 1 : IsRequest(stack[k]) /\ stack[k].pc = "tail"
  BY TopWants
<1>6. \A k \in DOMAIN stack' : IsRequest(stack'[k]) /\ stack'[k].pc = "tail"
  BY <1>4, <1>5
<1>7. AskedForIt'
  BY <1>1, <1>3, AskedForStays
<1> QED
  BY <1>1, <1>2, <1>6, <1>7 DEF Refused, IsRequest

\* What was gathered stays that, unless more is charged.
LEMMA GatheredStays ==
  ASSUME NEW list, NEW sent, Gathers(list, sent), UNCHANGED <<heap, call, client, charged>>
  PROVE  Gathers(list, sent)'
BY DEF Gathers, ChargedInodes

\* Joining nothing.
LEMMA NothingJoined ==
  ASSUME NEW s \in Seq(Nat)
  PROVE  s \o <<>> = s /\ <<>> \o s = s /\ <<>> \in Seq(Nat)
BY ConcatEmptySeq, EmptySeq

\* It does not matter which two of three are joined first.
LEMMA JoinedThrice ==
  ASSUME NEW s \in Seq(Nat), NEW t \in Seq(Nat), NEW u \in Seq(Nat)
  PROVE  (s \o t) \o u = s \o (t \o u) /\ t \o u \in Seq(Nat)
<1>1. (s \o t) \o u = s \o (t \o u)
  BY ConcatAssociative, SMT
<1>2. t \o u \in Seq(Nat)
  BY ConcatProperties
<1> QED
  BY <1>1, <1>2

\* Where a request is tells what has become of it.
LEMMA PhaseAtTop ==
  ASSUME DataIInv, client.pc = "asked", OutcomeIInv, stack # <<>>
  PROVE  /\ AskedForIt
         /\ IsRequest(Top) /\ Top.pc = "call" => Pending
         /\ Top.pc = "scan" => Pending /\ Scanning
         /\ Top.pc = "slave" => Pending /\ Resuming
         /\ Top.type = "SLAVEREQ" => Pending /\ AtSlave
         /\ Top.type = "SLAVEREPLY" => Pending /\ SlaveAnswers
<1>1. PICK f : f = Top
  OBVIOUS
<1>2. /\ \E k \in DOMAIN stack : f = stack[k]
      /\ FrameType(f)
  BY <1>1, TopFrame, TopShape DEF DataIInv, AskerIInv, RequestsIInv
<1>3. AskedForIt /\ (Pending \/ Refused \/ Served)
  BY DEF OutcomeIInv
<1>4. f.pc \in {"call", "tail", "scan", "slave"} /\ (f.pc \in {"scan", "slave"} => IsRequest(f))
  BY <1>2 DEF FrameType, IsRequest
<1>5. Refused => IsRequest(f) /\ f.pc = "tail"
  BY <1>2 DEF Refused
<1>6. Served => f.type = "REPLY" \/ (IsRequest(f) /\ f.pc = "tail")
  BY <1>2 DEF Served
<1>7. Pending => \/ IsRequest(f) /\ f.pc = "call"
                 \/ f.pc = "scan" /\ Scanning
                 \/ f.pc = "slave" /\ Resuming
                 \/ f.type = "SLAVEREQ" /\ AtSlave
                 \/ f.type = "SLAVEREPLY" /\ SlaveAnswers
  BY <1>1 DEF Pending, Arriving, Scanning, Resuming, AtSlave, SlaveAnswers
<1>8. IsRequest(f) <=> f.type = "CLIENTREQ" \/ f.type = "FORWARD"
  BY DEF IsRequest
<1>9. IsRequest(f) /\ f.pc = "call" => Pending
  BY <1>3, <1>5, <1>6, <1>8
<1>10. f.pc = "scan" => Pending /\ Scanning
  BY <1>3, <1>4, <1>5, <1>6, <1>7, <1>8
<1>11. f.pc = "slave" => Pending /\ Resuming
  BY <1>3, <1>4, <1>5, <1>6, <1>7, <1>8
<1>12. f.type = "SLAVEREQ" => Pending /\ AtSlave
  BY <1>3, <1>4, <1>5, <1>6, <1>7, <1>8
<1>13. f.type = "SLAVEREPLY" => Pending /\ SlaveAnswers
  BY <1>3, <1>4, <1>5, <1>6, <1>7, <1>8
<1> QED
  BY <1>1, <1>3, <1>9, <1>10, <1>11, <1>12, <1>13

\* A request that is forwarded arrives.
LEMMA ForwardArrives ==
  ASSUME HashIsNat, DataIInv, NEW r \in Ranks, Forward(r)
  PROVE  /\ stack # <<>> /\ IsRequest(Top) /\ Top.pc = "call" /\ ret' = TRUE
         /\ stack' # <<>> /\ stack'[1].arg = stack[1].arg
         /\ IsRequest(Top') /\ Top'.pc = "call"
<1>1. stack # <<>> /\ IsRequest(Top) /\ Top.pc = "call"
  BY DEF Forward, Asked, Called, IsRequest
<1>2. ServicesIInv /\ RequestOK(DOMAIN heap, Req)
  BY <1>1, TopFrame DEF IsRequest
<1>3. PICK q, arg, local : /\ q = OwnerOf(Req.fullpath) /\ local = Top.local
                           /\ Send(TopAt("tail"), r, MdsEntity(q), "FORWARD", arg)
  BY DEF Forward
<1>4. q \in Serving
  <2>1. q \in Serving \cup {NoRank}
    BY <1>2, <1>3, OwnerServes DEF DataIInv, TreeIInv, ServicesIInv, RequestOK
  <2> QED
    BY <1>3, <2>1 DEF Forward, Mine
<1>5. PICK e : e = MdsEntity(q)
  OBVIOUS
<1>6. ret' = TRUE
  BY <1>2, <1>3, <1>4, MdsIsReached DEF Forward
<1>7. PICK n : Pushed(n, "tail", local, e, "FORWARD", arg)
  BY <1>1, <1>3, <1>5, <1>6, SentAbove
<1> QED
  BY <1>1, <1>6, <1>7 DEF Pushed, IsRequest

\* It goes on.
LEMMA ForwardPends ==
  ASSUME HashIsNat, DataIInv, client.pc = "asked", OutcomeIInv, NEW r \in Ranks, Forward(r)
  PROVE  AskedForIt' /\ Pending'
<1>1. /\ stack # <<>> /\ IsRequest(Top) /\ Top.pc = "call"
      /\ stack' # <<>> /\ stack'[1].arg = stack[1].arg
      /\ IsRequest(Top') /\ Top'.pc = "call"
  BY ForwardArrives
<1>2. UNCHANGED <<heap, call, client, applied, callback>>
  BY DEF Forward, fsVars, callVars, historyVars
<1>3. AskedForIt /\ Pending
  BY <1>1, PhaseAtTop
<1>4. AskedForIt'
  BY <1>1, <1>2, <1>3, AskedForStays
<1> QED
  BY <1>1, <1>2, <1>3, <1>4 DEF Pending, Arriving, IsRequest

\* A handler that moves on to a scan is at the top, with what it has.
LEMMA ScanIsOnTop ==
  ASSUME DataIInv, stack # <<>>, NEW local, stack' = TopWith("scan", local)
  PROVE  /\ stack' # <<>> /\ stack'[1].arg = stack[1].arg
         /\ Top'.pc = "scan" /\ Top'.local = local /\ Top'.to = Top.to
<1>1. PICK n : n = Len(stack)
  OBVIOUS
<1>2. RevIInv /\ ShapeIInv /\ n \in Nat \ {0} /\ DOMAIN stack = 1 .. n /\ Top = stack[n]
  BY <1>1, TopShape DEF DataIInv, AskerIInv, RequestsIInv
<1>3. PICK f : TopReplaced(stack', f) /\ Moved(f, "scan") /\ f.local = local
  BY <1>2, ScanMoves
<1>4. /\ Len(stack') = n /\ DOMAIN stack' = 1 .. n /\ stack'[n] = f
      /\ \A k \in 1 .. n - 1 : stack'[k] = stack[k]
  BY <1>1, <1>3 DEF TopReplaced
<1>5. stack' # <<>> /\ Top' = f
  BY <1>2, <1>4, EmptySeq DEF Top
<1>6. stack'[1].arg = stack[1].arg
  BY <1>2, <1>3, <1>4 DEF Moved
<1> QED
  BY <1>3, <1>5, <1>6 DEF Moved

\* The list of an MDS's own entries lists inodes.
LEMMA OwnListIs ==
  ASSUME DataIInv, NEW r, NEW m, m.ino \in DOMAIN heap
  PROVE  InOrder(OwnEntries(r, m)) \in Seq(Nat)
<1>1. PICK S : S = OwnEntries(r, m)
  OBVIOUS
<1>2. S \subseteq heap[m.ino].entries
  BY <1>1 DEF OwnEntries
<1>3. S \in SUBSET Nat /\ IsFiniteSet(S)
  BY <1>2, EntriesAre, FS_Subset DEF DataIInv
<1> QED
  BY <1>1, <1>3, InOrderIsOnce

\* The directory's own entries are listed.
LEMMA ScanPends ==
  ASSUME HashIsNat, DataIInv, ChainIInv, AppliedIInv, ChargedIInv, client.pc = "asked", OutcomeIInv,
         NEW r \in Ranks, OpScan(r), heap[Req.ino].isDir
  PROVE  AskedForIt' /\ Pending'
<1>0. PICK others, own : others = Others(r, Req) /\ own = InOrder(OwnEntries(r, Req))
  OBVIOUS
<1> DEFINE local == [others |-> others, list |-> own]
<1>1. /\ stack # <<>> /\ Top.pc = "call" /\ IsRequest(Top) /\ RequestOK(DOMAIN heap, Req)
      /\ Req.op \in {"RMDIR", "LISTDIR"}
  BY RequestAtTop DEF OpScan, ScansDirectory, IsRequest
<1>2. /\ stack' = TopWith("scan", local)
      /\ Charge(r, IF Req.op = "LISTDIR" THEN own ELSE <<>>)
      /\ UNCHANGED <<heap, call, client, applied, callback>>
  BY <1>0 DEF OpScan, fsVars, callVars
<1>3. local.list = own
  OBVIOUS
<1> HIDE DEF local
<1>4. /\ stack' # <<>> /\ stack'[1].arg = stack[1].arg
      /\ Top'.pc = "scan" /\ Top'.local = local
  BY <1>1, <1>2, ScanIsOnTop
<1>5. AskedForIt /\ Pending
  BY <1>1, PhaseAtTop
<1>6. AskedForIt'
  <2>1. UNCHANGED <<call, client>> /\ UNCHANGED heap /\ applied' = applied
    BY <1>2
  <2> QED
    BY <1>1, <1>4, <1>5, <2>1, AskedForStays
<1>7. Req.ino = client.ino /\ (Req.op = "LISTDIR" <=> call.op = "lsdir")
  BY <1>1, <1>5, TopIsAskedFor
<1>8. own \in Seq(Nat)
  BY <1>0, <1>1, OwnListIs DEF RequestOK
<1>9. ASSUME call.op = "lsdir" PROVE ChargedInodes' = own \o <<>>
  <2>1. charged = <<>>
    BY <1>1 DEF ChargedIInv
  <2>2. charged \in Seq(Ranks \X Nat) /\ Charge(r, own)
    BY <1>2, <1>7, <1>9, <2>1, NothingCharged
  <2>3. ChargedInodes' = ChargedInodes \o own
    BY <1>8, <2>2, ChargeAppends
  <2>4. ChargedInodes = <<>>
    BY <2>1, EmptySeq DEF ChargedInodes
  <2> QED
    BY <1>8, <2>3, <2>4, NothingJoined
<1>10. Gathers(own, <<>>)'
  BY <1>2, <1>7, <1>8, <1>9, NothingJoined DEF Gathers
<1>11. Scanning'
  <2>1. PICK l : l = Top'.local.list
    OBVIOUS
  <2>2. l = own
    BY <1>3, <1>4, <2>1
  <2> QED
    BY <1>4, <1>10, <2>1, <2>2 DEF Scanning
<1> QED
  BY <1>2, <1>4, <1>5, <1>6, <1>11 DEF Pending

\* A scan has a list.
LEMMA ScanHasList ==
  ASSUME DataIInv, ChainIInv, AppliedIInv, ChargedIInv, applied = 0, stack # <<>>, Top.pc \in {"scan", "slave"}
  PROVE  IsRequest(Top) /\ {"others", "list"} \subseteq DOMAIN Top.local
<1>1. PICK n : n = Len(stack)
  OBVIOUS
<1>2. n \in DOMAIN stack /\ Top = stack[n] /\ Scans(n)
  BY <1>1, TopShape DEF DataIInv, AskerIInv, RequestsIInv, Scans
<1>3. ScanAgrees(n)
  BY <1>2 DEF ChargedIInv, ScansAgree
<1>4. ScanGood(Top)
  BY <1>2, <1>3 DEF ScanAgrees
<1> QED
  BY <1>2, <1>4, ScanIsAt DEF ScanGood

\* The next MDS is asked, and nothing was sent yet.
LEMMA AskPends ==
  ASSUME HashIsNat, DataIInv, ChainIInv, AppliedIInv, ChargedIInv, client.pc = "asked", OutcomeIInv,
         NEW r \in Ranks, AskSlave(r)
  PROVE  AskedForIt' /\ Pending' /\ callback_inolist' \in [Ranks -> Seq(Nat)]
<1>1. stack # <<>> /\ Top.pc = "scan" /\ Top.to = r /\ Top.local.others # <<>>
  BY DEF AskSlave, Resumed
<1>2. AskedForIt /\ Pending /\ Scanning /\ applied = 0
  BY <1>1, PhaseAtTop DEF Pending
<1>3. IsRequest(Top) /\ {"others", "list"} \subseteq DOMAIN Top.local
  BY <1>1, <1>2, ScanHasList
<1>4. PICK op, arg, others, l, local, q :
        /\ op = Req.op /\ arg = MMDSSlaveRequest(op, Req.fullpath, Req.ino)
        /\ others = Top.local.others /\ l = Top.local.list
        /\ local = [Top.local EXCEPT !.others = Tail(@)] /\ q = Head(others)
  OBVIOUS
<1>5. Send(TopWith("slave", local), r, MdsEntity(q), "SLAVEREQ", arg) /\ UNCHANGED service_map
  BY <1>4 DEF AskSlave
<1>6. local.list = l /\ arg.op = op
  BY <1>3, <1>4 DEF MMDSSlaveRequest
<1>7. q \in Serving /\ ServicesIInv
  <2>1. FrameOK(DOMAIN heap, Serving, Top) /\ ServicesIInv
    BY <1>1, TopFrame
  <2>2. others \in Seq(Serving \ {r}) /\ others # <<>>
    BY <1>1, <1>4, <2>1 DEF FrameOK, LocalOK
  <2>3. Head(others) \in Serving
    BY <2>2, HeadTailProperties
  <2> QED
    BY <1>4, <2>1, <2>3
<1>8. PICK e : e = MdsEntity(q)
  OBVIOUS
<1>9. ret' = TRUE
  BY <1>5, <1>7, MdsIsReached
<1>10. PICK n : Pushed(n, "slave", local, e, "SLAVEREQ", arg)
  BY <1>1, <1>5, <1>8, <1>9, SentAbove
<1>11. UNCHANGED <<heap, call, client, applied, callback, charged>>
  BY DEF AskSlave, fsVars, callVars, historyVars
<1>12. AskedForIt'
  <2>1. UNCHANGED <<call, client>> /\ UNCHANGED heap /\ applied' = applied
    BY <1>11
  <2>2. stack' # <<>> /\ stack'[1].arg = stack[1].arg
    BY <1>10 DEF Pushed
  <2> QED
    BY <1>1, <1>2, <2>1, <2>2, AskedForStays
<1>13. op = RequestOp[call.op] /\ (op = "LISTDIR" <=> call.op = "lsdir")
  BY <1>1, <1>2, <1>3, <1>4, TopIsAskedFor
<1>14. callback_inolist' = IF op = "LISTDIR" THEN [callback_inolist EXCEPT ![r] = <<>>] ELSE callback_inolist
  BY <1>4 DEF AskSlave
<1>15. /\ callback_inolist' \in [Ranks -> Seq(Nat)]
       /\ op = "LISTDIR" => callback_inolist'[r] = <<>>
  BY <1>14, EmptySeq DEF OutcomeIInv
<1>16. PICK sent : sent = callback_inolist'[r]
  OBVIOUS
<1>17. Gathers(l, sent)'
  <2>1. Gathers(l, <<>>)
    BY <1>2, <1>4 DEF Scanning
  <2>2. Gathers(l, sent)
    BY <1>13, <1>15, <1>16, <2>1 DEF Gathers
  <2> QED
    BY <1>11, <2>2, GatheredStays
<1>18. AtSlave'
  <2>1. Top'.type = "SLAVEREQ" /\ Top'.pc = "call" /\ Top'.arg.op = RequestOp[call'.op]
    BY <1>6, <1>10, <1>11, <1>13 DEF Pushed
  <2>2. Len(stack') - 1 = n /\ stack'[n].local.list = l /\ stack'[n].to = r
    BY <1>1, <1>6, <1>10 DEF Pushed, Moved
  <2>3. PICK f : f = stack'[Len(stack') - 1]
    OBVIOUS
  <2>4. f.local.list = l /\ callback_inolist'[f.to] = sent
    BY <1>16, <2>2, <2>3
  <2> QED
    BY <1>17, <2>1, <2>3, <2>4 DEF AtSlave
<1> QED
  BY <1>2, <1>10, <1>11, <1>12, <1>15, <1>18 DEF Pending, Pushed

\* It has answered, or had nothing: what it has sent is put behind the list.
LEMMA SlaveReturnsPends ==
  ASSUME DataIInv, ChainIInv, AppliedIInv, ChargedIInv, client.pc = "asked", OutcomeIInv,
         NEW r \in Ranks, SlaveReturns(r)
  PROVE  AskedForIt' /\ Pending'
<1>1. stack # <<>> /\ Top.pc = "slave" /\ Top.to = r
  BY DEF SlaveReturns, Resumed
<1>2. AskedForIt /\ Pending /\ Resuming /\ applied = 0
  BY <1>1, PhaseAtTop DEF Pending
<1>3. IsRequest(Top) /\ {"others", "list"} \subseteq DOMAIN Top.local
  BY <1>1, <1>2, ScanHasList
<1>4. PICK l, sent, op, local :
        /\ l = Top.local.list /\ sent = callback_inolist[r] /\ op = Req.op
        /\ local = [Top.local EXCEPT !.list = IF op = "LISTDIR" THEN @ \o sent ELSE @]
  OBVIOUS
<1>5. stack' = TopWith("scan", local)
  BY <1>2, <1>4 DEF SlaveReturns, Resuming
<1>6. UNCHANGED <<heap, call, client, applied, callback, charged>>
  BY DEF SlaveReturns, fsVars, callVars, historyVars
<1>7. /\ stack' # <<>> /\ stack'[1].arg = stack[1].arg
      /\ Top'.pc = "scan" /\ Top'.local = local
  BY <1>1, <1>5, ScanIsOnTop
<1>8. AskedForIt'
  <2>1. UNCHANGED <<call, client>> /\ UNCHANGED heap /\ applied' = applied
    BY <1>6
  <2> QED
    BY <1>1, <1>2, <1>7, <2>1, AskedForStays
<1>9. op = "LISTDIR" <=> call.op = "lsdir"
  BY <1>1, <1>2, <1>3, <1>4, TopIsAskedFor
<1>10. local.list = IF op = "LISTDIR" THEN l \o sent ELSE l
  BY <1>3, <1>4
<1>11. PICK list : list = Top'.local.list
  OBVIOUS
<1>12. list = IF op = "LISTDIR" THEN l \o sent ELSE l
  BY <1>7, <1>10, <1>11
<1>13. Gathers(list, <<>>)'
  <2>1. Gathers(l, sent)
    BY <1>1, <1>2, <1>4 DEF Resuming
  <2>2. ASSUME call.op = "lsdir"
        PROVE  list \in Seq(Nat) /\ <<>> \in Seq(Nat) /\ ChargedInodes = list \o <<>>
    <3>1. l \in Seq(Nat) /\ sent \in Seq(Nat) /\ ChargedInodes = l \o sent
      BY <2>1, <2>2 DEF Gathers
    <3>2. list = l \o sent /\ l \o sent \in Seq(Nat)
      BY <1>9, <1>12, <2>2, <3>1, ConcatProperties
    <3> QED
      BY <3>1, <3>2, NothingJoined
  <2>3. Gathers(list, <<>>)
    BY <2>1, <2>2 DEF Gathers
  <2> QED
    BY <1>6, <2>3, GatheredStays
<1>14. Scanning'
  BY <1>7, <1>11, <1>13 DEF Scanning
<1> QED
  BY <1>2, <1>6, <1>7, <1>8, <1>14 DEF Pending

\* The MDS that is asked is one with an entry, and asked of the directory the
\* client has found.
LEMMA SlaveIsAsked ==
  ASSUME HashIsNat, DataIInv, ChainIInv, AppliedIInv, PathIInv, NamesPlain, ChargedIInv, AskedForIt,
         applied = 0, stack # <<>>, Top.type = "SLAVEREQ", NEW n, n = Len(stack)
  PROVE  /\ n \in Nat /\ n - 1 \in 1 .. n - 1 /\ Top = stack[n] /\ Top.by = stack[n - 1].to
         /\ client.pc = "asked" /\ client.ino \in DOMAIN heap /\ Top.arg.ino = client.ino
         /\ ~Mine(Top.to, Top.arg.fullpath)
<1>1. /\ n \in Nat /\ n - 1 \in 1 .. n - 1 /\ DOMAIN stack = 1 .. n /\ Top = stack[n]
      /\ Scans(n - 1) /\ client.pc = "asked"
  BY SlaveHasScan
<1>2. PICK k : k = n - 1
  OBVIOUS
<1>3. k \in DOMAIN stack /\ k < Len(stack) /\ k + 1 = n /\ Scans(k) /\ n \in DOMAIN stack /\ n > 1
  BY <1>1, <1>2
<1>4. PICK f, g, m : f = stack[k] /\ g = stack[n] /\ m = RequestIn(f)
  OBVIOUS
<1>5. ScanAgrees(k)
  BY <1>3 DEF ChargedIInv, ScansAgree
<1>6. ScanGood(f) /\ AskedOnce(f, g)
  BY <1>3, <1>4, <1>5 DEF ScanAgrees
<1>7. IsRequest(f) /\ m = stack[1].arg
  BY <1>3, <1>4, ScanIsAt
<1>8. m.ino = client.ino
  <2>1. PICK name : name = IF CreatesEntry(call.op) THEN BaseName(call.path) ELSE ""
    OBVIOUS
  <2>2. m = MClientRequest(RequestOp[call.op], call.path, name, client.ino, call.data)
    BY <1>7, <2>1 DEF AskedForIt
  <2> QED
    BY <2>2 DEF MClientRequest
<1>9. HasEntry(f.to, m, g.to) /\ g.arg.fullpath = m.fullpath /\ g.arg.ino = m.ino
  BY <1>4, <1>6 DEF AskedOnce
<1>10. PICK r, p : r = g.to /\ p = m.fullpath
  OBVIOUS
<1>11. ~Mine(r, p) /\ m.ino \in DOMAIN heap
  <2>1. HasEntry(f.to, m, r)
    BY <1>9, <1>10
  <2>2. ~Mine(r, m.fullpath) /\ m.ino \in DOMAIN heap
    BY <1>3, <1>4, <1>6, <1>7, <2>1, SlaveHasItsOwn
  <2> QED
    BY <1>10, <2>2
<1>12. FrameChain(stack, n)
  BY <1>3 DEF ChainIInv
<1>13. g.by = stack[n - 1].to
  BY <1>3, <1>4, <1>12 DEF FrameChain
<1> QED
  BY <1>1, <1>4, <1>8, <1>9, <1>10, <1>11, <1>13

\* A slave charges its entries and answers with them, if the directory is to
\* be listed.
LEMMA SlavePends ==
  ASSUME HashIsNat, DataIInv, ChainIInv, AppliedIInv, PathIInv, NamesPlain, ChargedIInv,
         client.pc = "asked", OutcomeIInv, NEW r \in Ranks, HandleSlaveRequest(r)
  PROVE  AskedForIt' /\ Pending'
<1>1. stack # <<>> /\ Top.type = "SLAVEREQ" /\ Top.pc = "call" /\ Top.to = r
  BY DEF HandleSlaveRequest, Called
<1>2. AskedForIt /\ Pending /\ AtSlave /\ applied = 0
  BY <1>1, PhaseAtTop DEF Pending
<1>3. PICK n, g, f : n = Len(stack) /\ g = Top /\ f = stack[n - 1]
  OBVIOUS
<1>4. /\ n \in Nat /\ n - 1 \in 1 .. n - 1 /\ g = stack[n] /\ g.by = f.to
      /\ client.ino \in DOMAIN heap /\ g.arg.ino = client.ino /\ ~Mine(r, g.arg.fullpath)
  <2>1. /\ n \in Nat /\ n - 1 \in 1 .. n - 1 /\ Top = stack[n] /\ Top.by = stack[n - 1].to
        /\ client.ino \in DOMAIN heap /\ Top.arg.ino = client.ino
        /\ ~Mine(Top.to, Top.arg.fullpath)
    BY <1>1, <1>2, <1>3, SlaveIsAsked
  <2> QED
    BY <1>1, <1>3, <2>1
<1>5. PICK own, list : own = InOrder(OwnEntries(r, g.arg)) /\ list = IF g.arg.op = "LISTDIR" THEN own ELSE <<>>
  OBVIOUS
<1>6. PICK arg, local, e : arg = MMDSSlaveRequestReply(list) /\ local = Top.local /\ e = g.src
  OBVIOUS
<1>7. Gathers(f.local.list, callback_inolist[f.to])
  BY <1>2, <1>3 DEF AtSlave
<1>8. Charge(r, own) /\ Send(TopAt("tail"), r, e, "SLAVEREPLY", arg) /\ UNCHANGED service_map
  <2>1. SlaveOp(r) /\ heap[g.arg.ino].isDir
    BY <1>3, <1>4, <1>7 DEF HandleSlaveRequest, Gathers
  <2> QED
    BY <1>3, <1>5, <1>6, <2>1 DEF SlaveOp
<1>9. ret' = TRUE /\ Dispatch(service_map', proc_revmap', e) = g.by
  BY <1>1, <1>3, <1>6, <1>8, SlaveAnswerArrives
<1>10. Pushed(n, "tail", local, e, "SLAVEREPLY", arg)
  <2>1. \E k : Pushed(k, "tail", local, e, "SLAVEREPLY", arg)
    BY <1>1, <1>6, <1>8, <1>9, SentAbove
  <2> QED
    BY <1>3, <2>1 DEF Pushed
<1>11. UNCHANGED <<heap, call, client, applied, callback, callback_inolist>>
  BY DEF HandleSlaveRequest, fsVars, callVars
<1>12. AskedForIt'
  <2>1. UNCHANGED <<call, client>> /\ UNCHANGED heap /\ applied' = applied
    BY <1>11
  <2>2. stack' # <<>> /\ stack'[1].arg = stack[1].arg
    BY <1>10 DEF Pushed
  <2> QED
    BY <1>1, <1>2, <2>1, <2>2, AskedForStays
<1>13. own \in Seq(Nat) /\ list \in Seq(Nat) /\ arg.list = list
  BY <1>4, <1>5, <1>6, OwnListIs, EmptySeq DEF MMDSSlaveRequestReply
<1>14. PICK l, sent : l = f.local.list /\ sent = callback_inolist[f.to]
  OBVIOUS
<1>15. ASSUME call.op = "lsdir"
       PROVE  l \in Seq(Nat) /\ sent \o list \in Seq(Nat) /\ ChargedInodes' = l \o (sent \o list)
  <2>1. l \in Seq(Nat) /\ sent \in Seq(Nat) /\ ChargedInodes = l \o sent
    BY <1>7, <1>14, <1>15 DEF Gathers
  <2>2. list = own
    BY <1>1, <1>2, <1>3, <1>5, <1>15 DEF AtSlave, RequestOp
  <2>3. charged \in Seq(Ranks \X Nat)
    BY <1>1, <1>2 DEF ChargedIInv
  <2>4. ChargedInodes' = ChargedInodes \o own
    BY <1>8, <1>13, <2>3, ChargeAppends
  <2>5. (l \o sent) \o list = l \o (sent \o list) /\ sent \o list \in Seq(Nat)
    BY <1>13, <2>1, JoinedThrice
  <2> QED
    BY <2>1, <2>2, <2>4, <2>5
<1>16. Gathers(l, sent \o list)'
  BY <1>7, <1>11, <1>15 DEF Gathers
<1>17. SlaveAnswers'
  <2>1. Len(stack') - 2 = n - 1
    BY <1>4, <1>10 DEF Pushed
  <2>2. stack'[n - 1] = f
    BY <1>3, <1>4, <1>10 DEF Pushed
  <2>3. Top'.type = "SLAVEREPLY" /\ Top'.pc = "call" /\ Top'.to = f.to /\ Top'.arg.list = list
    BY <1>4, <1>9, <1>10, <1>13 DEF Pushed
  <2>4. PICK f2, s2 : f2 = stack'[Len(stack') - 2] /\ s2 = callback_inolist'[f2.to] \o Top'.arg.list
    OBVIOUS
  <2>5. f2 = f /\ s2 = sent \o list
    BY <1>11, <1>14, <2>1, <2>2, <2>3, <2>4
  <2> QED
    BY <1>13, <1>14, <1>16, <2>3, <2>4, <2>5 DEF SlaveAnswers
<1> QED
  BY <1>2, <1>10, <1>11, <1>12, <1>17 DEF Pending, Pushed

\* A handler that returns to another leaves that at the top.
LEMMA ReturnUncovers ==
  ASSUME DataIInv, stack # <<>>, NEW b, Return(b), NEW n, n = Len(stack), n # 1
  PROVE  /\ n \in Nat /\ n - 1 \in 1 .. n - 1 /\ DOMAIN stack = 1 .. n /\ Top = stack[n]
         /\ ret' = b /\ stack' # <<>> /\ Len(stack') = n - 1 /\ Top' = stack[n - 1]
         /\ \A k \in 1 .. n - 1 : stack'[k] = stack[k]
         /\ stack'[1].arg = stack[1].arg
<1>1. RevIInv /\ ShapeIInv /\ n \in Nat \ {0} /\ DOMAIN stack = 1 .. n /\ Top = stack[n]
  BY TopShape DEF DataIInv, AskerIInv, RequestsIInv
<1>2. /\ DOMAIN stack' = 1 .. n - 1 /\ Len(stack') = n - 1
      /\ \A k \in DOMAIN stack' : stack'[k] = stack[k]
  BY <1>1, ReturnLeaves
<1>3. n - 1 \in 1 .. n - 1 /\ 1 \in 1 .. n - 1
  BY <1>1
<1>4. stack' # <<>> /\ Top' = stack[n - 1] /\ stack'[1].arg = stack[1].arg
  BY <1>2, <1>3, EmptySeq DEF Top
<1> QED
  BY <1>1, <1>2, <1>3, <1>4 DEF Return

\* The answer of a slave is two above the scan.
LEMMA SlaveReplyHasScan ==
  ASSUME DataIInv, ChainIInv, AppliedIInv, stack # <<>>, Top.type = "SLAVEREPLY", NEW n, n = Len(stack)
  PROVE  /\ n \in Nat /\ n - 1 \in 1 .. n - 1 /\ n - 2 \in 1 .. n - 2 /\ client.pc = "asked"
         /\ stack[n - 1].type = "SLAVEREQ" /\ stack[n - 1].pc # "call"
<1>1. n \in Nat \ {0} /\ DOMAIN stack = 1 .. n /\ Top = stack[n] /\ FrameShape(stack, n) /\ FrameChain(stack, n)
  BY TopShape DEF DataIInv, AskerIInv, RequestsIInv, ChainIInv
<1>2. n # 1 /\ stack[n - 1].type = "SLAVEREQ"
  BY <1>1 DEF FrameShape, FrameChain
<1>3. PICK j : j = n - 1
  OBVIOUS
<1>4. j \in DOMAIN stack /\ j < Len(stack) /\ stack[j].type = "SLAVEREQ"
  BY <1>1, <1>2, <1>3
<1>5. FrameShape(stack, j)
  BY <1>4 DEF DataIInv, AskerIInv, ShapeIInv
<1>6. j # 1 /\ stack[j].pc # "call"
  BY <1>4, <1>5 DEF FrameShape
<1>7. j - 1 \in DOMAIN stack /\ Scans(j - 1)
  BY <1>1, <1>3, <1>4, <1>6 DEF AppliedIInv, SlavesAwaited, Scans
<1>8. client.pc = "asked"
  BY <1>7, ScanIsAt
<1> QED
  BY <1>1, <1>2, <1>3, <1>4, <1>6, <1>8

\* It is kept there for the executing MDS.
LEMMA SlaveReplyPends ==
  ASSUME DataIInv, ChainIInv, AppliedIInv, client.pc = "asked", OutcomeIInv, NEW r \in Ranks, HandleSlaveReply(r)
  PROVE  AskedForIt' /\ Pending' /\ callback_inolist' \in [Ranks -> Seq(Nat)]
<1>1. stack # <<>> /\ Top.type = "SLAVEREPLY" /\ Top.pc = "call" /\ Top.to = r /\ Return(TRUE)
  BY DEF HandleSlaveReply, Called
<1>2. AskedForIt /\ Pending /\ SlaveAnswers
  BY <1>1, PhaseAtTop
<1>3. PICK n, f, list, sent :
        n = Len(stack) /\ f = stack[n - 2] /\ list = Top.arg.list /\ sent = callback_inolist[r]
  OBVIOUS
<1>4. /\ n \in Nat /\ n - 1 \in 1 .. n - 1 /\ n - 2 \in 1 .. n - 2
      /\ stack[n - 1].type = "SLAVEREQ" /\ stack[n - 1].pc # "call"
  BY <1>1, <1>3, SlaveReplyHasScan
<1>5. /\ stack' # <<>> /\ Len(stack') = n - 1 /\ Top' = stack[n - 1] /\ ret' = TRUE
      /\ \A k \in 1 .. n - 1 : stack'[k] = stack[k]
      /\ stack'[1].arg = stack[1].arg
  <2>1. n # 1
    BY <1>4
  <2> QED
    BY <1>1, <1>3, <2>1, ReturnUncovers
<1>6. UNCHANGED <<heap, call, client, applied, callback, charged>>
  BY DEF HandleSlaveReply, fsVars, callVars, historyVars
<1>7. AskedForIt'
  <2>1. UNCHANGED <<call, client>> /\ UNCHANGED heap /\ applied' = applied
    BY <1>6
  <2> QED
    BY <1>1, <1>2, <1>5, <2>1, AskedForStays
<1>8. f.to = r /\ list \in Seq(Nat) /\ Gathers(f.local.list, sent \o list)
  BY <1>1, <1>2, <1>3 DEF SlaveAnswers
<1>9. callback_inolist' = [callback_inolist EXCEPT ![r] = sent \o list]
  BY <1>3 DEF HandleSlaveReply
<1>10. sent \in Seq(Nat) /\ sent \o list \in Seq(Nat)
  BY <1>3, <1>8, ConcatProperties DEF OutcomeIInv
<1>11. callback_inolist' \in [Ranks -> Seq(Nat)] /\ callback_inolist'[r] = sent \o list
  BY <1>9, <1>10 DEF OutcomeIInv
<1>12. AtSlave'
  <2>1. PICK f2, l, u : f2 = stack'[Len(stack') - 1] /\ l = f2.local.list /\ u = callback_inolist'[f2.to]
    OBVIOUS
  <2>2. f2 = f
    BY <1>3, <1>4, <1>5, <2>1
  <2>3. u = sent \o list /\ l = f.local.list
    BY <1>8, <1>11, <2>1, <2>2
  <2>4. Gathers(l, u)
    BY <1>8, <2>3
  <2>5. Gathers(l, u)'
    BY <1>6, <2>4, GatheredStays
  <2>6. Top'.type = "SLAVEREQ" /\ Top'.pc # "call" /\ ret' = TRUE
    BY <1>4, <1>5
  <2> QED
    BY <2>1, <2>5, <2>6 DEF AtSlave
<1> QED
  BY <1>2, <1>5, <1>6, <1>7, <1>11, <1>12 DEF Pending

\* The executing MDS goes on when the slave returns.
LEMMA SlaveEndPends ==
  ASSUME DataIInv, ChainIInv, AppliedIInv, client.pc = "asked", OutcomeIInv,
         HandleReturn, Top.type = "SLAVEREQ"
  PROVE  AskedForIt' /\ Pending'
<1>1. stack # <<>> /\ Top.pc = "tail" /\ Return(ret)
  BY DEF HandleReturn, ReturnTail, Resumed
<1>2. AskedForIt /\ Pending /\ AtSlave /\ ret = TRUE
  BY <1>1, PhaseAtTop DEF AtSlave
<1>3. PICK n, f : n = Len(stack) /\ f = stack[n - 1]
  OBVIOUS
<1>4. /\ n \in Nat /\ n - 1 \in 1 .. n - 1 /\ DOMAIN stack = 1 .. n /\ Top = stack[n]
  BY <1>1, <1>3, SlaveHasScan
<1>5. /\ stack' # <<>> /\ Len(stack') = n - 1 /\ Top' = f /\ ret' = TRUE
      /\ stack'[1].arg = stack[1].arg
  <2>1. n # 1
    BY <1>4
  <2>2. Return(TRUE)
    BY <1>1, <1>2
  <2> QED
    BY <1>1, <1>3, <2>1, <2>2, ReturnUncovers
<1>6. UNCHANGED <<heap, call, client, applied, callback, charged, callback_inolist>>
  BY DEF HandleReturn, fsVars, callVars, historyVars
<1>7. AskedForIt'
  <2>1. UNCHANGED <<call, client>> /\ UNCHANGED heap /\ applied' = applied
    BY <1>6
  <2> QED
    BY <1>1, <1>2, <1>5, <2>1, AskedForStays
<1>8. f.pc = "slave"
  BY <1>3, <1>4 DEF AppliedIInv, SlavesAwaited
<1>9. Resuming'
  <2>1. PICK f2, l, u : f2 = Top' /\ l = f2.local.list /\ u = callback_inolist'[f2.to]
    OBVIOUS
  <2>2. Gathers(l, u)
    BY <1>2, <1>3, <1>5, <1>6, <2>1 DEF AtSlave
  <2>3. Gathers(l, u)'
    BY <1>6, <2>2, GatheredStays
  <2> QED
    BY <1>5, <1>8, <2>1, <2>3 DEF Resuming
<1> QED
  BY <1>2, <1>5, <1>6, <1>7, <1>9 DEF Pending

\* An answer of what was asked for serves the request, whatever came of it.
LEMMA AnswerServes ==
  ASSUME DataIInv, ChainIInv, AppliedIInv, client.pc = "asked", AskedForIt, callback.list = <<>>,
         stack # <<>>, IsRequest(Top), UNCHANGED heap,
         NEW r \in Ranks, NEW ino, NEW list \in Seq(Nat), NEW data, Reply(r, ino, list, data),
         call.op = "read" => data = heap[client.ino].content,
         call.op = "lsdir" => heap[client.ino].isDir /\ IsEachOnce(list, heap[client.ino].entries)
  PROVE  Served'
<1>1. /\ stack' # <<>> /\ Top'.pc = "call" /\ Top'.arg.list = list /\ Top'.arg.data = data
      /\ \A k \in DOMAIN stack' :
           stack'[k].type = "REPLY" \/ (IsRequest(stack'[k]) /\ stack'[k].pc = "tail")
      /\ UNCHANGED <<call, client, callback>>
  BY AnswerIsAbove
<1>2. PICK l, d : l = List' /\ d = Data'
  OBVIOUS
<1>3. l = list /\ d = data
  <2>1. l = callback.list \o list /\ d = data
    BY <1>1, <1>2 DEF List, Data, Replying
  <2> QED
    BY <2>1, NothingJoined
<1>4. IsEachOnce(list, heap[client.ino].entries)' <=> IsEachOnce(list, heap[client.ino].entries)
  BY <1>1
<1> QED
  BY <1>1, <1>2, <1>3, <1>4 DEF Served, Replying, IsRequest

\* The content is read,
LEMMA ReadIsServed ==
  ASSUME DataIInv, ChainIInv, AppliedIInv, client.pc = "asked", OutcomeIInv, NEW r \in Ranks, OpRead(r)
  PROVE  AskedForIt' /\ Served'
<1>1. stack # <<>> /\ Top.pc = "call" /\ IsRequest(Top) /\ Req.op = "READ"
  BY RequestAtTop DEF OpRead, IsRequest
<1>2. AskedForIt /\ callback.list = <<>>
  BY <1>1, PhaseAtTop DEF Pending
<1>3. Req.ino = client.ino /\ call.op = "read"
  BY <1>1, <1>2, TopIsAskedFor
<1>4. PICK d : d = heap[Req.ino].content
  OBVIOUS
<1>5. Reply(r, Null, <<>>, d) /\ UNCHANGED <<heap, applied>>
  BY <1>4 DEF OpRead, fsVars, historyVars
<1>6. stack' # <<>> /\ stack'[1].arg = stack[1].arg /\ UNCHANGED <<call, client>>
  BY <1>1, <1>5, AnswerIsAbove
<1>7. AskedForIt'
  BY <1>2, <1>1, <1>5, <1>6, AskedForStays
<1>8. <<>> \in Seq(Nat) /\ call.op # "lsdir" /\ d = heap[client.ino].content
  BY <1>3, <1>4, EmptySeq
<1>9. Served'
  BY <1>1, <1>2, <1>5, <1>8, AnswerServes
<1> QED
  BY <1>7, <1>9

\* and the directory listed: every entry once, whichever MDS has it.
LEMMA ListIsServed ==
  ASSUME DataIInv, ChainIInv, AppliedIInv, ChargedIInv, client.pc = "asked", OutcomeIInv,
         NEW r \in Ranks, EndListdir(r)
  PROVE  AskedForIt' /\ Served'
<1>1. /\ stack # <<>> /\ Top.pc = "scan" /\ IsRequest(Top) /\ Req.op = "LISTDIR"
  BY RequestAtTop DEF EndListdir, IsRequest
<1>2. AskedForIt /\ callback.list = <<>> /\ Scanning
  BY <1>1, PhaseAtTop DEF Pending
<1>3. Req.ino = client.ino /\ call.op = "lsdir"
  BY <1>1, <1>2, TopIsAskedFor
<1>4. PICK l : l = Top.local.list
  OBVIOUS
<1>5. Reply(r, Null, l, NoData) /\ UNCHANGED <<heap, applied, charged>>
  BY <1>4 DEF EndListdir, fsVars, historyVars
<1>6. stack' # <<>> /\ stack'[1].arg = stack[1].arg /\ UNCHANGED <<call, client>>
  BY <1>1, <1>5, AnswerIsAbove
<1>7. AskedForIt'
  BY <1>2, <1>1, <1>5, <1>6, AskedForStays
<1>8. l \in Seq(Nat) /\ l = ChargedInodes /\ heap[client.ino].isDir
  <2>1. Gathers(l, <<>>)
    BY <1>2, <1>4 DEF Scanning
  <2>2. l \in Seq(Nat) /\ ChargedInodes = l \o <<>> /\ heap[client.ino].isDir
    BY <1>3, <2>1 DEF Gathers
  <2> QED
    BY <2>2, NothingJoined
<1>9. IsEachOnce(l, heap[client.ino].entries)
  <2>1. IsEachOnce(ChargedInodes', heap[Req.ino].entries)
    BY ScanEndCharges
  <2>2. ChargedInodes' = ChargedInodes
    BY <1>5 DEF ChargedInodes
  <2> QED
    BY <1>3, <1>8, <2>1, <2>2
<1>10. Served'
  BY <1>1, <1>2, <1>3, <1>5, <1>8, <1>9, AnswerServes
<1> QED
  BY <1>7, <1>10

\* A change is made and answered for.
LEMMA ChangeServes ==
  ASSUME DataIInv, ChainIInv, AppliedIInv, client.pc = "asked", OutcomeIInv, applied' = applied + 1,
         stack # <<>>, IsRequest(Top), Top.pc \in {"call", "scan"}, Changes(Req.op),
         NEW r \in Ranks, NEW ino, NEW list, NEW data, Reply(r, ino, list, data)
  PROVE  AskedForIt' /\ Served'
<1>1. AskedForIt /\ applied = 0
  BY PhaseAtTop DEF Pending
<1>2. Served'
  BY <1>1, ChangeIsServed
<1>3. stack' # <<>> /\ stack'[1].arg = stack[1].arg /\ UNCHANGED <<call, client>>
  BY AnswerIsAbove
<1>4. applied' # 0
  BY <1>1
<1>5. AskedForIt'
  BY <1>1, <1>3, <1>4, AskedForStays
<1> QED
  BY <1>2, <1>5

\* What an MDS does leaves the client alone.
LEMMA MdsLeavesClient ==
  ASSUME NEW r \in Ranks, MdsStep(r)
  PROVE  UNCHANGED <<call, client, callback, result>>
BY DEF MdsStep, Forward, OpLookup, OpCreate, OpMkdir, OpRead, OpWrite, OpRm, OpScan,
       AskSlave, SlaveReturns, EndListdir, EndRmdir, HandleSlaveRequest, SlaveOp, HandleSlaveReply,
       FollowsDeleted, Undefined, Reply, Fail, callVars

\* Only two of its steps are about what slaves have sent.
LEMMA OthersKeepSent ==
  ASSUME NEW r \in Ranks, MdsStep(r), ~AskSlave(r), ~HandleSlaveReply(r)
  PROVE  UNCHANGED callback_inolist
BY DEF MdsStep, Forward, OpLookup, OpCreate, OpMkdir, OpRead, OpWrite, OpRm, OpScan,
       SlaveReturns, EndListdir, EndRmdir, HandleSlaveRequest, SlaveOp,
       FollowsDeleted, Undefined, Reply, Fail

\* An MDS refuses to create a directory where there is an entry already,
LEMMA MkdirEnds ==
  ASSUME DataIInv, ChainIInv, AppliedIInv, client.pc = "asked", OutcomeIInv, NEW r \in Ranks, OpMkdir(r)
  PROVE  AskedForIt' /\ (Refused' \/ Served')
<1>1. stack # <<>> /\ Top.pc = "call" /\ IsRequest(Top) /\ Req.op = "MKDIR"
  BY RequestAtTop DEF OpMkdir, IsRequest
<1>2. AskedForIt /\ Pending
  BY <1>1, PhaseAtTop
<1>3. call.op = "mkdir" /\ Req.ino = client.ino /\ Req.name = BaseName(call.path)
  <2>1. PICK name : name = IF CreatesEntry(call.op) THEN BaseName(call.path) ELSE ""
    OBVIOUS
  <2>2. call.op = "mkdir" /\ Req.ino = client.ino /\ Req.name = name
    BY <1>1, <1>2, <2>1, TopIsAskedFor
  <2>3. name = BaseName(call.path)
    BY <2>1, <2>2 DEF CreatesEntry
  <2> QED
    BY <2>2, <2>3
<1>4. CASE GetSub(heap, Req.ino, Req.name) # Null
  <2>1. Fail /\ UNCHANGED heap
    BY <1>4 DEF OpMkdir, fsVars
  <2>2. GetSub(heap, client.ino, BaseName(call.path)) # Null
    BY <1>3, <1>4
  <2> QED
    BY <1>1, <1>2, <1>3, <2>1, <2>2, FailIsRefused
<1>5. CASE GetSub(heap, Req.ino, Req.name) = Null
  <2>1. applied' = applied + 1 /\ Reply(r, NextInode(heap), <<>>, NoData)
    BY <1>5 DEF OpMkdir, Mutate
  <2>2. Changes(Req.op)
    BY <1>1 DEF Changes
  <2> QED
    BY <1>1, <2>1, <2>2, ChangeServes
<1> QED
  BY <1>4, <1>5

\* and to list what is no directory.
LEMMA ScanBegins ==
  ASSUME HashIsNat, DataIInv, ChainIInv, AppliedIInv, ChargedIInv, client.pc = "asked", OutcomeIInv,
         NEW r \in Ranks, OpScan(r)
  PROVE  AskedForIt' /\ (Pending' \/ Refused')
<1>1. stack # <<>> /\ Top.pc = "call" /\ IsRequest(Top) /\ Req.op \in {"RMDIR", "LISTDIR"}
  BY RequestAtTop DEF OpScan, ScansDirectory, IsRequest
<1>2. AskedForIt /\ Pending /\ applied = 0
  BY <1>1, PhaseAtTop DEF Pending
<1>3. Req.ino = client.ino /\ call.op \in {"rmdir", "lsdir"}
  BY <1>1, <1>2, TopIsAskedFor
<1>4. CASE ~heap[Req.ino].isDir
  <2>1. Fail /\ UNCHANGED heap
    BY <1>4 DEF OpScan, fsVars
  <2>2. call.op = "lsdir" /\ ~heap[client.ino].isDir
    BY <1>2, <1>3, <1>4 DEF AskedForIt
  <2> QED
    BY <1>1, <1>2, <2>1, <2>2, FailIsRefused
<1>5. CASE heap[Req.ino].isDir
  BY <1>5, ScanPends
<1> QED
  BY <1>4, <1>5

\* Every step of an MDS on what the client has asked for.
LEMMA AskedKeepsOutcome ==
  ASSUME HashIsNat, DataIInv, ChainIInv, FoundIInv, PathIInv, AppliedIInv, NamesPlain, ChargedIInv,
         client.pc = "asked", OutcomeIInv, NEW r \in Ranks, MdsStep(r)
  PROVE  OutcomeIInv'
<1>0. UNCHANGED <<call, client, callback>> /\ stack # <<>>
  BY MdsLeavesClient, MdsStepIsAtTop
<1>1. callback_inolist' \in [Ranks -> Seq(Nat)]
  BY AskPends, SlaveReplyPends, OthersKeepSent DEF OutcomeIInv
<1>2. ASSUME NEW op, Executes(r, op)
      PROVE  IsRequest(Top) /\ Top.pc = "call" /\ Req.op = op
  BY <1>2, RequestAtTop DEF IsRequest
<1>3. ASSUME NEW op, ScanDone(r, op)
      PROVE  IsRequest(Top) /\ Top.pc = "scan" /\ Req.op = op
  BY <1>3, RequestAtTop DEF IsRequest
<1>4. ~OpLookup(r)
  <2> SUFFICES ASSUME OpLookup(r) PROVE FALSE
    OBVIOUS
  <2>1. IsRequest(Top) /\ Top.pc = "call" /\ Req.op = "LOOKUP"
    BY <1>2 DEF OpLookup
  <2>2. AskedForIt
    BY <1>0, PhaseAtTop
  <2>3. call.op \in DOMAIN RequestOp /\ Req.op = RequestOp[call.op]
    BY <1>0, <2>1, <2>2, TopIsAskedFor
  <2> QED
    BY <2>1, <2>3 DEF RequestOp
<1>5. ASSUME OpCreate(r) \/ OpWrite(r) \/ OpRm(r) \/ EndRmdir(r)
      PROVE  AskedForIt' /\ Served'
  <2>1. /\ IsRequest(Top) /\ Top.pc \in {"call", "scan"} /\ Changes(Req.op)
        /\ applied' = applied + 1
    BY <1>2, <1>3, <1>5 DEF OpCreate, OpWrite, OpRm, EndRmdir, Changes, Mutate
  <2>2. PICK ino, list, data : Reply(r, ino, list, data)
    BY <1>5 DEF OpCreate, OpWrite, OpRm, EndRmdir
  <2> QED
    BY <1>0, <2>1, <2>2, ChangeServes
<1>6. ~FollowsDeleted(r)
  BY NoneIsFollowed
<1>7. ASSUME \/ Forward(r) \/ AskSlave(r) \/ SlaveReturns(r)
             \/ HandleSlaveRequest(r) \/ HandleSlaveReply(r)
      PROVE  AskedForIt' /\ Pending'
  BY <1>7, ForwardPends, AskPends, SlaveReturnsPends, SlavePends, SlaveReplyPends
<1>8. ASSUME OpRead(r) \/ EndListdir(r)
      PROVE  AskedForIt' /\ Served'
  BY <1>8, ReadIsServed, ListIsServed
<1>9. AskedForIt' /\ (Pending' \/ Refused' \/ Served')
  <2>1. CASE OpMkdir(r)
    BY <2>1, MkdirEnds
  <2>2. CASE OpScan(r)
    BY <2>2, ScanBegins
  <2> QED
    BY <1>4, <1>5, <1>6, <1>7, <1>8, <2>1, <2>2 DEF MdsStep
<1>10. {"ino", "list", "data"} \subseteq DOMAIN callback' /\ client'.pc = "asked"
  BY <1>0 DEF OutcomeIInv
<1> QED
  BY <1>1, <1>9, <1>10 DEF OutcomeIInv

\* While the client looks something up, nothing else is asked for.
LEMMA OnlyLooksUp ==
  ASSUME DataIInv, ChainIInv, FoundIInv, AppliedIInv, client.pc = "looking", NEW r \in Ranks, MdsStep(r)
  PROVE  Forward(r) \/ OpLookup(r)
<1>0. stack # <<>> /\ Top = stack[Len(stack)] /\ Len(stack) \in DOMAIN stack
  BY MdsStepIsAtTop, TopShape DEF DataIInv, AskerIInv, RequestsIInv
<1>1. ASSUME NEW op, Executes(r, op) PROVE op = "LOOKUP"
  <2>1. IsRequest(Top) /\ Req.op = op
    BY <1>1, RequestAtTop DEF IsRequest
  <2>2. Req.op = WantedOp
    BY <1>0, <2>1, TopWants
  <2> QED
    BY <2>1, <2>2 DEF WantedOp
<1>2. ~(Top.pc \in {"scan", "slave"})
  BY <1>0, ScanIsAt DEF Scans
<1>3. Top.type # "SLAVEREQ" /\ Top.type # "SLAVEREPLY"
  BY <1>0, SlaveHasScan, SlaveReplyHasScan
<1>4. ~ScansDirectory(r)
  BY <1>1 DEF ScansDirectory
<1>5. ~FollowsDeleted(r)
  BY NoneIsFollowed
<1>6. ~OpCreate(r) /\ ~OpMkdir(r) /\ ~OpRead(r) /\ ~OpWrite(r) /\ ~OpRm(r) /\ ~OpScan(r)
  BY <1>1, <1>4 DEF OpCreate, OpMkdir, OpRead, OpWrite, OpRm, OpScan
<1>7. /\ ~AskSlave(r) /\ ~SlaveReturns(r) /\ ~EndListdir(r) /\ ~EndRmdir(r)
      /\ ~HandleSlaveRequest(r) /\ ~HandleSlaveReply(r)
  BY <1>2, <1>3 DEF AskSlave, SlaveReturns, EndListdir, EndRmdir, HandleSlaveRequest, HandleSlaveReply,
                    ScanDone, Resumed, Called
<1> QED
  BY <1>5, <1>6, <1>7 DEF MdsStep

\* It is answered if there is such an inode.
LEMMA LookingKeepsOutcome ==
  ASSUME HashIsNat, DataIInv, ChainIInv, FoundIInv, AppliedIInv, client.pc = "looking", OutcomeIInv,
         NEW r \in Ranks, MdsStep(r)
  PROVE  OutcomeIInv'
<1>0. UNCHANGED <<call, client, callback>> /\ stack # <<>>
  BY MdsLeavesClient, MdsStepIsAtTop
<1>1. UNCHANGED <<callback_inolist, heap>>
  BY OnlyLooksUp DEF Forward, OpLookup, fsVars
<1>2. Lookup(heap, Walk[client.at]) # Null => callback.ino # Null \/ Replying'
  <2>1. CASE Forward(r)
    BY <2>1, ForwardArrives DEF Replying
  <2>2. CASE OpLookup(r)
    <3>1. IsRequest(Top) /\ Len(stack) \in DOMAIN stack /\ Top = stack[Len(stack)]
      BY <1>0, <2>2, RequestAtTop, TopShape DEF OpLookup, IsRequest, DataIInv, AskerIInv, RequestsIInv
    <3>2. FrameFound(heap, Looking, Top)
      BY <3>1 DEF FoundIInv, FramesFound
    <3>3. Req.fullpath = Walk[client.at]
      BY <3>1, <3>2 DEF FrameFound, IsRequest, Looking, Req
    <3>4. CASE Lookup(heap, Req.fullpath) = Null
      BY <3>3, <3>4
    <3>5. CASE Lookup(heap, Req.fullpath) # Null
      <4>1. PICK ino : Reply(r, ino, <<>>, NoData)
        BY <2>2, <3>5 DEF OpLookup
      <4>2. stack' # <<>> /\ Top'.pc = "call"
        BY <1>0, <3>1, <4>1, AnswerIsAbove
      <4> QED
        BY <4>2 DEF Replying
    <3> QED
      BY <3>4, <3>5
  <2> QED
    BY <2>1, <2>2, OnlyLooksUp
<1>3. Walk' = Walk
  BY <1>0 DEF Walk
<1> QED
  BY <1>0, <1>1, <1>2, <1>3 DEF OutcomeIInv

\* An answer is at the top of a request that was served; a handler that waits
\* for the end of it, or of a refusal, passes that on.
LEMMA EndAtTop ==
  ASSUME DataIInv, client.pc = "asked", OutcomeIInv, stack # <<>>
  PROVE  /\ Top.type = "REPLY" => Served
         /\ Top.pc = "tail" /\ Top.type # "SLAVEREQ" => Refused \/ Served
<1>1. PICK f : f = Top
  OBVIOUS
<1>2. \E k \in DOMAIN stack : f = stack[k]
  BY <1>1, TopShape DEF DataIInv, AskerIInv, RequestsIInv
<1>3. FrameType(f)
  BY <1>1, TopFrame
<1>4. Pending \/ Refused \/ Served
  BY DEF OutcomeIInv
<1>5. f.pc \in {"scan", "slave"} => f.type \in {"CLIENTREQ", "FORWARD"}
  BY <1>3 DEF FrameType
<1>6. Pending => \/ f.pc \in {"call", "scan", "slave"} /\ f.type # "REPLY"
                 \/ f.type = "SLAVEREQ"
  BY <1>1, <1>5 DEF Pending, Arriving, Scanning, Resuming, AtSlave, SlaveAnswers, IsRequest
<1>7. Refused => f.type # "REPLY"
  BY <1>2 DEF Refused, IsRequest
<1>8. f.type = "REPLY" => Served
  BY <1>4, <1>6, <1>7
<1>9. f.pc = "tail" /\ f.type # "SLAVEREQ" => Refused \/ Served
  BY <1>4, <1>6
<1> QED
  BY <1>1, <1>8, <1>9

\* A return leaves what is at the top waiting.
LEMMA ReturnWaits ==
  ASSUME DataIInv, stack # <<>>, NEW b, Return(b)
  PROVE  /\ ret' = b /\ ~Replying'
         /\ \A k \in DOMAIN stack' : k \in DOMAIN stack /\ stack'[k] = stack[k]
BY ReturnLeaves DEF DataIInv, AskerIInv, RequestsIInv, Return, Replying

\* The client takes the answer: what it has then is what was in it.
LEMMA ReplyKeepsOutcome ==
  ASSUME DataIInv, FoundIInv, OutcomeIInv, HandleReply
  PROVE  OutcomeIInv'
<1>1. stack # <<>> /\ Top.type = "REPLY" /\ Top.pc = "call" /\ Return(TRUE)
  BY DEF HandleReply, Called
<1>2. PICK m : m = Top.arg
  OBVIOUS
<1>3. /\ callback' = [ino |-> m.ino, list |-> callback.list \o m.list, data |-> m.data]
      /\ UNCHANGED <<heap, call, client, applied, callback_inolist>>
  BY <1>2 DEF HandleReply, fsVars, callVars, historyVars
<1>4. /\ ret' = TRUE /\ ~Replying'
      /\ \A k \in DOMAIN stack' : k \in DOMAIN stack /\ stack'[k] = stack[k]
  BY <1>1, ReturnWaits
<1>5. ASSUME client.pc = "asked" PROVE AskedForIt' /\ Served'
  <2>1. AskedForIt /\ Served
    BY <1>1, <1>5, EndAtTop DEF OutcomeIInv
  <2>2. stack' # <<>> => stack'[1].arg = stack[1].arg
    BY <1>1, ReturnKeepsFirst
  <2>3. AskedForIt'
    <3>1. UNCHANGED <<call, client>> /\ UNCHANGED heap /\ applied' = applied
      BY <1>3
    <3> QED
      BY <1>1, <2>1, <2>2, <3>1, AskedForStays
  <2>4. PICK l, d : l = List' /\ d = Data'
    OBVIOUS
  <2>5. l = List /\ d = Data
    BY <1>1, <1>2, <1>3, <1>4, <2>4 DEF List, Data, Replying
  <2>6. ASSUME NEW k \in DOMAIN stack'
        PROVE  stack'[k].type = "REPLY" \/ (IsRequest(stack'[k]) /\ stack'[k].pc = "tail")
    BY <1>4, <2>1, <2>6 DEF Served
  <2>7. call'.op = "read" => Data' = heap'[client'.ino].content
    BY <1>3, <2>1, <2>4, <2>5 DEF Served
  <2>8. call'.op = "lsdir" => heap'[client'.ino].isDir /\ IsEachOnce(List, heap[client.ino].entries)'
    <3>1. IsEachOnce(List, heap[client.ino].entries)' <=> IsEachOnce(l, heap[client.ino].entries)
      BY <1>3, <2>4 DEF IsEachOnce, ToSet
    <3> QED
      BY <1>3, <2>1, <2>5, <3>1 DEF Served
  <2> QED
    BY <1>4, <2>3, <2>6, <2>7, <2>8 DEF Served, IsRequest
<1>6. ASSUME client.pc = "looking", Lookup(heap, Walk[client.at]) # Null PROVE callback'.ino # Null
  <2>1. FrameFound(heap, Looking, Top)
    BY <1>1, TopShape DEF FoundIInv, FramesFound, DataIInv, AskerIInv, RequestsIInv
  <2>2. m.ino = Lookup(heap, Walk[client.at])
    BY <1>1, <1>2, <1>6, <2>1 DEF FrameFound, Looking
  <2> QED
    BY <1>3, <1>6, <2>2
<1>7. {"ino", "list", "data"} \subseteq DOMAIN callback'
  BY <1>3
<1>8. Walk' = Walk
  BY <1>3 DEF Walk
<1> QED
  BY <1>3, <1>5, <1>6, <1>7, <1>8 DEF OutcomeIInv

\* The answer or the refusal is passed on.
LEMMA ReturnKeepsOutcome ==
  ASSUME DataIInv, ChainIInv, AppliedIInv, OutcomeIInv, HandleReturn
  PROVE  OutcomeIInv'
<1>1. stack # <<>> /\ Top.pc = "tail" /\ Return(ret) /\ ~Replying
  BY DEF HandleReturn, ReturnTail, Resumed, Replying
<1>2. UNCHANGED <<heap, call, client, applied, callback, callback_inolist>>
  BY DEF HandleReturn, fsVars, callVars, historyVars
<1>3. /\ ret' = ret /\ ~Replying'
      /\ \A k \in DOMAIN stack' : k \in DOMAIN stack /\ stack'[k] = stack[k]
  BY <1>1, ReturnWaits
<1>4. ASSUME client.pc = "asked", Top.type # "SLAVEREQ" PROVE AskedForIt' /\ (Refused' \/ Served')
  <2>1. AskedForIt /\ (Refused \/ Served)
    BY <1>1, <1>4, EndAtTop DEF OutcomeIInv
  <2>2. stack' # <<>> => stack'[1].arg = stack[1].arg
    BY <1>1, ReturnKeepsFirst
  <2>3. AskedForIt'
    <3>1. UNCHANGED <<call, client>> /\ UNCHANGED heap /\ applied' = applied
      BY <1>2
    <3> QED
      BY <1>1, <2>1, <2>2, <3>1, AskedForStays
  <2>4. CASE Refused
    <3>1. \A k \in DOMAIN stack' : IsRequest(stack'[k]) /\ stack'[k].pc = "tail"
      BY <1>3, <2>4 DEF Refused
    <3> QED
      BY <1>2, <1>3, <2>3, <2>4, <3>1 DEF Refused, IsRequest
  <2>5. CASE Served
    <3>1. \A k \in DOMAIN stack' :
            stack'[k].type = "REPLY" \/ (IsRequest(stack'[k]) /\ stack'[k].pc = "tail")
      BY <1>3, <2>5 DEF Served
    <3>2. List' = List /\ Data' = Data
      BY <1>1, <1>2, <1>3 DEF List, Data
    <3>3. call'.op = "read" => Data' = heap'[client'.ino].content
      BY <1>2, <2>5, <3>2 DEF Served
    <3>4. call'.op = "lsdir" => heap'[client'.ino].isDir /\ IsEachOnce(List, heap[client.ino].entries)'
      <4>1. IsEachOnce(List, heap[client.ino].entries)' <=> IsEachOnce(List, heap[client.ino].entries)
        BY <1>2, <3>2 DEF IsEachOnce, ToSet
      <4> QED
        BY <1>2, <2>5, <4>1 DEF Served
    <3>5. ret' = TRUE
      BY <1>1, <1>3, <2>5 DEF Served
    <3> QED
      BY <2>3, <3>1, <3>3, <3>4, <3>5 DEF Served, IsRequest
  <2> QED
    BY <2>1, <2>3, <2>4, <2>5
<1>5. ASSUME client.pc = "asked" PROVE AskedForIt' /\ (Pending' \/ Refused' \/ Served')
  BY <1>4, <1>5, SlaveEndPends
<1>6. Walk' = Walk
  BY <1>2 DEF Walk
<1> QED
  BY <1>1, <1>2, <1>5, <1>6 DEF OutcomeIInv

\* The client asks for what it has found.
LEMMA RequestPends ==
  ASSUME HashIsNat, KnownRanks = Ranks, DataIInv, FoundIInv, AppliedIInv, OutcomeIInv, Request
  PROVE  AskedForIt' /\ Pending' /\ client'.pc = "asked"
<1>1. /\ client.pc = "found" /\ call \in Calls /\ stack = <<>>
      /\ {"pc", "at", "ino"} \subseteq DOMAIN client
  BY DEF Request, DataIInv, WalkIInv, AskerIInv, RequestsIInv, ClientWaits
<1>2. applied = 0
  BY <1>1, OnlyAskedApplies
<1>3. client.ino = Lookup(heap, WalkTo(call)) /\ call.path \in Path
  BY <1>1, WalkIs DEF FoundIInv, ClientFound
<1>4. PICK name, arg :
        /\ name = IF CreatesEntry(call.op) THEN BaseName(call.path) ELSE ""
        /\ arg = MClientRequest(RequestOp[call.op], call.path, name, client.ino, call.data)
  OBVIOUS
<1>5. SendRequest(RequestOp[call.op], call.path, name, client.ino, call.data)
  BY <1>4 DEF Request
<1>6. \E to : Starts(arg, to)
  BY <1>1, <1>3, <1>4, <1>5, ClientRequestArrives
<1>7. stack' # <<>> /\ stack'[1].arg = arg /\ Top' = stack'[1] /\ IsRequest(Top') /\ Top'.pc = "call"
  <2>1. PICK to : Starts(arg, to)
    BY <1>6
  <2>2. Len(stack') = 1 /\ stack'[1].type = "CLIENTREQ" /\ stack'[1].pc = "call" /\ stack'[1].arg = arg
    BY <2>1 DEF Starts
  <2>3. stack' # <<>>
    BY <2>2, EmptySeq
  <2>4. Top' = stack'[1]
    BY <2>2 DEF Top
  <2> QED
    BY <2>2, <2>3, <2>4 DEF IsRequest
<1>8. client'.pc = "asked" /\ client'.ino = client.ino
  BY <1>1 DEF Request
<1>9. UNCHANGED <<heap, call, applied>>
  BY DEF Request, fsVars, historyVars
<1>10. callback'.list = <<>>
  BY <1>5 DEF SendRequest, OutcomeIInv
<1>11. call.op = "rmdir" => heap[client.ino].isDir
  BY DEF Request
<1>12. AskedForIt'
  BY <1>3, <1>4, <1>7, <1>8, <1>9, <1>11 DEF AskedForIt, WalkTo
<1> QED
  BY <1>2, <1>7, <1>8, <1>9, <1>10, <1>12 DEF Pending, Arriving, IsRequest

\* It keeps the fields of what it is answered in.
LEMMA CallbackStays ==
  ASSUME OutcomeIInv, ClientStep, ~HandleReply
  PROVE  {"ino", "list", "data"} \subseteq DOMAIN callback' /\ UNCHANGED callback_inolist
<1>1. \/ UNCHANGED callback
      \/ callback' = [callback EXCEPT !.ino = Null, !.list = <<>>]
  BY DEF ClientStep, LookupCached, LookupRemote, LookupReturns, LooksAtDeleted, Answered,
         Request, RequestReturns, Undefined, Found, Finish, SendRequest
<1>2. UNCHANGED callback_inolist
  BY DEF ClientStep, LookupCached, LookupRemote, LookupReturns, LooksAtDeleted, Answered,
         Request, RequestReturns, Undefined
<1>3. CASE UNCHANGED callback
  BY <1>2, <1>3 DEF OutcomeIInv
<1>4. CASE callback' = [callback EXCEPT !.ino = Null, !.list = <<>>]
  <2>1. DOMAIN callback' = DOMAIN callback
    BY <1>4
  <2> QED
    BY <1>2, <2>1 DEF OutcomeIInv
<1> QED
  BY <1>1, <1>3, <1>4

\* The client's own steps.
LEMMA ClientKeepsOutcome ==
  ASSUME HashIsNat, KnownRanks = Ranks, DataIInv, FoundIInv, AppliedIInv, OutcomeIInv, ClientStep
  PROVE  OutcomeIInv'
<1>1. {"pc", "at", "ino"} \subseteq DOMAIN client
  BY DEF DataIInv, WalkIInv
<1>2. ASSUME ~HandleReply, ~(client'.pc \in {"looking", "asked"}) PROVE OutcomeIInv'
  BY <1>2, CallbackStays DEF OutcomeIInv
<1>3. CASE LookupCached \/ LookupReturns \/ Answered \/ RequestReturns
  <2>1. ASSUME NEW ino, Found(ino) PROVE ~(client'.pc \in {"looking", "asked"})
    BY <2>1 DEF Found
  <2>2. ASSUME NEW b, Finish(b) PROVE ~(client'.pc \in {"looking", "asked"})
    BY <2>2 DEF Finish, NotWalking
  <2>3. ~(client'.pc \in {"looking", "asked"})
    BY <1>3, <2>1, <2>2 DEF LookupCached, LookupReturns, Answered, RequestReturns
  <2>4. ~HandleReply
    <3>1. client.pc \in {"walk", "found"} => stack = <<>>
      BY DEF DataIInv, AskerIInv, RequestsIInv, ClientWaits
    <3> QED
      BY <1>3, <3>1 DEF LookupCached, LookupReturns, Answered, RequestReturns, HandleReply, Called
  <2> QED
    BY <1>2, <2>3, <2>4
<1>4. CASE LookupRemote
  <2>1. /\ stack = <<>> /\ call \in Calls /\ client.at \in 1 .. Len(Walk)
        /\ client'.pc = "looking"
    BY <1>1, <1>4 DEF LookupRemote, DataIInv, WalkIInv, AskerIInv, RequestsIInv, ClientWaits
  <2>2. PICK p : p = Walk[client.at]
    OBVIOUS
  <2>3. p \in Path
    BY <2>1, <2>2, WalkIs
  <2>4. PICK arg, to : Starts(arg, to)
    BY <1>4, <2>1, <2>2, <2>3, ClientRequestArrives DEF LookupRemote
  <2>5. Replying'
    <3>1. Len(stack') = 1 /\ stack'[1].pc = "call"
      BY <2>4 DEF Starts
    <3>2. stack' # <<>>
      BY <3>1, EmptySeq
    <3> QED
      BY <3>1, <3>2 DEF Replying, Top
  <2>6. ~HandleReply
    BY <2>1 DEF HandleReply, Called
  <2>7. {"ino", "list", "data"} \subseteq DOMAIN callback' /\ UNCHANGED callback_inolist
    BY <2>6, CallbackStays
  <2> QED
    BY <2>1, <2>5, <2>7 DEF OutcomeIInv
<1>5. CASE Request
  <2>1. AskedForIt' /\ Pending' /\ client'.pc = "asked"
    BY <1>5, RequestPends
  <2>2. ~HandleReply
    <3>1. client.pc = "found" => stack = <<>>
      BY DEF DataIInv, AskerIInv, RequestsIInv, ClientWaits
    <3> QED
      BY <1>5, <3>1 DEF Request, HandleReply, Called
  <2>3. {"ino", "list", "data"} \subseteq DOMAIN callback' /\ UNCHANGED callback_inolist
    BY <2>2, CallbackStays
  <2> QED
    BY <2>1, <2>3 DEF OutcomeIInv
<1> QED
  BY <1>3, <1>4, <1>5, ReplyKeepsOutcome, ClientFollowsNone DEF ClientStep

\* At first there is nothing.
LEMMA InitOutcome == Init => OutcomeIInv
BY EmptySeq DEF Init, OutcomeIInv, NoCallback, NotWalking

\* The invariant is inductive.
LEMMA NextKeepsOutcome ==
  ASSUME HashIsNat, KnownRanks = Ranks, DataIInv, ChainIInv, FoundIInv, PathIInv, AppliedIInv, NamesPlain, ChargedIInv, OutcomeIInv,
         [Next]_vars
  PROVE  OutcomeIInv'
<1>1. {"pc", "at", "ino"} \subseteq DOMAIN client /\ (client.pc # "idle" => call # Nil)
      /\ (stack # <<>> => client.pc \in {"looking", "asked"})
  BY CallsAssumption DEF DataIInv, WalkIInv, AskerIInv, RequestsIInv, ClientWaits
<1>2. ASSUME NEW r \in Ranks, MdsStep(r) PROVE OutcomeIInv'
  <2>1. stack # <<>>
    BY <1>2, MdsStepIsAtTop
  <2> QED
    BY <1>1, <1>2, <2>1, AskedKeepsOutcome, LookingKeepsOutcome
<1>3. ASSUME NEW c \in Calls, Begin(c) PROVE OutcomeIInv'
  <2>1. client'.pc = "walk" /\ UNCHANGED <<callback, callback_inolist>>
    BY <1>1, <1>3 DEF Begin
  <2> QED
    BY <2>1 DEF OutcomeIInv
<1>4. CASE Register
  <2>1. client'.pc = "idle" /\ UNCHANGED <<callback, callback_inolist>>
    BY <1>1, <1>4 DEF Register, callVars
  <2> QED
    BY <2>1 DEF OutcomeIInv
<1>5. ASSUME UNCHANGED vars PROVE OutcomeIInv'
  <2>1. UNCHANGED <<stack, ret, heap, call, client, callback, callback_inolist, applied, charged>>
    BY <1>5 DEF vars, msgVars, fsVars, callVars, historyVars
  <2>2. (AskedForIt <=> AskedForIt') /\ Top' = Top /\ Walk' = Walk /\ ChargedInodes' = ChargedInodes
    BY <2>1 DEF AskedForIt, WalkTo, Top, Walk, ChargedInodes
  <2>3. \A l, s : Gathers(l, s) <=> Gathers(l, s)'
    BY <2>1, <2>2 DEF Gathers
  <2>4. Pending => Pending'
    BY <2>1, <2>2, <2>3 DEF Pending, Arriving, Scanning, Resuming, AtSlave, SlaveAnswers, IsRequest
  <2>5. Refused => Refused'
    BY <2>1 DEF Refused, IsRequest
  <2>6. (Replying <=> Replying') /\ List' = List /\ Data' = Data
    BY <2>1, <2>2 DEF Replying, List, Data
  <2>7. Served => Served'
    BY <2>1, <2>6 DEF Served, IsRequest, IsEachOnce, ToSet
  <2>8. client.pc = "looking" /\ Lookup(heap, Walk[client.at]) # Null => callback.ino # Null \/ Replying
    BY DEF OutcomeIInv
  <2>9. (client.pc = "looking" /\ Lookup(heap, Walk[client.at]) # Null => callback.ino # Null \/ Replying)'
    BY <2>1, <2>2, <2>6, <2>8
  <2> QED
    BY <2>1, <2>2, <2>4, <2>5, <2>7, <2>9 DEF OutcomeIInv
<1> QED
  BY <1>2, <1>3, <1>4, <1>5, ClientKeepsOutcome, ReturnKeepsOutcome DEF Next, Step

-----------------------------------------------------------------------------
(***************************************************************************)
(* The steps of the implementation.                                        *)
(***************************************************************************)
\* The operators of the abstract specification are those of the detailed one.
LEMMA SameLookup ==
  ASSUME NEW p
  PROVE  Service!Lookup(heap, p) = Lookup(heap, p)
BY DEF Service!Lookup, Lookup, Service!GetSub, GetSub, Service!Named, Named, Service!First, First,
       Service!Root, Root, Service!Null, Null

LEMMA SameOperators ==
  /\ \A i, n : Service!GetSub(heap, i, n) = GetSub(heap, i, n)
  /\ \A i, n, d, c : Service!AddSub(heap, i, n, d, c) = AddSub(heap, i, n, d, c)
  /\ \A i : Service!DeleteMyself(heap, i) = DeleteMyself(heap, i)
  /\ \A p : Service!DirName(p) = DirName(p) /\ Service!BaseName(p) = BaseName(p)
  /\ \A set : Service!Cardinality(set) = Cardinality(set)
  /\ Service!Null = Null
<1>1. \A i, n : Service!GetSub(heap, i, n) = GetSub(heap, i, n)
  BY DEF Service!GetSub, GetSub, Service!Named, Named, Service!First, First, Service!Null, Null
<1>2. \A i, n, d, c : Service!AddSub(heap, i, n, d, c) = AddSub(heap, i, n, d, c)
  BY DEF Service!AddSub, AddSub, Service!NextInode, NextInode, Service!Inode, Inode
<1>3. \A i : Service!DeleteMyself(heap, i) = DeleteMyself(heap, i)
  BY DEF Service!DeleteMyself, DeleteMyself, Service!Deleted, Deleted, Service!Emptied, Emptied,
         Service!IsListed, IsListed, Service!Null, Null
<1>4. \A p : Service!DirName(p) = DirName(p) /\ Service!BaseName(p) = BaseName(p)
  BY DEF Service!DirName, DirName, Service!BaseName, BaseName, Service!RootPath, RootPath
<1>5. Service!Null = Null
  BY DEF Service!Null, Null
<1>6. \A set : Service!Cardinality(set) = Cardinality(set)
  BY DEF Service!Cardinality, Cardinality
<1> QED
  BY <1>1, <1>2, <1>3, <1>4, <1>5, <1>6

\* What a call finds is what the client looks up for it.
LEMMA ServiceFinds ==
  ASSUME NEW c
  PROVE  /\ CreatesEntry(c.op) => Service!Parent(c.path) = Lookup(heap, WalkTo(c))
         /\ ~CreatesEntry(c.op) => Service!At(c.path) = Lookup(heap, WalkTo(c))
BY SameLookup, SameOperators DEF WalkTo, Service!Parent, Service!At

\* Whether a call that changes something is possible, and what it does.
LEMMA ServiceChanges ==
  ASSUME NEW c, NEW i, i = Lookup(heap, WalkTo(c))
  PROVE  /\ c.op = "mknod" => /\ Service!Possible(c) <=> i # Null
                              /\ Service!Effect(c) = AddSub(heap, i, BaseName(c.path), FALSE, NoData)
         /\ c.op = "mkdir" =>
              /\ Service!Possible(c) <=> i # Null /\ GetSub(heap, i, BaseName(c.path)) = Null
              /\ Service!Effect(c) = AddSub(heap, i, BaseName(c.path), TRUE, NoData)
         /\ c.op = "write" => /\ Service!Possible(c) <=> i # Null
                              /\ Service!Effect(c) = [heap EXCEPT ![i].content = c.data]
         /\ c.op = "rm" => /\ Service!Possible(c) <=> i # Null
                           /\ Service!Effect(c) = DeleteMyself(heap, i)
         /\ c.op = "rmdir" => /\ Service!Possible(c) <=> i # Null /\ heap[i].isDir
                              /\ Service!Effect(c) = DeleteMyself(heap, i)
         /\ ~Mutates(c.op) => ~Service!Possible(c)
<1>1. /\ CreatesEntry(c.op) => Service!Parent(c.path) = i
      /\ ~CreatesEntry(c.op) => Service!At(c.path) = i /\ Service!Lookup(heap, c.path) = i
  BY ServiceFinds, SameLookup DEF WalkTo
<1>2. CASE c.op = "mknod"
  <2>1. Service!Possible(c) <=> i # Null
    BY <1>1, <1>2, SameOperators DEF Service!Possible, CreatesEntry
  <2>2. Service!Effect(c) = AddSub(heap, i, BaseName(c.path), FALSE, NoData)
    <3>1. Service!Effect(c) = Service!AddSub(heap, Service!Parent(c.path), Service!BaseName(c.path), FALSE, NoData)
      BY <1>2 DEF Service!Effect
    <3>2. Service!Parent(c.path) = i /\ Service!BaseName(c.path) = BaseName(c.path)
      BY <1>1, <1>2, SameOperators DEF CreatesEntry
    <3> QED
      BY <3>1, <3>2, SameOperators, Zenon
  <2> QED
    BY <1>2, <2>1, <2>2 DEF Mutates
<1>3. CASE c.op = "mkdir"
  <2>1. Service!Possible(c) <=> i # Null /\ GetSub(heap, i, BaseName(c.path)) = Null
    BY <1>1, <1>3, SameOperators DEF Service!Possible, CreatesEntry
  <2>2. Service!Effect(c) = AddSub(heap, i, BaseName(c.path), TRUE, NoData)
    <3>1. Service!Effect(c) = Service!AddSub(heap, Service!Parent(c.path), Service!BaseName(c.path), TRUE, NoData)
      BY <1>3 DEF Service!Effect
    <3>2. Service!Parent(c.path) = i /\ Service!BaseName(c.path) = BaseName(c.path)
      BY <1>1, <1>3, SameOperators DEF CreatesEntry
    <3> QED
      BY <3>1, <3>2, SameOperators, Zenon
  <2> QED
    BY <1>3, <2>1, <2>2 DEF Mutates
<1>4. CASE c.op = "write"
  <2>1. Service!Possible(c) <=> i # Null
    BY <1>1, <1>4, SameOperators DEF Service!Possible, CreatesEntry
  <2>2. Service!Effect(c) = [heap EXCEPT ![i].content = c.data]
    BY <1>1, <1>4 DEF Service!Effect, CreatesEntry
  <2> QED
    BY <1>4, <2>1, <2>2 DEF Mutates
<1>5. CASE c.op = "rm"
  <2>1. Service!Possible(c) <=> i # Null
    BY <1>1, <1>5, SameOperators DEF Service!Possible, CreatesEntry
  <2>2. Service!Effect(c) = DeleteMyself(heap, i)
    BY <1>1, <1>5, SameOperators DEF Service!Effect, CreatesEntry
  <2> QED
    BY <1>5, <2>1, <2>2 DEF Mutates
<1>6. CASE c.op = "rmdir"
  <2>1. Service!Possible(c) <=> i # Null /\ heap[i].isDir
    BY <1>1, <1>6, SameOperators DEF Service!Possible, Service!IsDirPath, CreatesEntry
  <2>2. Service!Effect(c) = DeleteMyself(heap, i)
    BY <1>1, <1>6, SameOperators DEF Service!Effect, CreatesEntry
  <2> QED
    BY <1>6, <2>1, <2>2 DEF Mutates
<1>7. CASE c.op \notin {"mknod", "mkdir", "write", "rm", "rmdir"}
  BY <1>7 DEF Service!Possible, Mutates
<1> QED
  BY <1>2, <1>3, <1>4, <1>5, <1>6, <1>7

\* What a call that only asks is answered, and what it has put out.
LEMMA ServiceAnswers ==
  ASSUME NEW c, NEW i, i = Lookup(heap, WalkTo(c))
  PROVE  /\ c.op \in {"exist", "read"} => (Service!Answer(c) <=> i # Null)
         /\ c.op \in {"is_dir", "lsdir"} => (Service!Answer(c) <=> i # Null /\ heap[i].isDir)
         /\ c.op = "is_file" => (Service!Answer(c) <=> i # Null /\ ~heap[i].isDir)
         /\ c.op \notin {"exist", "read", "is_dir", "is_file", "lsdir"} => ~Service!Answer(c)
         /\ c.op = "read" => (Service!OutputOK(c) <=> callback.data = heap[i].content)
         /\ c.op = "lsdir" => (Service!OutputOK(c) <=> IsEachOnce(callback.list, heap[i].entries))
         /\ c.op \notin {"read", "lsdir"} => Service!OutputOK(c)
<1>1. ~CreatesEntry(c.op) => Service!At(c.path) = i /\ Service!Lookup(heap, c.path) = i
  BY ServiceFinds, SameLookup DEF WalkTo
<1>2. CASE c.op \in {"exist", "read", "is_dir", "is_file", "lsdir"}
  <2>1. Service!At(c.path) = i /\ Service!Lookup(heap, c.path) = i /\ Service!Null = Null
    BY <1>1, <1>2, SameOperators DEF CreatesEntry
  <2>2. \A s, set : IsEachOnce(s, set) <=> Len(s) = Cardinality(set) /\ {s[k] : k \in DOMAIN s} = set
    BY DEF IsEachOnce, ToSet
  <2>3. /\ c.op \in {"exist", "read"} => (Service!Answer(c) <=> i # Null)
        /\ c.op \in {"is_dir", "lsdir"} => (Service!Answer(c) <=> i # Null /\ heap[i].isDir)
        /\ c.op = "is_file" => (Service!Answer(c) <=> i # Null /\ ~heap[i].isDir)
    BY <2>1 DEF Service!Answer, Service!IsDirPath
  <2>4. c.op = "read" => (Service!OutputOK(c) <=> callback.data = heap[i].content)
    BY <2>1 DEF Service!OutputOK
  <2>5. c.op = "lsdir" => (Service!OutputOK(c) <=> IsEachOnce(callback.list, heap[i].entries))
    <3>1. PICK entries : entries = heap[i].entries
      OBVIOUS
    <3>2. c.op = "lsdir" =>
            (Service!OutputOK(c) <=>
               /\ Len(callback.list) = Cardinality(entries)
               /\ {callback.list[k] : k \in DOMAIN callback.list} = entries)
      BY <2>1, <3>1, SameOperators DEF Service!OutputOK
    <3> QED
      BY <2>2, <3>1, <3>2
  <2>6. c.op \notin {"read", "lsdir"} => Service!OutputOK(c)
    BY DEF Service!OutputOK
  <2> QED
    BY <1>2, <2>3, <2>4, <2>5, <2>6
<1>3. CASE c.op \notin {"exist", "read", "is_dir", "is_file", "lsdir"}
  BY <1>3 DEF Service!Answer, Service!OutputOK
<1> QED
  BY <1>2, <1>3

\* At first both have the same file system, and nobody has called.
LEMMA InitServes == Init => Service!Init
BY DEF Init, Service!Init, NoCallback, NewHeap, Service!NewHeap, Inode, Service!Inode,
       Root, Service!Root, Null, Service!Null

\* What the client has found it has found by the path.
LEMMA FoundIsFinal ==
  ASSUME DataIInv, FoundIInv, AppliedIInv, client.pc = "found"
  PROVE  /\ call \in Calls /\ call # Nil /\ applied = 0
         /\ client.ino = Lookup(heap, WalkTo(call)) /\ client.ino # Null
         /\ heap[client.ino].isDir \in BOOLEAN
<1>1. call \in Calls /\ client.ino \in DOMAIN heap /\ HeapIInv(heap)
  BY DEF DataIInv, WalkIInv, TreeIInv
<1>2. client.ino = Lookup(heap, WalkTo(call))
  BY <1>1, WalkIs DEF FoundIInv, ClientFound
<1>3. client.ino # Null /\ heap[client.ino].isDir \in BOOLEAN
  BY <1>1 DEF HeapIInv, IsHeap, IsInode, Null
<1> QED
  BY <1>1, <1>2, <1>3, CallsAssumption, OnlyAskedApplies

\* A directory on the way that is not there makes the path one that is not.
LEMMA MissingOnTheWay ==
  ASSUME DataIInv, client.pc = "looking", Lookup(heap, Walk[client.at]) = Null
  PROVE  Lookup(heap, WalkTo(call)) = Null
<1>1. call \in Calls /\ client.at \in 1 .. Len(Walk) /\ HeapIInv(heap)
  BY DEF DataIInv, WalkIInv, TreeIInv
<1>2. PICK q : q = WalkTo(call)
  OBVIOUS
<1>3. Walk = Visited(q)
  BY <1>2 DEF Walk, WalkOf, WalkTo
<1>4. CASE q = RootPath
  <2>1. Walk = <<RootPath, RootPath>>
    BY <1>3, <1>4 DEF Visited
  <2>2. Walk[client.at] = RootPath
    BY <1>1, <2>1
  <2> QED
    BY <1>2, <1>4, <2>2
<1>5. CASE q # RootPath
  <2>1. q \in Path
    BY <1>1, <1>2, WalkIs
  <2>2. PICK n : n = Len(q) /\ n \in Nat
    BY <2>1, PathParts
  <2>3. Walk = [k \in 1 .. n + 1 |-> Prefix(q, k - 1)]
    BY <1>3, <1>5, <2>2 DEF Visited
  <2>4. Len(Walk) = n + 1
    BY <2>2, <2>3, HasLength
  <2>5. Walk[client.at] = Prefix(q, client.at - 1) /\ client.at - 1 \in 0 .. Len(q)
    BY <1>1, <2>2, <2>3, <2>4
  <2> QED
    BY <1>1, <1>2, <2>1, <2>5, PrefixFound
<1> QED
  BY <1>4, <1>5

\* What is asked for and not yet done can be done.
LEMMA AskedIsThere ==
  ASSUME DataIInv, client.pc = "asked", AskedForIt, applied = 0
  PROVE  /\ call \in Calls /\ call # Nil
         /\ client.ino = Lookup(heap, WalkTo(call)) /\ client.ino # Null
<1>1. call \in Calls /\ client.ino \in DOMAIN heap /\ HeapIInv(heap)
  BY DEF DataIInv, WalkIInv, TreeIInv
<1>2. client.ino # Null
  BY <1>1 DEF HeapIInv, IsHeap, IsInode, Null
<1> QED
  BY <1>1, <1>2, CallsAssumption DEF AskedForIt

\* The MDS that makes a change makes the one that the call is, if it can.
LEMMA ChangeIsPossible ==
  ASSUME DataIInv, ChainIInv, AppliedIInv, OutcomeIInv, NEW r \in Ranks, MdsStep(r),
         IsRequest(Top), Top.pc \in {"call", "scan"}, Changes(Req.op)
  PROVE  /\ AskedForIt /\ applied = 0 /\ call # Nil
         /\ client.ino = Lookup(heap, WalkTo(call)) /\ client.ino # Null
         /\ Req.ino = client.ino /\ Req.data = call.data
         /\ CreatesEntry(call.op) => Req.name = BaseName(call.path)
         /\ Req.op = "CREATE" <=> call.op = "mknod"
         /\ Req.op = "MKDIR" <=> call.op = "mkdir"
         /\ Req.op = "RM" <=> call.op = "rm"
         /\ Req.op = "RMDIR" <=> call.op = "rmdir"
         /\ Req.op = "WRITE" <=> call.op = "write"
<1>1. stack # <<>>
  BY MdsStepIsAtTop
<1>2. client.pc = "asked"
  <2>1. Req.op = WantedOp
    BY <1>1, RequestIsFirst DEF AppliedIInv
  <2> QED
    BY <2>1 DEF WantedOp, Changes
<1>3. AskedForIt /\ applied = 0
  BY <1>1, <1>2, PhaseAtTop DEF Pending
<1>4. PICK name : name = IF CreatesEntry(call.op) THEN BaseName(call.path) ELSE ""
  OBVIOUS
<1>5. Req.name = name
  BY <1>1, <1>2, <1>3, <1>4, TopIsAskedFor
<1>6. CreatesEntry(call.op) => Req.name = BaseName(call.path)
  BY <1>4, <1>5
<1>7. /\ Req.ino = client.ino /\ Req.data = call.data
      /\ Req.op = "CREATE" <=> call.op = "mknod"
      /\ Req.op = "MKDIR" <=> call.op = "mkdir"
      /\ Req.op = "RM" <=> call.op = "rm"
      /\ Req.op = "RMDIR" <=> call.op = "rmdir"
      /\ Req.op = "WRITE" <=> call.op = "write"
  BY <1>1, <1>2, <1>3, TopIsAskedFor
<1>8. call # Nil /\ client.ino = Lookup(heap, WalkTo(call)) /\ client.ino # Null
  BY <1>2, <1>3, AskedIsThere
<1> QED
  BY <1>3, <1>6, <1>7, <1>8

\* Such a step is the call's effect; every other one of an MDS has none.
LEMMA MdsStepServes ==
  ASSUME DataIInv, ChainIInv, FoundIInv, AppliedIInv, OutcomeIInv, NEW r \in Ranks, MdsStep(r)
  PROVE  [Service!Next]_(Service!vars)
<1>1. UNCHANGED <<call, callback, result>>
  BY MdsLeavesClient
<1>2. ASSUME UNCHANGED heap, applied' = applied PROVE UNCHANGED Service!vars
  BY <1>1, <1>2 DEF Service!vars
<1>3. ASSUME call # Nil, applied = 0, applied' = 1, Service!Possible(call), heap' = Service!Effect(call)
      PROVE  Service!Next
  BY <1>1, <1>3 DEF Service!Next, Service!Apply
<1>4. ASSUME NEW op, Executes(r, op)
      PROVE  IsRequest(Top) /\ Top.pc = "call" /\ Req.op = op
  BY <1>4, RequestAtTop DEF IsRequest
<1>5. CASE OpCreate(r)
  <2>1. IsRequest(Top) /\ Top.pc = "call" /\ Req.op = "CREATE"
    BY <1>4, <1>5 DEF OpCreate
  <2>2. /\ applied = 0 /\ call # Nil /\ call.op = "mknod" /\ Req.name = BaseName(call.path)
        /\ Req.ino = Lookup(heap, WalkTo(call)) /\ Req.ino # Null
    BY <2>1, ChangeIsPossible DEF Changes, CreatesEntry
  <2>3. heap' = AddSub(heap, Req.ino, Req.name, FALSE, NoData) /\ applied' = applied + 1
    BY <1>5 DEF OpCreate, Mutate
  <2>4. Service!Possible(call) /\ heap' = Service!Effect(call)
    BY <2>2, <2>3, ServiceChanges
  <2>5. applied' = 1
    BY <2>2, <2>3
  <2> QED
    BY <1>3, <2>2, <2>4, <2>5
<1>6. CASE OpMkdir(r)
  <2>1. IsRequest(Top) /\ Top.pc = "call" /\ Req.op = "MKDIR"
    BY <1>4, <1>6 DEF OpMkdir
  <2>2. /\ applied = 0 /\ call # Nil /\ call.op = "mkdir" /\ Req.name = BaseName(call.path)
        /\ Req.ino = Lookup(heap, WalkTo(call)) /\ Req.ino # Null
    BY <2>1, ChangeIsPossible DEF Changes, CreatesEntry
  <2>3. CASE GetSub(heap, Req.ino, Req.name) # Null
    <3>1. UNCHANGED heap /\ applied' = applied
      BY <1>6, <2>3 DEF OpMkdir, Fail, fsVars, historyVars
    <3> QED
      BY <1>2, <3>1
  <2>4. CASE GetSub(heap, Req.ino, Req.name) = Null
    <3>1. heap' = AddSub(heap, Req.ino, Req.name, TRUE, NoData) /\ applied' = applied + 1
      BY <1>6, <2>4 DEF OpMkdir, Mutate
    <3>2. Service!Possible(call) /\ heap' = Service!Effect(call)
      BY <2>2, <2>4, <3>1, ServiceChanges
    <3>3. applied' = 1
      BY <2>2, <3>1
    <3> QED
      BY <1>3, <2>2, <3>2, <3>3
  <2> QED
    BY <2>3, <2>4
<1>7. CASE OpWrite(r)
  <2>1. IsRequest(Top) /\ Top.pc = "call" /\ Req.op = "WRITE"
    BY <1>4, <1>7 DEF OpWrite
  <2>2. /\ applied = 0 /\ call # Nil /\ call.op = "write" /\ Req.data = call.data
        /\ Req.ino = Lookup(heap, WalkTo(call)) /\ Req.ino # Null
    BY <2>1, ChangeIsPossible DEF Changes
  <2>3. heap' = [heap EXCEPT ![Req.ino].content = Req.data] /\ applied' = applied + 1
    BY <1>7 DEF OpWrite, Mutate
  <2>4. Service!Possible(call) /\ heap' = Service!Effect(call)
    BY <2>2, <2>3, ServiceChanges
  <2> QED
    BY <1>3, <2>2, <2>3, <2>4
<1>8. CASE OpRm(r) \/ EndRmdir(r)
  <2>1. IsRequest(Top) /\ Top.pc \in {"call", "scan"} /\ Req.op = IF OpRm(r) THEN "RM" ELSE "RMDIR"
    <3>1. ASSUME OpRm(r) PROVE IsRequest(Top) /\ Top.pc = "call" /\ Req.op = "RM"
      BY <1>4, <3>1 DEF OpRm
    <3>2. ASSUME EndRmdir(r) PROVE IsRequest(Top) /\ Top.pc = "scan" /\ Req.op = "RMDIR"
      BY <3>2, RequestAtTop DEF EndRmdir, IsRequest
    <3> QED
      BY <1>8, <3>1, <3>2
  <2>2. /\ AskedForIt /\ applied = 0 /\ call # Nil /\ call.op \in {"rm", "rmdir"}
        /\ Req.ino = client.ino /\ Req.ino = Lookup(heap, WalkTo(call)) /\ Req.ino # Null
    BY <2>1, ChangeIsPossible DEF Changes
  <2>3. heap' = DeleteMyself(heap, Req.ino) /\ applied' = applied + 1
    BY <1>8 DEF OpRm, EndRmdir, Mutate
  <2>4. call.op = "rmdir" => heap[Req.ino].isDir
    BY <2>2 DEF AskedForIt
  <2>5. Service!Possible(call) /\ heap' = Service!Effect(call)
    BY <2>2, <2>3, <2>4, ServiceChanges
  <2> QED
    BY <1>3, <2>2, <2>3, <2>5
<1>9. CASE \/ Forward(r) \/ OpLookup(r) \/ OpRead(r) \/ OpScan(r) \/ AskSlave(r) \/ SlaveReturns(r)
           \/ EndListdir(r) \/ HandleSlaveRequest(r) \/ HandleSlaveReply(r)
  <2>1. UNCHANGED heap /\ applied' = applied
    BY <1>9 DEF Forward, OpLookup, OpRead, OpScan, AskSlave, SlaveReturns, EndListdir,
                HandleSlaveRequest, HandleSlaveReply, Fail, fsVars, historyVars
  <2> QED
    BY <1>2, <2>1
<1> QED
  BY <1>5, <1>6, <1>7, <1>8, <1>9, NoneIsFollowed DEF MdsStep

\* A call ends as the abstract one may: with the answer it has there, and
\* with what it is to put out.
LEMMA ReturnServes ==
  ASSUME DataIInv, FoundIInv, AppliedIInv, OutcomeIInv, RequestReturns
  PROVE  Service!Next
<1>1. /\ client.pc = "asked" /\ stack = <<>> /\ Finish(ret) /\ UNCHANGED heap
      /\ call \in Calls /\ call # Nil /\ call.op \in DOMAIN RequestOp
  BY CallsAssumption DEF RequestReturns, fsVars, DataIInv, WalkIInv, AppliedIInv
<1>2. AskedForIt /\ (Refused \/ Served)
  BY <1>1 DEF OutcomeIInv, Pending
<1>3. /\ result' = ret /\ call' = Nil /\ applied' = 0 /\ UNCHANGED callback
  BY <1>1 DEF Finish
<1>4. /\ Changes(WantedOp) => applied = IF ret THEN 1 ELSE 0
      /\ ~Changes(WantedOp) => applied = 0
  BY <1>1 DEF AppliedIInv, AppliedAgrees
<1>5. Changes(WantedOp) <=> Mutates(call.op)
  BY <1>1 DEF WantedOp, Changes, Mutates, RequestOp
<1>6. PICK i : i = Lookup(heap, WalkTo(call))
  OBVIOUS
<1>7. ASSUME NEW b \in BOOLEAN, ret = b, NEW done \in BOOLEAN, applied > 0 <=> done,
             ~done => ~Service!Possible(call), b <=> done \/ Service!Answer(call), b => Service!OutputOK(call)
      PROVE  Service!Return
  <2>1. ~(applied' > 0)
    BY <1>3
  <2>2. result' = b /\ call # Nil /\ call' = Nil /\ UNCHANGED <<heap, callback>>
    BY <1>1, <1>3, <1>7
  <2> QED
    BY <1>7, <2>1, <2>2 DEF Service!Return
<1>8. ASSUME Refused PROVE Service!Return
  <2>1. applied = 0 /\ ret = FALSE /\ client.ino = i /\ call.op \in {"mkdir", "lsdir"}
    BY <1>1, <1>2, <1>6, <1>8, AskedIsThere DEF Refused
  <2>2. \/ call.op = "mkdir" /\ GetSub(heap, i, BaseName(call.path)) # Null
        \/ call.op = "lsdir" /\ ~heap[i].isDir
    BY <1>8, <2>1 DEF Refused
  <2>3. ~Service!Possible(call)
    BY <1>6, <2>2, ServiceChanges DEF Mutates
  <2>4. ~Service!Answer(call)
    BY <1>6, <2>2, ServiceAnswers
  <2> QED
    <3>1. ret = FALSE /\ ~(applied > 0)
      BY <2>1
    <3> QED
      BY <1>7, <2>3, <2>4, <3>1
<1>9. ASSUME Served PROVE Service!Return
  <2>1. ret = TRUE /\ ~Replying
    BY <1>1, <1>9 DEF Served, Replying
  <2>2. /\ call.op = "read" => callback.data = heap[client.ino].content
        /\ call.op = "lsdir" =>
             heap[client.ino].isDir /\ IsEachOnce(callback.list, heap[client.ino].entries)
    BY <1>9, <2>1 DEF Served, List, Data
  <2>3. CASE Mutates(call.op)
    <3>1. applied = 1
      BY <1>4, <1>5, <2>1, <2>3
    <3>2. Service!OutputOK(call)
      BY <1>6, <2>3, ServiceAnswers DEF Mutates
    <3> QED
      <4>1. ret = TRUE /\ applied > 0
        BY <2>1, <3>1
      <4> QED
        BY <1>7, <3>2, <4>1
  <2>4. CASE ~Mutates(call.op)
    <3>1. applied = 0 /\ call.op \in {"read", "lsdir"}
      BY <1>1, <1>4, <1>5, <2>4 DEF Mutates, RequestOp
    <3>2. client.ino = i /\ i # Null
      BY <1>1, <1>2, <1>6, <3>1, AskedIsThere
    <3>3. Service!Answer(call) /\ Service!OutputOK(call)
      BY <1>6, <2>2, <3>1, <3>2, ServiceAnswers
    <3>4. ~Service!Possible(call)
      BY <1>6, <2>4, ServiceChanges
    <3> QED
      <4>1. ret = TRUE /\ ~(applied > 0)
        BY <2>1, <3>1
      <4> QED
        BY <1>7, <3>3, <3>4, <4>1
  <2> QED
    BY <2>3, <2>4
<1> QED
  BY <1>2, <1>8, <1>9 DEF Service!Next

\* A call whose path is not there ends, too, and so does one that only had to
\* look.
LEMMA LookedServes ==
  ASSUME DataIInv, FoundIInv, AppliedIInv, OutcomeIInv, LookupReturns \/ Answered
  PROVE  [Service!Next]_(Service!vars)
<1>1. PICK i : i = Lookup(heap, WalkTo(call))
  OBVIOUS
<1>2. ASSUME NEW b \in BOOLEAN, Finish(b), UNCHANGED heap, call # Nil, applied = 0,
             ~Service!Possible(call), Service!Answer(call) <=> b, b => Service!OutputOK(call)
      PROVE  Service!Next
  <2>1. result' = b /\ call' = Nil /\ applied' = 0 /\ UNCHANGED callback
    BY <1>2 DEF Finish
  <2> QED
    BY <1>2, <2>1 DEF Service!Next, Service!Return
<1>3. CASE LookupReturns
  <2>1. client.pc = "looking" /\ stack = <<>> /\ UNCHANGED heap /\ call \in Calls /\ call # Nil /\ applied = 0
    BY <1>3, CallsAssumption, OnlyAskedApplies DEF LookupReturns, fsVars, DataIInv, WalkIInv
  <2>2. CASE callback.ino = Null
    <3>1. Lookup(heap, Walk[client.at]) = Null
      BY <2>1, <2>2 DEF OutcomeIInv, Replying
    <3>2. i = Null
      BY <1>1, <2>1, <3>1, MissingOnTheWay
    <3>3. ~Service!Possible(call)
      BY <1>1, <3>2, ServiceChanges DEF Mutates
    <3>4. ~Service!Answer(call)
      BY <1>1, <3>2, ServiceAnswers
    <3>5. Finish(FALSE)
      BY <1>3, <2>2 DEF LookupReturns
    <3> QED
      BY <1>2, <2>1, <3>3, <3>4, <3>5
  <2>3. CASE callback.ino # Null
    BY <1>3, <2>1, <2>3 DEF LookupReturns, Found, historyVars, Service!vars
  <2> QED
    BY <2>2, <2>3
<1>4. CASE Answered
  <2>1. client.pc = "found" /\ UNCHANGED heap
    BY <1>4 DEF Answered, fsVars
  <2>2. call # Nil /\ applied = 0 /\ client.ino = i /\ i # Null /\ heap[i].isDir \in BOOLEAN
    BY <1>1, <2>1, FoundIsFinal
  <2>3. \/ call.op = "exist" /\ Finish(TRUE)
        \/ call.op = "is_file" /\ Finish(~heap[i].isDir)
        \/ call.op = "is_dir" /\ Finish(heap[i].isDir)
        \/ call.op = "rmdir" /\ ~heap[i].isDir /\ Finish(FALSE)
    BY <1>4, <2>2 DEF Answered
  <2>4. ~Service!Possible(call) /\ Service!OutputOK(call)
    <3>1. ~Service!Possible(call)
      BY <1>1, <2>3, ServiceChanges DEF Mutates
    <3>2. Service!OutputOK(call)
      BY <1>1, <2>3, ServiceAnswers
    <3> QED
      BY <3>1, <3>2
  <2>5. CASE call.op = "exist"
    <3>1. Service!Answer(call) /\ Finish(TRUE)
      BY <1>1, <2>2, <2>3, <2>5, ServiceAnswers
    <3> QED
      BY <1>2, <2>1, <2>2, <2>4, <3>1
  <2>6. CASE call.op = "is_file"
    <3>1. (Service!Answer(call) <=> ~heap[i].isDir) /\ Finish(~heap[i].isDir)
      BY <1>1, <2>2, <2>3, <2>6, ServiceAnswers
    <3> QED
      BY <1>2, <2>1, <2>2, <2>4, <3>1
  <2>7. CASE call.op = "is_dir"
    <3>1. (Service!Answer(call) <=> heap[i].isDir) /\ Finish(heap[i].isDir)
      BY <1>1, <2>2, <2>3, <2>7, ServiceAnswers
    <3> QED
      BY <1>2, <2>1, <2>2, <2>4, <3>1
  <2>8. CASE call.op = "rmdir"
    <3>1. ~Service!Answer(call) /\ Finish(FALSE)
      BY <1>1, <2>3, <2>8, ServiceAnswers
    <3> QED
      BY <1>2, <2>1, <2>2, <2>4, <3>1
  <2> QED
    BY <2>3, <2>5, <2>6, <2>7, <2>8
<1> QED
  BY <1>3, <1>4

\* Every step of the client is one of the abstract call, or none.
LEMMA ClientStepServes ==
  ASSUME DataIInv, FoundIInv, AppliedIInv, OutcomeIInv, ClientStep
  PROVE  [Service!Next]_(Service!vars)
<1>1. CASE LookupRemote \/ Request \/ HandleReply
  <2>1. client.pc # "idle"
    <3>1. stack # <<>> => client.pc \in {"looking", "asked"}
      BY DEF DataIInv, AskerIInv, RequestsIInv, ClientWaits
    <3> QED
      BY <1>1, <3>1 DEF LookupRemote, Request, HandleReply, Called
  <2>2. call # Nil
    BY <2>1, CallsAssumption DEF DataIInv, WalkIInv
  <2>3. UNCHANGED <<heap, call, applied, result>>
    BY <1>1 DEF LookupRemote, Request, HandleReply, fsVars, callVars, historyVars
  <2> QED
    BY <2>2, <2>3 DEF Service!Next, Service!WriteOutput
<1>2. CASE LookupCached
  <2>1. UNCHANGED <<heap, call, result, callback>> /\ applied' = applied
    BY <1>2 DEF LookupCached, Found, fsVars, historyVars
  <2> QED
    BY <2>1 DEF Service!vars
<1>3. ~LooksAtDeleted
  BY ClientFollowsNone
<1> QED
  BY <1>1, <1>2, <1>3, ReturnServes, LookedServes DEF ClientStep

\* So is every step of the whole.
LEMMA NextServes ==
  ASSUME DataIInv, ChainIInv, FoundIInv, AppliedIInv, OutcomeIInv, [Next]_vars
  PROVE  [Service!Next]_(Service!vars)
<1>1. ASSUME NEW c \in Calls, Begin(c) PROVE Service!Next
  <2>1. call = Nil
    BY <1>1 DEF Begin, DataIInv, WalkIInv
  <2>2. call' = c /\ UNCHANGED <<heap, result, callback>> /\ applied' = applied
    BY <1>1 DEF Begin, fsVars, historyVars
  <2>3. c.op \in {"mknod", "mkdir"} => Len(heap) < MaxInodes
    BY <1>1 DEF Begin, CreatesEntry
  <2> QED
    BY <2>1, <2>2, <2>3 DEF Service!Next, Service!Invoke
<1>2. CASE Register \/ HandleReturn \/ UNCHANGED vars
  <2>1. UNCHANGED <<heap, call, result, callback>> /\ applied' = applied
    BY <1>2 DEF Register, HandleReturn, vars, fsVars, callVars, historyVars
  <2> QED
    BY <2>1 DEF Service!vars
<1>3. ASSUME NEW r \in Ranks, MdsStep(r) PROVE [Service!Next]_(Service!vars)
  BY <1>3, MdsStepServes
<1>4. CASE ClientStep
  BY <1>4, ClientStepServes
<1> QED
  BY <1>1, <1>2, <1>3, <1>4 DEF Next, Step

-----------------------------------------------------------------------------
(***************************************************************************)
(* The client's cache.  All of this rests on what the walk of a call takes  *)
(* from it; while the call walks, the cache changes by what was looked up,  *)
(* and the file system not at all.                                         *)
(***************************************************************************)
\* If no call takes a way on which the cache has something stale, what is on the
\* way is right until the call has walked it.
LEMMA NextKeepsWalkCached ==
  ASSUME DataIInv, FoundIInv, PathIInv, WalkIsCached, [Next]_vars, [TakesNothingStale]_vars
  PROVE  WalkIsCached'
<1>0. /\ {"pc", "at", "ino"} \subseteq DOMAIN client
      /\ client.pc \in {"idle", "walk", "looking", "found", "asked"}
      /\ client.pc = "idle" => stack = <<>>
      /\ stack # <<>> => client.pc \in {"looking", "asked"}
      /\ CacheOK(DOMAIN heap, cache)
  BY DEF DataIInv, WalkIInv, AskerIInv, RequestsIInv, ClientWaits
<1>1. ASSUME client'.pc \notin {"walk", "looking"} PROVE WalkIsCached'
  BY <1>1 DEF WalkIsCached
<1>2. ASSUME client.pc \in {"walk", "looking"}, UNCHANGED <<heap, call>>,
             EnableCache => \A j \in DOMAIN cache' : \/ \E l \in DOMAIN cache : cache'[j] = cache[l]
                                                     \/ cache'[j].value = Lookup(heap, cache'[j].key)
      PROVE  WalkIsCached'
  BY <1>2 DEF WalkIsCached, RightlyCached
<1>3. ASSUME UNCHANGED <<cache, heap, call, client>> PROVE WalkIsCached'
  BY <1>1, <1>2, <1>3
<1>4. ASSUME NEW c \in Calls, Begin(c) PROVE WalkIsCached'
  <2>1. EnableCache => RightlyCached(c)
    <3>1. client.pc # client'.pc
      BY <1>0, <1>4 DEF Begin
    <3>2. ~UNCHANGED vars
      BY <3>1 DEF vars, callVars
    <3> QED
      BY <1>4, <3>2 DEF TakesNothingStale
  <2>2. UNCHANGED <<cache, heap>> /\ call' = c
    BY <1>4 DEF Begin, cacheVars, fsVars
  <2> QED
    BY <2>1, <2>2 DEF WalkIsCached, RightlyCached
<1>5. ASSUME NEW r \in Ranks, MdsStep(r) PROVE WalkIsCached'
  <2>1. UNCHANGED <<call, client>> /\ UNCHANGED cache
    BY <1>5 DEF MdsStep, Forward, OpLookup, OpCreate, OpMkdir, OpRead, OpWrite, OpRm, OpScan,
       AskSlave, SlaveReturns, EndListdir, EndRmdir, HandleSlaveRequest, SlaveOp, HandleSlaveReply,
       FollowsDeleted, Undefined, Reply, Fail, callVars, cacheVars
  <2>2. CASE UNCHANGED heap
    BY <1>3, <2>1, <2>2
  <2>3. CASE Looking = {}
    <3>1. client.pc = "asked"
      BY <1>0, <1>5, <2>3, MdsStepIsAtTop DEF Looking
    <3> QED
      BY <1>1, <2>1, <3>1
  <2> QED
    BY <1>5, <2>2, <2>3, MutatesAtEnd
<1>6. ASSUME NEW k, cache' = LRUGet(cache, k), client.pc \in {"walk", "looking"}, UNCHANGED <<heap, call>>
      PROVE  WalkIsCached'
  <2>1. \A j \in DOMAIN cache' : \E l \in DOMAIN cache : cache'[j] = cache[l]
    BY <1>0, <1>6, CacheEntries
  <2> QED
    BY <1>2, <1>6, <2>1
<1>7. CASE LookupCached
  BY <1>6, <1>7 DEF LookupCached, Found, fsVars
<1>8. CASE LookupRemote
  BY <1>2, <1>8 DEF LookupRemote, cacheVars, fsVars
<1>9. ASSUME NEW b, Finish(b) PROVE WalkIsCached'
  BY <1>1, <1>9 DEF Finish, NotWalking
<1>10. CASE LookupReturns
  <2>1. ASSUME NEW ino, Found(ino) PROVE WalkIsCached'
    BY <1>2, <1>10, <2>1 DEF LookupReturns, Found, cacheVars, fsVars
  <2> QED
    BY <1>9, <1>10, <2>1 DEF LookupReturns
<1>11. CASE Answered \/ RequestReturns
  BY <1>9, <1>11 DEF Answered, RequestReturns
<1>12. CASE Request
  <2>1. client'.pc = "asked"
    BY <1>0, <1>12 DEF Request
  <2> QED
    BY <1>1, <2>1
<1>13. ~LooksAtDeleted
  BY ClientFollowsNone
<1>14. CASE HandleReply
  <2>1. /\ stack # <<>> /\ Top.type = "REPLY" /\ UNCHANGED <<heap, call, client>>
        /\ cache' = CacheWith(Top.arg.fullpath, Top.arg.ino)
    BY <1>14 DEF HandleReply, Called, fsVars, callVars
  <2>2. PICK p, v : p = Top.arg.fullpath /\ v = Top.arg.ino
    OBVIOUS
  <2>3. CASE client.pc = "asked"
    BY <1>1, <2>1, <2>3
  <2>4. CASE client.pc = "looking"
    <3>1. FramePath(heap, Looking, Top) /\ FrameFound(heap, Looking, Top)
      BY <2>1, TopFrame, TopShape DEF PathIInv, FramePaths, FoundIInv, FramesFound
    <3>2. p = Walk[client.at] /\ v = Lookup(heap, p)
      BY <2>1, <2>2, <2>4, <3>1 DEF FramePath, FrameFound, Looking
    <3>3. CASE v = Null
      BY <1>6, <2>1, <2>2, <2>4, <3>3 DEF CacheWith
    <3>4. CASE v # Null
      <4>1. cache' = LRUSet(cache, CacheSize, p, v)
        BY <2>1, <2>2, <3>4 DEF CacheWith
      <4>2. \A j \in DOMAIN cache' : \/ cache'[j] = [key |-> p, value |-> v]
                                     \/ \E l \in DOMAIN cache : cache'[j] = cache[l]
        BY <1>0, <4>1, CacheEntries
      <4>3. \A x : x = [key |-> p, value |-> v] => x.value = Lookup(heap, x.key)
        BY <3>2
      <4> QED
        BY <1>2, <2>1, <2>4, <4>2, <4>3
    <3> QED
      BY <3>3, <3>4
  <2> QED
    BY <1>0, <2>1, <2>3, <2>4
<1>15. CASE HandleReturn \/ Register \/ UNCHANGED vars
  <2>1. UNCHANGED <<cache, heap, call, client>>
    BY <1>15 DEF HandleReturn, Register, vars, fsVars, callVars, cacheVars
  <2> QED
    BY <1>3, <2>1
<1> QED
  BY <1>4, <1>5, <1>7, <1>8, <1>10, <1>11, <1>12, <1>13, <1>14, <1>15 DEF Next, Step, ClientStep

-----------------------------------------------------------------------------
(***************************************************************************)
(* A driver that only adds to the file system.  Every inode is found by its *)
(* path then, so what the cache has under a path is what the path leads to. *)
(***************************************************************************)
\* What such a driver calls: nothing is removed, no file is created twice.
AddsOnly(c) == c.op \notin {"rm", "rmdir"} /\ (c.op = "mknod" => Lookup(heap, c.path) = Null)

OnlyAdds == [][\A c \in Calls : Begin(c) => AddsOnly(c)]_vars

\* The inductive invariant, with those before.
AddsIInv ==
  /\ EachIsFound(heap)
  /\ client.pc # "idle" => call.op \notin {"rm", "rmdir"}
  /\ client.pc # "idle" /\ call.op = "mknod" /\ applied = 0 => Lookup(heap, call.path) = Null
  /\ client.pc = "asked" => AskedForIt

\* The cache is right on every way.
LEMMA FoundIsCached ==
  ASSUME DataIInv, CachedUnderOwnPath, EachIsFound(heap), NEW c
  PROVE  RightlyCached(c)
<1> SUFFICES ASSUME NEW i \in DOMAIN cache PROVE cache[i].value = Lookup(heap, cache[i].key)
  BY DEF RightlyCached
<1>1. cache[i].value \in DOMAIN heap /\ PathOf(heap, cache[i].value) = cache[i].key
  BY DEF DataIInv, CacheOK, CachedUnderOwnPath
<1> QED
  BY <1>1 DEF EachIsFound

\* The request that changes something is the call's.
LEMMA ChangeIsAsked ==
  ASSUME DataIInv, ChainIInv, AppliedIInv, client.pc = "asked" => AskedForIt, stack # <<>>,
         IsRequest(Top), Top.pc \in {"call", "scan"}, Changes(Req.op)
  PROVE  client.pc = "asked" /\ AskedForIt /\ applied = 0
<1>1. Req.op = WantedOp
  BY TopWants
<1>2. client.pc = "asked"
  BY <1>1 DEF WantedOp, Changes
<1>3. Len(stack) \in DOMAIN stack /\ Top = stack[Len(stack)]
  BY TopShape DEF DataIInv, AskerIInv, RequestsIInv
<1>4. ~WasApplied
  BY <1>3 DEF WasApplied, IsRequest
<1>5. applied = 0
  BY <1>1, <1>4 DEF AppliedIInv, AppliedAgrees, ToApply
<1> QED
  BY <1>2, <1>5

\* A file that is created is not there yet.
LEMMA CreatedIsNew ==
  ASSUME DataIInv, ChainIInv, AppliedIInv, AddsIInv, NEW r \in Ranks, Executes(r, "CREATE")
  PROVE  GetSub(heap, Req.ino, Req.name) = Null
<1>1. /\ stack # <<>> /\ IsRequest(Top) /\ Top.pc = "call" /\ Req.op = "CREATE" /\ Changes(Req.op)
      /\ RequestOK(DOMAIN heap, Req)
  BY RequestAtTop DEF IsRequest, Changes
<1>2. client.pc = "asked" /\ AskedForIt /\ applied = 0
  BY <1>1, ChangeIsAsked DEF AddsIInv
<1>3. /\ call \in Calls /\ call.op = "mknod" /\ Req.ino = client.ino
      /\ Req.name = IF CreatesEntry(call.op) THEN BaseName(call.path) ELSE ""
  BY <1>1, <1>2, TopIsAskedFor
<1>4. PICK p, d, x : p = call.path /\ d = DirName(p) /\ x = BaseName(p)
  OBVIOUS
<1>5. p \in Path /\ Plain(p) /\ p # RootPath /\ Req.name = x
  BY <1>3, <1>4, WalkOfIs, RootAssumption DEF CreatesEntry
<1>6. Append(d, x) = p /\ d \in Path /\ x \in Name
  BY <1>4, <1>5, DirAndBase, PathParts DEF Path
<1>7. Len(d) \in Nat /\ Len(p) = Len(d) + 1 /\ p[Len(p)] = x /\ \A k \in 1 .. Len(d) : p[k] = d[k]
  <2>1. Len(d) \in Nat
    BY <1>6, PathParts
  <2> QED
    BY <1>6, <2>1, AppendProperties DEF Path
<1>8. p[Len(p)] # ""
  <2>1. Len(p) \in DOMAIN p
    BY <1>5, <1>7, PathParts
  <2> QED
    BY <1>5, <2>1, Zenon DEF Plain
<1>9. HeapIInv(heap)
  BY DEF DataIInv, TreeIInv
<1>10. Lookup(heap, p) = IF p[Len(p)] = "" THEN Lookup(heap, d)
                         ELSE IF Lookup(heap, d) = Null THEN Null
                         ELSE GetSub(heap, Lookup(heap, d), p[Len(p)])
  BY <1>7, <1>9, LookupStep
<1>11. Lookup(heap, p) = Null
  BY <1>2, <1>3, <1>4 DEF AddsIInv
<1>12. client.ino = Lookup(heap, d)
  BY <1>2, <1>3, <1>4 DEF AskedForIt, WalkTo, CreatesEntry
<1>13. client.ino # Null
  BY <1>2, AskedIsThere
<1>14. GetSub(heap, client.ino, x) = Null
  BY <1>7, <1>8, <1>10, <1>11, <1>12, <1>13, Zenon
<1> QED
  BY <1>3, <1>5, <1>14

\* So every inode is found by its path when there is a new one,
LEMMA NewOneIsFound ==
  ASSUME DataIInv, PathIInv, EachIsFound(heap), NEW r \in Ranks, NEW op \in {"CREATE", "MKDIR"},
         Executes(r, op), NEW dir \in BOOLEAN, heap' = AddSub(heap, Req.ino, Req.name, dir, NoData),
         GetSub(heap, Req.ino, Req.name) = Null
  PROVE  EachIsFound(heap')
<1>1. PICK n, i : n = Req.name /\ i = Req.ino
  OBVIOUS
<1>2. i \in DOMAIN heap /\ HeapIInv(heap)
  BY <1>1, RequestAtTop DEF RequestOK, DataIInv, TreeIInv
<1>3. n # ""
  BY <1>1, NewNameIsPlain, Zenon
<1>4. PICK g : g = AddSub(heap, i, n, dir, NoData)
  OBVIOUS
<1>5. n # "" => EachIsFound(g)
  BY <1>1, <1>2, <1>4, NewIsFound
<1>6. EachIsFound(g)
  BY <1>3, <1>5, Zenon
<1> QED
  BY <1>1, <1>4, <1>6

\* or other content in one.
LEMMA WrittenIsFound ==
  ASSUME DataIInv, EachIsFound(heap), NEW i \in DOMAIN heap, NEW d, heap' = [heap EXCEPT ![i].content = d]
  PROVE  EachIsFound(heap')
<1>1. HeapIInv(heap)
  BY DEF DataIInv, TreeIInv
<1>2. PICK g : g = heap'
  OBVIOUS
<1>3. HeapIInv(g) /\ DOMAIN g = DOMAIN heap
  BY <1>1, <1>2, WriteIs
<1>4. \A j \in DOMAIN heap : /\ g[j].name = heap[j].name /\ g[j].parent = heap[j].parent
                             /\ g[j].entries = heap[j].entries
  BY <1>2
<1>5. Kept(heap, g)
  BY <1>3, <1>4 DEF Kept
<1>6. \A j \in DOMAIN heap : heap[j].entries \subseteq DOMAIN heap
  BY <1>1 DEF HeapIInv, IsHeap
<1>7. \A j \in DOMAIN heap : \A m : GetSub(g, j, m) = GetSub(heap, j, m)
  <2> TAKE j \in DOMAIN heap
  <2> TAKE m
  <2>1. Named(g, j, m) = Named(heap, j, m)
    BY <1>4, <1>6 DEF Named
  <2> QED
    BY <2>1 DEF GetSub
<1>8. \A j \in DOMAIN heap : Lookup(g, PathOf(g, j)) = j
  BY <1>1, <1>3, <1>5, <1>7, EachStaysFound
<1> QED
  BY <1>2, <1>3, <1>8 DEF EachIsFound

\* A step of an MDS leaves what the client has asked for at the bottom.
LEMMA BottomStays ==
  ASSUME HashIsNat, DataIInv, NEW r \in Ranks, MdsStep(r)
  PROVE  stack' # <<>> => stack # <<>> /\ stack'[1].arg = stack[1].arg
<1>1. stack # <<>> /\ RevIInv
  BY MdsStepIsAtTop DEF DataIInv, AskerIInv, RequestsIInv
<1>2. ASSUME NEW b, Return(b) PROVE stack' # <<>> => stack'[1].arg = stack[1].arg
  BY <1>1, <1>2, ReturnKeepsFirst
<1>3. ASSUME NEW f, GoesOn(r, f), TopReplaced(stack', f) \/ \E g : Nests(f, g)
      PROVE  stack'[1].arg = stack[1].arg
  <2>1. Continues(stack', f)
    BY <1>1, <1>3, StepContinues
  <2>2. PICK n : n = Len(stack)
    OBVIOUS
  <2>3. /\ n \in Nat \ {0} /\ Top = stack[n] /\ stack'[n] = f /\ f.arg = Top.arg
        /\ \A k \in 1 .. n - 1 : stack'[k] = stack[k]
    BY <2>1, <2>2 DEF Continues, Moved, Top
  <2>4. n = 1 \/ 1 \in 1 .. n - 1
    BY <2>3
  <2> QED
    BY <2>3, <2>4
<1> QED
  BY <1>1, <1>2, <1>3, MdsStackStep DEF StackStep

\* A step of an MDS keeps it so: nothing is removed.
LEMMA MdsStepKeepsAdds ==
  ASSUME HashIsNat, DataIInv, ChainIInv, FoundIInv, PathIInv, AppliedIInv, AddsIInv, NEW r \in Ranks, MdsStep(r)
  PROVE  AddsIInv'
<1>1. UNCHANGED <<call, client>> /\ stack # <<>>
  BY MdsLeavesClient, MdsStepIsAtTop
<1>2. client.pc # "idle"
  BY <1>1 DEF DataIInv, AskerIInv, RequestsIInv, ClientWaits
<1>3. stack' # <<>> => stack # <<>> /\ stack'[1].arg = stack[1].arg
  BY BottomStays
<1>4. ASSUME EachIsFound(heap'), applied' # 0 \/ UNCHANGED <<heap, applied>> PROVE AddsIInv'
  <2>1. AskedForIt => AskedForIt'
    BY <1>1, <1>3, <1>4, AskedForStays
  <2> QED
    BY <1>1, <1>2, <1>4, <2>1 DEF AddsIInv, EachIsFound
<1>5. ASSUME NEW op, Executes(r, op) \/ ScanDone(r, op), Changes(op)
      PROVE  /\ client.pc = "asked" /\ AskedForIt /\ applied = 0 /\ Req.op = op /\ Req.ino \in DOMAIN heap
             /\ op \notin {"RM", "RMDIR"}
  <2>1. IsRequest(Top) /\ Top.pc \in {"call", "scan"} /\ Req.op = op /\ RequestOK(DOMAIN heap, Req)
    BY <1>5, RequestAtTop DEF IsRequest
  <2>2. client.pc = "asked" /\ AskedForIt /\ applied = 0
    BY <1>1, <1>5, <2>1, ChangeIsAsked DEF AddsIInv
  <2>3. (Req.op = "RM" <=> call.op = "rm") /\ (Req.op = "RMDIR" <=> call.op = "rmdir")
    BY <1>1, <2>1, <2>2, TopIsAskedFor
  <2>4. call.op \notin {"rm", "rmdir"}
    BY <1>2 DEF AddsIInv
  <2>5. Req.ino \in DOMAIN heap
    BY <1>5, <2>1 DEF RequestOK, Changes
  <2> QED
    BY <2>1, <2>2, <2>3, <2>4, <2>5
<1>6. EachIsFound(heap)
  BY DEF AddsIInv
<1>7. CASE OpCreate(r)
  <2>1. /\ Executes(r, "CREATE") /\ applied' = applied + 1
        /\ heap' = AddSub(heap, Req.ino, Req.name, FALSE, NoData)
    BY <1>7 DEF OpCreate, Mutate
  <2>2. applied' # 0
    BY <1>5, <2>1 DEF Changes
  <2>3. EachIsFound(heap')
    BY <1>6, <2>1, CreatedIsNew, NewOneIsFound
  <2> QED
    BY <1>4, <2>2, <2>3
<1>8. CASE OpMkdir(r)
  <2>1. CASE Fail /\ UNCHANGED fsVars
    BY <1>4, <1>6, <2>1 DEF Fail, fsVars, historyVars
  <2>2. CASE /\ Executes(r, "MKDIR") /\ GetSub(heap, Req.ino, Req.name) = Null /\ applied' = applied + 1
             /\ heap' = AddSub(heap, Req.ino, Req.name, TRUE, NoData)
    <3>1. applied' # 0
      BY <1>5, <2>2 DEF Changes
    <3>2. EachIsFound(heap')
      BY <1>6, <2>2, NewOneIsFound
    <3> QED
      BY <1>4, <3>1, <3>2
  <2> QED
    BY <1>8, <2>1, <2>2 DEF OpMkdir, Mutate
<1>9. CASE OpWrite(r)
  <2>1. Executes(r, "WRITE") /\ applied' = applied + 1 /\ heap' = [heap EXCEPT ![Req.ino].content = Req.data]
    BY <1>9 DEF OpWrite, Mutate
  <2>2. applied' # 0 /\ Req.ino \in DOMAIN heap
    BY <1>5, <2>1 DEF Changes
  <2>3. EachIsFound(heap')
    BY <1>6, <2>1, <2>2, WrittenIsFound
  <2> QED
    BY <1>4, <2>2, <2>3
<1>10. ~OpRm(r) /\ ~EndRmdir(r)
  BY <1>5 DEF OpRm, EndRmdir, Changes
<1>11. ~FollowsDeleted(r)
  BY NoneIsFollowed
<1>12. CASE \/ Forward(r) \/ OpLookup(r) \/ OpRead(r) \/ OpScan(r) \/ AskSlave(r) \/ SlaveReturns(r)
            \/ EndListdir(r) \/ HandleSlaveRequest(r) \/ HandleSlaveReply(r)
  <2>1. UNCHANGED <<heap, applied>>
    BY <1>12 DEF Forward, OpLookup, OpRead, OpScan, AskSlave, SlaveReturns, EndListdir,
                 HandleSlaveRequest, HandleSlaveReply, Fail, fsVars, historyVars
  <2> QED
    BY <1>4, <1>6, <2>1
<1> QED
  BY <1>7, <1>8, <1>9, <1>10, <1>11, <1>12 DEF MdsStep

\* The client asks for what it has found.
LEMMA RequestAsks ==
  ASSUME HashIsNat, DataIInv, FoundIInv, Request
  PROVE  AskedForIt'
<1>1. /\ client.pc = "found" /\ call \in Calls /\ stack = <<>>
      /\ {"pc", "at", "ino"} \subseteq DOMAIN client
  BY DEF Request, DataIInv, WalkIInv, AskerIInv, RequestsIInv, ClientWaits
<1>2. client.ino = Lookup(heap, WalkTo(call)) /\ call.path \in Path
  BY <1>1, WalkIs DEF FoundIInv, ClientFound
<1>3. PICK name, arg :
        /\ name = IF CreatesEntry(call.op) THEN BaseName(call.path) ELSE ""
        /\ arg = MClientRequest(RequestOp[call.op], call.path, name, client.ino, call.data)
  OBVIOUS
<1>4. SendRequest(RequestOp[call.op], call.path, name, client.ino, call.data)
  BY <1>3 DEF Request
<1>5. stack' # <<>> => stack'[1].arg = arg
  <2>1. PICK p, o, ino, d : p = call.path /\ o = RequestOp[call.op] /\ ino = client.ino /\ d = call.data
    OBVIOUS
  <2>2. SendRequest(o, p, name, ino, d) /\ arg = MClientRequest(o, p, name, ino, d) /\ p \in Path
    BY <1>2, <1>3, <1>4, <2>1
  <2>3. stack' = <<>> \/ \E to : Starts(MClientRequest(o, p, name, ino, d), to)
    BY <1>1, <2>2, ClientSends
  <2> QED
    BY <2>2, <2>3 DEF Starts
<1>6. client'.ino = client.ino /\ UNCHANGED <<heap, call, applied>>
  BY <1>1 DEF Request, fsVars, historyVars
<1>7. call.op = "rmdir" => heap[client.ino].isDir
  BY DEF Request
<1> QED
  BY <1>2, <1>3, <1>5, <1>6, <1>7 DEF AskedForIt, WalkTo

\* The invariant is inductive, if the driver only adds.
LEMMA NextKeepsAdds ==
  ASSUME HashIsNat, DataIInv, ChainIInv, FoundIInv, PathIInv, AppliedIInv, AddsIInv,
         [Next]_vars, [\A c \in Calls : Begin(c) => AddsOnly(c)]_vars
  PROVE  AddsIInv'
<1>0. /\ {"pc", "at", "ino"} \subseteq DOMAIN client
      /\ stack # <<>> => client.pc \in {"looking", "asked"}
      /\ client.pc = "idle" => stack = <<>>
  BY DEF DataIInv, WalkIInv, AskerIInv, RequestsIInv, ClientWaits
<1>1. ASSUME UNCHANGED heap, client'.pc = "idle" PROVE AddsIInv'
  BY <1>1 DEF AddsIInv, EachIsFound
<1>2. ASSUME UNCHANGED <<heap, call, applied>>, client.pc # "idle", client'.pc \notin {"idle", "asked"}
      PROVE  AddsIInv'
  BY <1>2 DEF AddsIInv, EachIsFound
<1>3. ASSUME UNCHANGED <<heap, call, client, applied>>, stack' # <<>> => stack # <<>> /\ stack'[1].arg = stack[1].arg
      PROVE  AddsIInv'
  <2>1. AskedForIt => AskedForIt'
    BY <1>3, AskedForStays
  <2> QED
    BY <1>3, <2>1 DEF AddsIInv, EachIsFound
<1>4. ASSUME NEW c \in Calls, Begin(c) PROVE AddsIInv'
  <2>1. client.pc = "idle" /\ client'.pc = "walk" /\ call' = c /\ UNCHANGED heap
    BY <1>0, <1>4 DEF Begin, fsVars
  <2>2. ~UNCHANGED vars
    BY <2>1 DEF vars, callVars
  <2>3. AddsOnly(c)
    BY <1>4, <2>2
  <2> QED
    BY <2>1, <2>3 DEF AddsOnly, AddsIInv, EachIsFound
<1>5. ASSUME NEW ino, Found(ino), client.pc \in {"walk", "looking"}, UNCHANGED heap PROVE AddsIInv'
  <2>1. client'.pc \in {"walk", "found"} /\ UNCHANGED <<call, applied>>
    BY <1>5 DEF Found, historyVars
  <2> QED
    BY <1>2, <1>5, <2>1
<1>6. ASSUME NEW b, Finish(b), UNCHANGED heap PROVE AddsIInv'
  BY <1>1, <1>6 DEF Finish, NotWalking
<1>7. CASE LookupCached
  BY <1>5, <1>7 DEF LookupCached, fsVars
<1>8. CASE LookupRemote
  <2>1. client.pc = "walk" /\ client'.pc = "looking" /\ UNCHANGED <<heap, call, applied>>
    BY <1>0, <1>8 DEF LookupRemote, fsVars, historyVars
  <2> QED
    BY <1>2, <2>1
<1>9. CASE LookupReturns
  BY <1>5, <1>6, <1>9 DEF LookupReturns, fsVars
<1>10. CASE Answered \/ RequestReturns
  BY <1>6, <1>10 DEF Answered, RequestReturns, fsVars
<1>11. CASE Request
  <2>1. client.pc = "found" /\ client'.pc = "asked" /\ UNCHANGED <<heap, call, applied>>
    BY <1>0, <1>11 DEF Request, fsVars, historyVars
  <2> QED
    BY <1>11, <2>1, RequestAsks DEF AddsIInv, EachIsFound
<1>12. ~LooksAtDeleted
  BY ClientFollowsNone
<1>13. CASE HandleReply \/ HandleReturn
  <2>1. stack # <<>> /\ (\E b : Return(b)) /\ UNCHANGED <<heap, call, client, applied>>
    BY <1>13 DEF HandleReply, HandleReturn, ReturnTail, Resumed, Called, fsVars, callVars, historyVars
  <2>2. stack' # <<>> => stack # <<>> /\ stack'[1].arg = stack[1].arg
    BY <2>1, ReturnKeepsFirst
  <2> QED
    BY <1>3, <2>1, <2>2
<1>14. CASE Register \/ UNCHANGED vars
  <2>1. UNCHANGED <<heap, call, client, applied, stack>>
    BY <1>14 DEF Register, vars, msgVars, fsVars, callVars, historyVars
  <2> QED
    BY <1>3, <2>1
<1> QED
  BY <1>4, <1>7, <1>8, <1>9, <1>10, <1>11, <1>12, <1>13, <1>14, MdsStepKeepsAdds DEF Next, Step, ClientStep

\* At first there is the root.
LEMMA InitAdds == Init => AddsIInv
<1> SUFFICES ASSUME Init PROVE AddsIInv
  OBVIOUS
<1>1. client.pc = "idle" /\ heap = NewHeap(NoData)
  BY DEF Init, NotWalking
<1>2. HeapIInv(heap) /\ DOMAIN heap = {Root}
  BY <1>1, InitData DEF NewHeap, DataIInv, TreeIInv, Root
<1>3. PathOf(heap, Root) = RootPath
  BY <1>2, PathOfIs DEF HeapIInv, IsHeap, Root
<1>4. Lookup(heap, RootPath) = Root
  <2>1. Len(RootPath) = 0
    BY EmptySeq DEF RootPath
  <2>2. PICK at : IsWalk(heap, RootPath, at) /\ Lookup(heap, RootPath) = at[0]
    BY <1>2, <2>1, LookupWalks
  <2>3. at[0] = Root
    BY <2>1, <2>2 DEF IsWalk
  <2> QED
    BY <2>2, <2>3
<1> QED
  BY <1>1, <1>2, <1>3, <1>4 DEF AddsIInv, EachIsFound
-----------------------------------------------------------------------------
(***************************************************************************)
(* The theorems.                                                           *)
(***************************************************************************)
\* What was shown to hold of every state, as long as nothing stale is used.
RightIInv == ScanIInv /\ FoundIInv /\ WalkIsCached

LEMMA RightIInvHolds ==
  ASSUME HashIsNat
  PROVE  /\ Init => RightIInv
         /\ RightIInv /\ [Next]_vars /\ [TakesNothingStale]_vars => RightIInv'
<1>1. ASSUME Init PROVE RightIInv
  <2>1. client.pc = "idle"
    BY <1>1 DEF Init, NotWalking
  <2> QED
    BY <1>1, <2>1, ScanIInvHolds, InitFound DEF RightIInv, WalkIsCached
<1>2. ASSUME RightIInv, [Next]_vars, [TakesNothingStale]_vars PROVE RightIInv'
  <2>1. ScanIInv'
    BY <1>2, ScanIInvHolds DEF RightIInv
  <2>2. FoundIInv'
    BY <1>2, NextKeepsFound DEF RightIInv, ScanIInv
  <2>3. WalkIsCached'
    BY <1>2, NextKeepsWalkCached DEF RightIInv, ScanIInv
  <2> QED
    BY <2>1, <2>2, <2>3 DEF RightIInv
<1> QED
  BY <1>1, <1>2

\* As long as the client takes nothing stale from its cache, nobody follows a
\* deleted inode: whoever is about to follow one has that to which its path
\* leads at that moment.
THEOREM NothingIsFollowedDeleted ==
  ASSUME HashIsNat
  PROVE  FreshSpec => []NoUseAfterFree
<1>1. RightIInv => NoUseAfterFree
  BY Zenon DEF RightIInv, FoundIInv, NoUseAfterFree
<1>2. Init => RightIInv
  BY RightIInvHolds
<1>3. RightIInv /\ [Next /\ TakesNothingStale]_vars => RightIInv'
  BY RightIInvHolds
<1> QED
  BY <1>1, <1>2, <1>3, PTL DEF FreshSpec

\* Nobody has two sends in progress then, at any depth of the handlers that
\* wait for one another.
THEOREM EveryoneWaitsOnce ==
  ASSUME HashIsNat
  PROVE  FreshSpec => []NobodyWaitsTwice
<1>1. RightIInv /\ AloneIInv => NobodyWaitsTwice
  BY EachWaitsOnce DEF RightIInv, ScanIInv
<1>2. Init => RightIInv /\ AloneIInv
  BY RightIInvHolds, InitAlone
<1>3. RightIInv /\ AloneIInv /\ [Next /\ TakesNothingStale]_vars => (RightIInv /\ AloneIInv)'
  BY RightIInvHolds, NextKeepsAlone DEF RightIInv, ScanIInv
<1> QED
  BY <1>1, <1>2, <1>3, PTL DEF FreshSpec

\* Whatever MDSs a call goes through -- the one its path belongs to, one that
\* forwards it there, slaves that are asked for their part of a directory --
\* and however it ends, it is one atomic operation on the file system of what
\* its path names, and its result and its output say what it did; if the client
\* knows every MDS and takes nothing stale from its cache.
THEOREM CallsAreAtomic ==
  ASSUME HashIsNat, KnownRanks = Ranks
  PROVE  FreshSpec => Atomic
<1>1. Init => RightIInv /\ OutcomeIInv
  BY RightIInvHolds, InitOutcome
<1>2. RightIInv /\ OutcomeIInv /\ [Next /\ TakesNothingStale]_vars => (RightIInv /\ OutcomeIInv)'
  BY RightIInvHolds, NextKeepsOutcome DEF RightIInv, ScanIInv
<1>3. Init => Service!Init
  BY InitServes
<1>4. RightIInv /\ OutcomeIInv /\ [Next]_vars => [Service!Next]_(Service!vars)
  BY NextServes DEF RightIInv, ScanIInv
<1>5. RightIInv /\ OutcomeIInv /\ [Next /\ TakesNothingStale]_vars => [Service!Next]_(Service!vars)
  BY <1>4
<1> QED
  BY <1>1, <1>2, <1>3, <1>5, PTL DEF FreshSpec, Atomic, Service!Spec

\* A driver that removes nothing and creates no file twice meets nothing stale
\* in the cache, however small it is: every inode is found by its path, and
\* what is cached under a path has that path.
THEOREM GrowthIsNeverStale ==
  ASSUME HashIsNat
  PROVE  Spec /\ OnlyAdds => FreshSpec
<1> DEFINE Adds == \A c \in Calls : Begin(c) => AddsOnly(c)
<1>1. RightIInv /\ AddsIInv => TakesNothingStale
  BY FoundIsCached DEF RightIInv, ScanIInv, PathIInv, AddsIInv, TakesNothingStale
<1>2. Init => RightIInv /\ AddsIInv
  BY RightIInvHolds, InitAdds
<1>3. RightIInv /\ AddsIInv /\ [Next]_vars /\ [Adds]_vars => (RightIInv /\ AddsIInv)'
  BY <1>1, RightIInvHolds, NextKeepsAdds DEF RightIInv, ScanIInv
<1>4. RightIInv /\ AddsIInv /\ [Next]_vars => [Next /\ TakesNothingStale]_vars
  BY <1>1
<1> QED
  BY <1>2, <1>3, <1>4, PTL DEF Spec, OnlyAdds, FreshSpec

\* Nor does any driver if there is no cache.
LEMMA NoCacheIsNeverStale ==
  ASSUME EnableCache = FALSE
  PROVE  Spec => FreshSpec
<1>1. [Next]_vars => [Next /\ TakesNothingStale]_vars
  BY DEF TakesNothingStale
<1> QED
  BY <1>1, PTL DEF Spec, FreshSpec

\* So the calls of a driver that only adds are atomic, with a cache,
THEOREM GrowingCallsAreAtomic ==
  ASSUME HashIsNat, KnownRanks = Ranks
  PROVE  Spec /\ OnlyAdds => Atomic
BY CallsAreAtomic, GrowthIsNeverStale, PTL

\* and without one those of any driver.
THEOREM UncachedCallsAreAtomic ==
  ASSUME HashIsNat, EnableCache = FALSE, KnownRanks = Ranks
  PROVE  Spec => Atomic
BY CallsAreAtomic, NoCacheIsNeverStale, PTL

\* Without a cache no deleted inode is followed and nobody waits twice, whatever
\* MDSs the client knows.
THEOREM UncachedIsSafe ==
  ASSUME HashIsNat, EnableCache = FALSE
  PROVE  Spec => []NoUseAfterFree /\ []NobodyWaitsTwice
BY NothingIsFollowedDeleted, EveryoneWaitsOnce, NoCacheIsNeverStale, PTL
=============================================================================
