-------------------------- MODULE Requests_proofs --------------------------
(***************************************************************************)
(* What holds of every request, whatever the strategy, the hash function    *)
(* and the number of MDSs: reverse ports are owned and given back through   *)
(* every nesting of forwards, slaves and replies, answers reach who asked,  *)
(* everything has its type, MDSs that came late stay idle, a request is     *)
(* forwarded at most once, a call is carried out once, the entries of a     *)
(* directory are charged once, and the cache is coherent while the file     *)
(* system only grows.  And the steps that keep what holds as long as the    *)
(* client's cache is right: no deleted inode is followed, and nobody waits  *)
(* twice.                                                                   *)
(***************************************************************************)
EXTENDS Requests, Messaging_proofs, Inodes_proofs

\* The processes of the handlers are processes.
LEMMA ProcsType == Client \in Procs /\ Ranks \subseteq Procs
BY RequestProcsAssumption

\* A client's sends resume in the empty stack.
LEMMA ClientSendKeepsOwners ==
  ASSUME RevIInv, stack = <<>>, NEW op, NEW fullpath, NEW name, NEW ino, NEW data,
         SendRequest(op, fullpath, name, ino, data)
  PROVE  RevIInv'
<1>1. IsStack(<<>>)
  BY DEF RevIInv
<1>2. KeepsFrames(stack, <<>>)
  BY DEF KeepsFrames
<1> QED
  BY <1>1, <1>2, ProcsType, SendKeepsOwners DEF SendRequest

\* A handler's sends resume in the handler, with other locals or the same.
LEMMA HandlerSendKeepsOwners ==
  ASSUME RevIInv, stack # <<>>, NEW pc, NEW local,
         NEW p \in Procs, NEW e, NEW type, NEW arg,
         \/ Send(TopAt(pc), p, e, type, arg)
         \/ Send(TopWith(pc, local), p, e, type, arg)
  PROVE  RevIInv'
<1>1. /\ IsStack(TopAt(pc)) /\ KeepsFrames(stack, TopAt(pc))
      /\ IsStack(TopWith(pc, local)) /\ KeepsFrames(stack, TopWith(pc, local))
  BY TopKeepsFrames DEF RevIInv
<1> QED
  BY <1>1, SendKeepsOwners

\* The send of the reply to the client is one of the handler's sends.
LEMMA ReplyKeepsOwners ==
  ASSUME RevIInv, stack # <<>>, NEW r \in Ranks, NEW ino, NEW list, NEW data,
         Reply(r, ino, list, data)
  PROVE  RevIInv'
BY ProcsType, HandlerSendKeepsOwners DEF Reply

\* A handler that fails returns and gives up the port of its frame.
LEMMA FailKeepsOwners ==
  ASSUME RevIInv, stack # <<>>, Fail
  PROVE  RevIInv'
BY ReturnKeepsOwners DEF Fail

\* What is undefined has no next step here.
LEMMA UndefinedKeepsOwners ==
  ASSUME RevIInv, Undefined
  PROVE  RevIInv'
BY UnchangedKeepsOwners DEF Undefined, msgVars

\* The client runs only when none of its sends is in progress: its stack
\* frames are those of the send it waits for.
ClientWaits ==
  /\ "pc" \in DOMAIN client
  /\ stack # <<>> => client.pc \in {"looking", "asked"}

\* The inductive invariant.
RequestsIInv == RevIInv /\ ClientWaits

\* A step of the client keeps the owners: its requests start a new stack.
LEMMA ClientStepKeepsOwners ==
  ASSUME RequestsIInv, ClientStep
  PROVE  RevIInv'
<1>1. CASE LookupCached
  BY <1>1, UnchangedKeepsOwners DEF RequestsIInv, LookupCached, msgVars
<1>2. CASE LookupRemote
  BY <1>2, ClientSendKeepsOwners DEF RequestsIInv, ClientWaits, LookupRemote
<1>3. CASE LookupReturns
  BY <1>3, UnchangedKeepsOwners DEF RequestsIInv, LookupReturns, msgVars
<1>4. CASE LooksAtDeleted
  BY <1>4, UndefinedKeepsOwners DEF RequestsIInv, LooksAtDeleted
<1>5. CASE Answered
  BY <1>5, UnchangedKeepsOwners DEF RequestsIInv, Answered, msgVars
<1>6. CASE Request
  BY <1>6, ClientSendKeepsOwners DEF RequestsIInv, ClientWaits, Request
<1>7. CASE RequestReturns
  BY <1>7, UnchangedKeepsOwners DEF RequestsIInv, RequestReturns, msgVars
<1>8. CASE HandleReply
  BY <1>8, ReturnKeepsOwners DEF RequestsIInv, HandleReply, Called
<1> QED
  BY <1>1, <1>2, <1>3, <1>4, <1>5, <1>6, <1>7, <1>8 DEF ClientStep

\* A step of an MDS keeps them: it forwards, replies, asks a slave, answers
\* its master, fails, or goes on in its handler.
LEMMA MdsStepKeepsOwners ==
  ASSUME RequestsIInv, NEW r \in Ranks, MdsStep(r)
  PROVE  RevIInv'
<1>1. CASE Forward(r)
  BY <1>1, ProcsType, HandlerSendKeepsOwners DEF RequestsIInv, Forward, Asked, Called
<1>2. CASE OpLookup(r)
  BY <1>2, ReplyKeepsOwners, FailKeepsOwners DEF RequestsIInv, OpLookup, Executes, Asked, Called
<1>3. CASE OpCreate(r)
  BY <1>3, ReplyKeepsOwners DEF RequestsIInv, OpCreate, Executes, Asked, Called
<1>4. CASE OpMkdir(r)
  BY <1>4, ReplyKeepsOwners, FailKeepsOwners DEF RequestsIInv, OpMkdir, Executes, Asked, Called
<1>5. CASE OpRead(r)
  BY <1>5, ReplyKeepsOwners DEF RequestsIInv, OpRead, Executes, Asked, Called
<1>6. CASE OpWrite(r)
  BY <1>6, ReplyKeepsOwners DEF RequestsIInv, OpWrite, Executes, Asked, Called
<1>7. CASE OpRm(r)
  BY <1>7, ReplyKeepsOwners DEF RequestsIInv, OpRm, Executes, Asked, Called
<1>8. CASE OpScan(r)
  <2>1. stack # <<>>
    BY <1>8 DEF OpScan, ScansDirectory, Executes, Asked, Called
  <2>2. CASE ~heap[Req.ino].isDir
    BY <1>8, <2>1, <2>2, FailKeepsOwners DEF RequestsIInv, OpScan
  <2>3. CASE heap[Req.ino].isDir
    <3>1. PICK local : stack' = TopWith("scan", local)
      BY <1>8, <2>3 DEF OpScan
    <3>2. UNCHANGED proc_revmap
      BY <1>8, <2>3 DEF OpScan
    <3> QED
      BY <2>1, <3>1, <3>2, TopKeepsOwners DEF RequestsIInv
  <2> QED
    BY <2>2, <2>3
<1>9. CASE AskSlave(r)
  <2>1. stack # <<>>
    BY <1>9 DEF AskSlave, Resumed
  <2>2. PICK local, e, arg : Send(TopWith("slave", local), r, e, "SLAVEREQ", arg)
    BY <1>9 DEF AskSlave
  <2> QED
    BY <2>1, <2>2, ProcsType, HandlerSendKeepsOwners DEF RequestsIInv
<1>10. CASE SlaveReturns(r)
  <2>1. stack # <<>>
    BY <1>10 DEF SlaveReturns, Resumed
  <2>2. CASE ~ret
    BY <1>10, <2>1, <2>2, ReturnKeepsOwners DEF RequestsIInv, SlaveReturns
  <2>3. CASE ret
    <3>1. PICK local : stack' = TopWith("scan", local)
      BY <1>10, <2>3 DEF SlaveReturns
    <3>2. UNCHANGED proc_revmap
      BY <1>10, <2>3 DEF SlaveReturns
    <3> QED
      BY <2>1, <3>1, <3>2, TopKeepsOwners DEF RequestsIInv
  <2> QED
    BY <2>2, <2>3
<1>11. CASE EndListdir(r)
  BY <1>11, ReplyKeepsOwners DEF RequestsIInv, EndListdir, ScanDone, Resumed
<1>12. CASE EndRmdir(r)
  BY <1>12, ReplyKeepsOwners DEF RequestsIInv, EndRmdir, ScanDone, Resumed
<1>13. CASE HandleSlaveRequest(r)
  <2>1. stack # <<>>
    BY <1>13 DEF HandleSlaveRequest, SlaveOp, Called
  <2>2. \/ \E b : Return(b)
        \/ \E e, arg : Send(TopAt("tail"), r, e, "SLAVEREPLY", arg)
    BY <1>13 DEF HandleSlaveRequest, SlaveOp
  <2> QED
    BY <2>1, <2>2, ProcsType, ReturnKeepsOwners, HandlerSendKeepsOwners DEF RequestsIInv
<1>14. CASE HandleSlaveReply(r)
  BY <1>14, ReturnKeepsOwners DEF RequestsIInv, HandleSlaveReply, Called
<1>15. CASE FollowsDeleted(r)
  BY <1>15, UndefinedKeepsOwners DEF RequestsIInv, FollowsDeleted
<1> QED
  BY <1>1, <1>2, <1>3, <1>4, <1>5, <1>6, <1>7, <1>8, <1>9, <1>10, <1>11, <1>12, <1>13,
     <1>14, <1>15 DEF MdsStep

\* Every step keeps them.
LEMMA NextKeepsOwners ==
  ASSUME RequestsIInv, [Next]_vars
  PROVE  RevIInv'
<1>1. ASSUME NEW c \in Calls, Begin(c) PROVE RevIInv'
  BY <1>1, UnchangedKeepsOwners DEF RequestsIInv, Begin, msgVars
<1>2. CASE HandleReturn
  BY <1>2, ReturnTailKeepsOwners DEF RequestsIInv, HandleReturn
<1>3. CASE UNCHANGED vars
  BY <1>3, UnchangedKeepsOwners DEF RequestsIInv, vars, msgVars
<1>4. CASE Register
  BY <1>4, UnchangedKeepsOwners DEF RequestsIInv, Register
<1> QED
  BY <1>1, <1>2, <1>3, <1>4, ClientStepKeepsOwners, MdsStepKeepsOwners DEF Next, Step

\* The client moves on only when the send it waits for has returned.
LEMMA NextKeepsClientWaiting ==
  ASSUME RequestsIInv, [Next]_vars
  PROVE  ClientWaits'
<1>1. ASSUME NEW c \in Calls, Begin(c) PROVE ClientWaits'
  BY <1>1 DEF RequestsIInv, ClientWaits, Begin, msgVars
<1>2. CASE LookupRemote \/ Request
  BY <1>2 DEF RequestsIInv, ClientWaits, LookupRemote, Request
<1>3. CASE LookupCached \/ LookupReturns \/ LooksAtDeleted \/ Answered \/ RequestReturns
  <2>1. UNCHANGED stack /\ (UNCHANGED client \/ stack = <<>> \/ client.pc \in {"walk", "found"})
    BY <1>3 DEF LookupCached, LookupReturns, LooksAtDeleted, Answered, RequestReturns,
                Undefined, msgVars, callVars
  <2>2. UNCHANGED client \/ "pc" \in DOMAIN client'
    BY <1>3 DEF LookupCached, LookupReturns, LooksAtDeleted, Answered, RequestReturns,
                Undefined, callVars, Found, Finish, NotWalking
  <2> QED
    BY <2>1, <2>2 DEF RequestsIInv, ClientWaits
<1>4. CASE HandleReply
  BY <1>4 DEF RequestsIInv, ClientWaits, HandleReply, Called, callVars
<1>5. ASSUME NEW r \in Ranks, MdsStep(r) PROVE stack # <<>> /\ UNCHANGED client
  BY <1>5 DEF MdsStep, Forward, OpLookup, OpCreate, OpMkdir, OpRead, OpWrite, OpRm, OpScan,
              AskSlave, SlaveReturns, EndListdir, EndRmdir, HandleSlaveRequest, SlaveOp, HandleSlaveReply,
              FollowsDeleted, Undefined, Reply, Fail, Executes, Asked, ScansDirectory, ScanDone,
              Called, Resumed, callVars
<1>6. CASE HandleReturn
  BY <1>6 DEF RequestsIInv, ClientWaits, HandleReturn, ReturnTail, Resumed, callVars
<1>7. CASE UNCHANGED vars
  BY <1>7 DEF RequestsIInv, ClientWaits, vars, msgVars, callVars
<1>8. CASE Register
  BY <1>8 DEF RequestsIInv, ClientWaits, Register, callVars
<1> QED
  BY <1>1, <1>2, <1>3, <1>4, <1>5, <1>6, <1>7, <1>8 DEF Next, Step, ClientStep, RequestsIInv, ClientWaits

\* The two hold together.
LEMMA NextKeepsIInv == RequestsIInv /\ [Next]_vars => RequestsIInv'
BY NextKeepsOwners, NextKeepsClientWaiting DEF RequestsIInv

\* At first no port is bound and the client sends nothing.
LEMMA InitIInv == Init => RequestsIInv
BY InitOwners DEF Init, MessagingInit, RequestsIInv, ClientWaits, NotWalking

\* A reverse port is bound only to a process of a send that has not returned,
\* and a process has no two: whatever forwards and slaves a request goes
\* through, no answer reaches a process that has not asked.
THEOREM RevPortsHaveOwners == Spec => []RevPortOwners
<1>1. RequestsIInv => RevPortOwners
  BY DEF RequestsIInv, RevIInv
<1> QED
  BY <1>1, InitIInv, NextKeepsIInv, PTL DEF Spec

\* Between two requests every reverse port has been given back.
THEOREM PortsAreReleased == Spec => []PortsReleased
<1>1. RequestsIInv => PortsReleased
  BY OwnersAreReleased DEF RequestsIInv
<1> QED
  BY <1>1, InitIInv, NextKeepsIInv, PTL DEF Spec
-----------------------------------------------------------------------------
(***************************************************************************)
(* What only a registration changes: the services that listen.              *)
(***************************************************************************)

\* The ranks before r on its host, the services started there before it.
Earlier(r) == {q \in Ranks : q < r /\ HostOf[q] = HostOf[r]}

\* They are finitely many, so that a port is a number.
LEMMA EarlierAreFinite ==
  ASSUME NEW r \in Ranks
  PROVE  IsFiniteSet(Earlier(r)) /\ Cardinality(Earlier(r)) \in Nat
<1>1. IsFiniteSet(Ranks)
  BY FS_Interval, MaxRanksAssumption DEF Ranks
<1>2. Earlier(r) \subseteq Ranks
  BY DEF Earlier
<1> QED
  BY <1>1, <1>2, FS_Subset, FS_CardinalityType

\* Of two ranks of a host the later one has the higher port.
LEMMA LaterPortsAreHigher ==
  ASSUME NEW q \in Ranks, NEW r \in Ranks, q < r, HostOf[q] = HostOf[r]
  PROVE  Cardinality(Earlier(q)) < Cardinality(Earlier(r))
<1>1. /\ IsFiniteSet(Earlier(q)) /\ Cardinality(Earlier(q)) \in Nat
      /\ IsFiniteSet(Earlier(r)) /\ Cardinality(Earlier(r)) \in Nat
  BY EarlierAreFinite
<1>2. q \notin Earlier(q) /\ Earlier(q) \cup {q} \subseteq Earlier(r)
  BY MaxRanksAssumption DEF Earlier, Ranks
<1>3. /\ IsFiniteSet(Earlier(q) \cup {q})
      /\ Cardinality(Earlier(q) \cup {q}) = Cardinality(Earlier(q)) + 1
  BY <1>1, <1>2, FS_AddElement
<1>4. Cardinality(Earlier(q) \cup {q}) <= Cardinality(Earlier(r))
  BY <1>1, <1>2, FS_Subset
<1> QED
  BY <1>1, <1>3, <1>4

\* No two MDSs listen at one address.
LEMMA EntitiesDiffer ==
  ASSUME NEW q \in Ranks, NEW r \in Ranks, MdsEntity(q) = MdsEntity(r)
  PROVE  q = r
<1>1. /\ MdsEntity(q).host = HostOf[q] /\ MdsEntity(q).port = Cardinality(Earlier(q))
      /\ MdsEntity(r).host = HostOf[r] /\ MdsEntity(r).port = Cardinality(Earlier(r))
  BY DEF MdsEntity, Entity, Earlier
<1>2. HostOf[q] = HostOf[r] /\ Cardinality(Earlier(q)) = Cardinality(Earlier(r))
  BY <1>1
<1>3. Cardinality(Earlier(q)) \in Nat
  BY EarlierAreFinite
<1>4. q < r \/ q = r \/ r < q
  BY MaxRanksAssumption DEF Ranks
<1> QED
  BY <1>2, <1>3, <1>4, LaterPortsAreHigher

\* An MDS listens at its address from when it registers, and nobody else does.
ServicesIInv ==
  /\ size \in InitialSize .. MaxRanks
  /\ service_map = [h \in Hosts |-> service_map[h]]
  /\ \A h \in Hosts :
       /\ service_map[h] = [p \in DOMAIN service_map[h] |-> service_map[h][p]]
       /\ \A p \in DOMAIN service_map[h] : \E r \in Active : MdsEntity(r) = Entity(h, p)
  /\ \A r \in Active :
       /\ MdsEntity(r).port \in DOMAIN service_map[MdsEntity(r).host]
       /\ service_map[MdsEntity(r).host][MdsEntity(r).port] = r

\* The ranks given out are ranks, and their hosts are hosts.
LEMMA ActiveRanks ==
  ASSUME size \in InitialSize .. MaxRanks
  PROVE  /\ Active \subseteq Ranks /\ 0 \in Active /\ size \in Nat \ {0}
         /\ \A r \in Ranks : MdsEntity(r).host \in Hosts /\ MdsEntity(r).host = HostOf[r]
                             /\ MdsEntity(r) = Entity(MdsEntity(r).host, MdsEntity(r).port)
<1>1. InitialSize \in Nat \ {0} /\ MaxRanks \in Nat \ {0}
  BY MaxRanksAssumption, InitialSizeAssumption
<1>2. Active \subseteq Ranks /\ 0 \in Active /\ size \in Nat \ {0}
  BY <1>1 DEF Active, Ranks
<1>3. \A r \in Ranks : HostOf[r] \in Hosts
  BY ProcsType, HostsAssumption
<1> QED
  BY <1>2, <1>3 DEF MdsEntity, Entity

\* At first these are the MDSs the cluster was formed with.
LEMMA InitServices == Init => ServicesIInv
<1> SUFFICES ASSUME Init PROVE ServicesIInv
  OBVIOUS
<1>1. size \in InitialSize .. MaxRanks
  BY InitialSizeAssumption, MaxRanksAssumption DEF Init
<1>2. Active \subseteq Ranks /\ \A r \in Ranks : MdsEntity(r).host \in Hosts /\ MdsEntity(r).host = HostOf[r]
      /\ MdsEntity(r) = Entity(MdsEntity(r).host, MdsEntity(r).port)
  BY <1>1, ActiveRanks
<1>3. service_map = [h \in Hosts |->
         [p \in {MdsEntity(r).port : r \in {q \in Active : HostOf[q] = h}} |->
            CHOOSE r \in Active : MdsEntity(r) = Entity(h, p)]]
  BY DEF Init
<1>4. ASSUME NEW h \in Hosts
      PROVE  /\ DOMAIN service_map[h] = {MdsEntity(r).port : r \in {q \in Active : HostOf[q] = h}}
             /\ \A p \in DOMAIN service_map[h] :
                  service_map[h][p] = CHOOSE r \in Active : MdsEntity(r) = Entity(h, p)
             /\ service_map[h] = [p \in DOMAIN service_map[h] |-> service_map[h][p]]
  BY <1>3
<1>5. ASSUME NEW h \in Hosts, NEW p \in DOMAIN service_map[h]
      PROVE  \E r \in Active : MdsEntity(r) = Entity(h, p)
  <2>1. p \in {MdsEntity(r).port : r \in {q \in Active : HostOf[q] = h}}
    BY <1>4
  <2>2. PICK r \in Active : HostOf[r] = h /\ p = MdsEntity(r).port
    BY <2>1
  <2>3. MdsEntity(r) = Entity(h, p)
    BY <1>2, <2>2
  <2> QED
    BY <2>3
<1>6. ASSUME NEW r \in Active
      PROVE  /\ MdsEntity(r).port \in DOMAIN service_map[MdsEntity(r).host]
             /\ service_map[MdsEntity(r).host][MdsEntity(r).port] = r
  <2> DEFINE h == MdsEntity(r).host
             p == MdsEntity(r).port
  <2>1. h \in Hosts /\ HostOf[r] = h /\ r \in Ranks /\ MdsEntity(r) = Entity(h, p)
    BY <1>2
  <2>2. p \in DOMAIN service_map[h]
    <3>1. p \in {MdsEntity(q).port : q \in {q \in Active : HostOf[q] = h}}
      BY <2>1
    <3> QED
      BY <1>4, <2>1, <3>1
  <2>3. service_map[h][p] = CHOOSE q \in Active : MdsEntity(q) = Entity(h, p)
    BY <1>4, <2>1, <2>2
  <2>4. \A q \in Active : MdsEntity(q) = Entity(h, p) => q = r
    BY <1>2, <2>1, EntitiesDiffer
  <2> HIDE DEF h, p
  <2>5. service_map[h][p] = r
    BY <2>1, <2>3, <2>4
  <2> QED
    BY <2>2, <2>5 DEF h, p
<1> QED
  BY <1>1, <1>3, <1>4, <1>5, <1>6 DEF ServicesIInv

\* The invariant of the next state: an address is no state.
LEMMA NextServices ==
  ServicesIInv' <=>
    /\ size' \in InitialSize .. MaxRanks
    /\ service_map' = [h \in Hosts |-> service_map'[h]]
    /\ \A h \in Hosts :
         /\ service_map'[h] = [p \in DOMAIN service_map'[h] |-> service_map'[h][p]]
         /\ \A p \in DOMAIN service_map'[h] : \E r \in Active' : MdsEntity(r) = Entity(h, p)
    /\ \A r \in Active' :
         /\ MdsEntity(r).port \in DOMAIN service_map'[MdsEntity(r).host]
         /\ service_map'[MdsEntity(r).host][MdsEntity(r).port] = r
BY DEF ServicesIInv, MdsEntity, Entity

\* The next MDS gets the next rank and listens at an address of its own.
LEMMA RegisterKeepsServices ==
  ASSUME ServicesIInv, Register
  PROVE  ServicesIInv'
<1> DEFINE e == MdsEntity(size)
<1>1. /\ size \in InitialSize .. MaxRanks /\ size < MaxRanks /\ size' = size + 1
      /\ service_map' = [service_map EXCEPT ![e.host] = Bind(@, e.port, size)]
  BY DEF ServicesIInv, Register
<1>2. /\ size \in Ranks /\ Active \subseteq Ranks /\ size \notin Active
      /\ Active' = Active \cup {size} /\ size' \in InitialSize .. MaxRanks
  BY <1>1, ActiveRanks, InitialSizeAssumption, MaxRanksAssumption DEF Active, Ranks
<1>3. \A r \in Ranks : MdsEntity(r).host \in Hosts /\ MdsEntity(r).host = HostOf[r]
                        /\ MdsEntity(r) = Entity(MdsEntity(r).host, MdsEntity(r).port)
  BY <1>1, ActiveRanks
<1>4. e.host \in Hosts /\ e = Entity(e.host, e.port)
  BY <1>2, <1>3
<1>5. e.port \notin DOMAIN service_map[e.host]
  <2> SUFFICES ASSUME e.port \in DOMAIN service_map[e.host] PROVE FALSE
    OBVIOUS
  <2>1. PICK r \in Active : MdsEntity(r) = Entity(e.host, e.port)
    BY <1>4 DEF ServicesIInv
  <2>2. r = size
    BY <1>2, <1>4, <2>1, EntitiesDiffer
  <2> QED
    BY <1>2, <2>2
<1>6. service_map' = [h \in Hosts |-> IF h = e.host THEN Bind(service_map[h], e.port, size)
                                      ELSE service_map[h]]
  BY <1>1 DEF ServicesIInv
<1> HIDE DEF e
<1>7. ASSUME NEW h \in Hosts
      PROVE  /\ service_map'[h] = [p \in DOMAIN service_map'[h] |-> service_map'[h][p]]
             /\ \A p \in DOMAIN service_map[h] : p \in DOMAIN service_map'[h]
                                                  /\ service_map'[h][p] = service_map[h][p]
             /\ \A p \in DOMAIN service_map'[h] :
                  p \in DOMAIN service_map[h] \/ (h = e.host /\ p = e.port)
             /\ h = e.host => e.port \in DOMAIN service_map'[h] /\ service_map'[h][e.port] = size
  <2>1. CASE h # e.host
    BY <1>6, <2>1 DEF ServicesIInv
  <2>2. CASE h = e.host
    BY <1>5, <1>6, <2>2 DEF Bind
  <2> QED
    BY <2>1, <2>2
<1>8. ASSUME NEW h \in Hosts, NEW p \in DOMAIN service_map'[h]
      PROVE  \E r \in Active' : MdsEntity(r) = Entity(h, p)
  <2>1. CASE p \in DOMAIN service_map[h]
    BY <1>2, <2>1 DEF ServicesIInv
  <2>2. CASE h = e.host /\ p = e.port
    BY <1>2, <1>4, <2>2 DEF e
  <2> QED
    BY <1>7, <2>1, <2>2
<1>9. ASSUME NEW r \in Active'
      PROVE  /\ MdsEntity(r).port \in DOMAIN service_map'[MdsEntity(r).host]
             /\ service_map'[MdsEntity(r).host][MdsEntity(r).port] = r
  <2>1. CASE r \in Active
    <3>1. /\ MdsEntity(r).port \in DOMAIN service_map[MdsEntity(r).host]
          /\ service_map[MdsEntity(r).host][MdsEntity(r).port] = r
      BY <2>1 DEF ServicesIInv
    <3>2. MdsEntity(r).host \in Hosts
      BY <1>2, <1>3, <2>1
    <3> HIDE DEF ServicesIInv
    <3> QED
      BY <1>7, <3>1, <3>2
  <2>2. CASE r = size
    BY <1>4, <1>7, <2>2 DEF e
  <2> QED
    BY <1>2, <2>1, <2>2
<1>10. service_map' = [h \in Hosts |-> service_map'[h]]
  BY <1>6
<1> QED
  BY <1>2, <1>7, <1>8, <1>9, <1>10, NextServices

\* Nothing else touches the services or the dispatchers' tables.
LEMMA OthersKeepServices ==
  ASSUME [Next]_vars
  PROVE  Register \/ UNCHANGED <<service_map, size>>
<1>1. ASSUME NEW c \in Calls, Begin(c) PROVE UNCHANGED <<service_map, size>>
  BY <1>1 DEF Begin, msgVars, fsVars
<1>2. ASSUME ClientStep PROVE UNCHANGED <<service_map, size>>
  BY <1>2 DEF ClientStep, LookupCached, LookupRemote, LookupReturns, LooksAtDeleted, Answered,
              Request, RequestReturns, HandleReply, SendRequest, Undefined, msgVars, fsVars
<1>3. ASSUME NEW r \in Ranks, MdsStep(r) PROVE UNCHANGED <<service_map, size>>
  BY <1>3 DEF MdsStep, Forward, OpLookup, OpCreate, OpMkdir, OpRead, OpWrite, OpRm, OpScan,
              AskSlave, SlaveReturns, EndListdir, EndRmdir, HandleSlaveRequest, SlaveOp, HandleSlaveReply,
              FollowsDeleted, Undefined, Reply, Fail, Mutate, msgVars, fsVars
<1>4. ASSUME HandleReturn PROVE UNCHANGED <<service_map, size>>
  BY <1>4 DEF HandleReturn, ReturnTail, fsVars
<1>5. ASSUME UNCHANGED vars PROVE UNCHANGED <<service_map, size>>
  BY <1>5 DEF vars, msgVars, fsVars
<1> QED
  BY <1>1, <1>2, <1>3, <1>4, <1>5 DEF Next, Step

\* So an MDS that listens goes on listening.
LEMMA NextKeepsServices == ServicesIInv /\ [Next]_vars => ServicesIInv'
<1>1. ASSUME ServicesIInv, UNCHANGED <<service_map, size>>
      PROVE  ServicesIInv'
  <2>1. Active' = Active
    BY <1>1 DEF Active
  <2> QED
    BY <1>1, <2>1, NextServices DEF ServicesIInv
<1> QED
  BY <1>1, OthersKeepServices, RegisterKeepsServices

\* A message to the address of an MDS that has registered comes to it; the
\* reverse ports lie above all services.
LEMMA ServicesLead ==
  ASSUME ServicesIInv
  PROVE  /\ \A rev : \A r \in Active : Dispatch(service_map, rev, MdsEntity(r)) = r
         /\ \A h \in Hosts : \A p \in DOMAIN service_map[h] : p < RevBase
<1>1. Active \subseteq Ranks
  BY ActiveRanks DEF ServicesIInv
<1>2. \A r \in Active : MdsEntity(r).port < RevBase
  BY <1>1, ServicePortsAssumption
<1>3. \A h \in Hosts : \A p \in DOMAIN service_map[h] : p < RevBase
  BY <1>2 DEF ServicesIInv, Entity
<1> QED
  BY <1>3 DEF ServicesIInv, Dispatch
-----------------------------------------------------------------------------
(***************************************************************************)
(* The shape of the stack: at the bottom the client's request, above it     *)
(* what the MDSs send each other; only the handler at the top runs.         *)
(***************************************************************************)

Fields == {"type", "by", "src", "to", "arg", "pc", "local"}

\* A frame waits at an address, and is at a point its handler has.
FrameType(f) ==
  /\ Fields \subseteq DOMAIN f
  /\ f.src = Entity(f.src.host, f.src.port)
  /\ f.pc \in {"call", "tail", "scan", "slave"}
  /\ f.pc \in {"scan", "slave"} => f.type \in {"CLIENTREQ", "FORWARD"}

\* The client waits in the frame below all others, and what is forwarded
\* carries the address it waits at.
FrameShape(s, k) ==
  /\ FrameType(s[k])
  /\ k < Len(s) => s[k].pc \in {"tail", "slave"}
  /\ IF k = 1 THEN s[k].type = "CLIENTREQ" /\ s[k].by = Client
     ELSE /\ s[k].type \in {"FORWARD", "REPLY", "SLAVEREQ", "SLAVEREPLY"}
          /\ s[k].by \in Ranks
          /\ s[k].src # s[1].src
  /\ s[k].type = "FORWARD" => s[k].arg.src = s[1].src

\* The port that frame f waits at is bound to the process that has sent it.
BoundIn(rev, f) ==
  /\ f.src.host = HostOf[f.by] /\ f.src.port \in RevPorts
  /\ f.src.port \in DOMAIN rev[f.src.host]
  /\ rev[f.src.host][f.src.port] = f.by

ShapeIInv ==
  /\ \A k \in DOMAIN stack : FrameShape(stack, k)
  /\ stack # <<>> => BoundIn(proc_revmap, stack[1])
  /\ stack # <<>> /\ Top.type = "SLAVEREQ" /\ Top.pc = "call" => BoundIn(proc_revmap, Top)

AskerIInv == RequestsIInv /\ ServicesIInv /\ ShapeIInv

\* A handler that returns leaves the frames below it as they are, and the
\* client's port bound, unless it has returned to the client.
LEMMA ReturnKeepsShape ==
  ASSUME RevIInv, ShapeIInv, stack # <<>>, NEW b, Return(b)
  PROVE  ShapeIInv'
<1> DEFINE n == Len(stack)
<1>1. /\ n \in Nat \ {0} /\ DOMAIN stack = 1 .. n
      /\ IsStack(Below) /\ DOMAIN Below = 1 .. n - 1
      /\ \A k \in 1 .. n - 1 : Below[k] = stack[k]
  BY BelowFrames DEF RevIInv
<1>2. stack' = Below /\ Top = stack[n]
  BY DEF Return, Top
<1>3. Len(stack') = n - 1
  <2>1. Len(Below) \in Nat /\ DOMAIN Below = 1 .. Len(Below)
    BY <1>1, StackIsSeq
  <2>2. n - 1 \in Nat
    BY <1>1
  <2> QED
    BY <1>1, <1>2, <2>1, <2>2, IntervalLength
<1> HIDE DEF n
<1>4. ASSUME NEW k \in DOMAIN stack'
      PROVE  FrameShape(stack', k) /\ stack'[k].pc \in {"tail", "slave"}
  <2>1. k \in 1 .. n - 1 /\ k \in DOMAIN stack /\ 1 \in 1 .. n - 1 /\ k < n
    BY <1>1, <1>2
  <2>2. stack'[k] = stack[k] /\ stack'[1] = stack[1]
    BY <1>1, <1>2, <2>1
  <2>3. FrameShape(stack, k) /\ Len(stack) = n
    BY <2>1 DEF ShapeIInv, n
  <2> QED
    BY <2>1, <2>2, <2>3 DEF FrameShape
<1>5. ASSUME stack' # <<>>
      PROVE  /\ BoundIn(proc_revmap', stack'[1])
             /\ ~(Top.pc = "call")'
  <2>1. 1 \in 1 .. n - 1 /\ n - 1 \in 1 .. n - 1 /\ 1 \in DOMAIN stack /\ n \in DOMAIN stack /\ n # 1
    <3>1. stack' \in Seq({stack'[k] : k \in DOMAIN stack'})
      BY <1>1, <1>2 DEF IsStack
    <3>2. Len(stack') # 0
      BY <1>5, <3>1, EmptySeq
    <3> QED
      BY <1>1, <1>3, <3>2
  <2>2. stack'[1] = stack[1]
    BY <1>1, <1>2, <2>1
  <2>3. BoundIn(proc_revmap, stack[1]) /\ FrameShape(stack, 1) /\ FrameShape(stack, n)
    BY <2>1 DEF ShapeIInv
  <2> DEFINE h == stack[1].src.host
             i == stack[1].src.port
  <2>4. ~(h = Top.src.host /\ i = Top.src.port)
    BY <1>2, <2>1, <2>3 DEF FrameShape, FrameType
  <2>5. h \in Hosts /\ i \in DOMAIN proc_revmap[h]
    BY <2>3, ProcsType, HostsAssumption DEF BoundIn, FrameShape
  <2>6. i \in DOMAIN proc_revmap'[h] /\ proc_revmap'[h][i] = proc_revmap[h][i]
    BY <2>4, <2>5, ReturnKeepsBound
  <2>7. BoundIn(proc_revmap', stack'[1])
    BY <2>2, <2>3, <2>6 DEF BoundIn
  <2>8. stack'[Len(stack')].pc \in {"tail", "slave"}
    BY <1>1, <1>2, <1>3, <1>4, <2>1
  <2> QED
    BY <2>7, <2>8 DEF Top
<1> QED
  BY <1>4, <1>5 DEF ShapeIInv

\* What a handler moves on to: the frames below it, and its own.
LEMMA TopMoves ==
  ASSUME RevIInv, ShapeIInv, stack # <<>>, NEW pc, NEW local
  PROVE  /\ TopReplaced(TopAt(pc), [Top EXCEPT !.pc = pc])
         /\ TopReplaced(TopWith(pc, local), [Top EXCEPT !.pc = pc, !.local = local])
<1>1. Len(stack) \in DOMAIN stack
  BY BelowFrames DEF RevIInv
<1>2. IsFrame(Top)
  BY <1>1 DEF RevIInv, IsStack, Top
<1>3. IsFrame([Top EXCEPT !.pc = pc]) /\ IsFrame([Top EXCEPT !.pc = pc, !.local = local])
  BY <1>2 DEF IsFrame
<1> QED
  BY <1>3, TopReplacedFrames DEF TopAt, TopWith, RevIInv

\* Frame f is the top frame, moved on.
Moved(f, pc) ==
  /\ Fields \subseteq DOMAIN f
  /\ f.type = Top.type /\ f.by = Top.by /\ f.src = Top.src /\ f.to = Top.to /\ f.arg = Top.arg
  /\ f.pc = pc

\* The two ways to move on are that.
LEMMA TopIsMoved ==
  ASSUME RevIInv, ShapeIInv, stack # <<>>, NEW pc, NEW local
  PROVE  /\ Moved([Top EXCEPT !.pc = pc], pc) /\ [Top EXCEPT !.pc = pc].local = Top.local
         /\ Moved([Top EXCEPT !.pc = pc, !.local = local], pc)
         /\ [Top EXCEPT !.pc = pc, !.local = local].local = local
<1>1. Len(stack) \in DOMAIN stack
  BY BelowFrames DEF RevIInv
<1>2. Fields \subseteq DOMAIN Top
  BY <1>1 DEF ShapeIInv, FrameShape, FrameType, Top
<1> QED
  BY <1>2 DEF Moved, Fields

\* It keeps the shape of the stack s it is on top of.
LEMMA MovedKeepsShape ==
  ASSUME RevIInv, ShapeIInv, stack # <<>>, NEW pc \in {"tail", "scan", "slave"},
         pc \in {"scan", "slave"} => Top.type \in {"CLIENTREQ", "FORWARD"},
         NEW f, Moved(f, pc), NEW s, TopReplaced(s, f)
  PROVE  /\ \A k \in DOMAIN s : FrameShape(s, k)
         /\ s[1].src = stack[1].src /\ s[1].by = stack[1].by
<1> DEFINE n == Len(stack)
<1>1. /\ n \in Nat \ {0} /\ DOMAIN stack = 1 .. n /\ DOMAIN s = 1 .. n /\ Len(s) = n
      /\ \A k \in 1 .. n - 1 : s[k] = stack[k]
      /\ s[n] = f /\ Top = stack[n]
  BY DEF TopReplaced, Top
<1> HIDE DEF n
<1>2. s[1].src = stack[1].src /\ s[1].by = stack[1].by
  BY <1>1 DEF Moved
<1>3. ASSUME NEW k \in DOMAIN s
      PROVE  FrameShape(s, k)
  <2>1. FrameShape(stack, k) /\ Len(stack) = n
    BY <1>1 DEF ShapeIInv, n
  <2>2. CASE k < n
    BY <1>1, <1>2, <2>1, <2>2 DEF FrameShape
  <2>3. CASE k = n
    <3>1. FrameType(s[k])
      BY <1>1, <2>1, <2>3 DEF FrameShape, FrameType, Moved
    <3> QED
      BY <1>1, <1>2, <2>1, <2>3, <3>1 DEF FrameShape, Moved
  <2> QED
    BY <1>1, <2>2, <2>3
<1> QED
  BY <1>2, <1>3

\* A handler that moves on without a send.
LEMMA MoveKeepsShape ==
  ASSUME RevIInv, ShapeIInv, stack # <<>>, NEW local, NEW pc \in {"scan"},
         Top.type \in {"CLIENTREQ", "FORWARD"},
         stack' = TopWith(pc, local), UNCHANGED proc_revmap
  PROVE  ShapeIInv'
<1> DEFINE f == [Top EXCEPT !.pc = pc, !.local = local]
<1>1. Moved(f, pc) /\ TopReplaced(stack', f)
  BY TopMoves, TopIsMoved
<1> HIDE DEF f
<1>2. /\ \A k \in DOMAIN stack' : FrameShape(stack', k)
      /\ stack'[1].src = stack[1].src /\ stack'[1].by = stack[1].by
  BY <1>1, MovedKeepsShape
<1>3. Top'.pc = "scan"
  BY <1>1 DEF TopReplaced, Moved, Top
<1>4. BoundIn(proc_revmap', stack'[1])
  BY <1>2 DEF ShapeIInv, BoundIn
<1> QED
  BY <1>2, <1>3, <1>4 DEF ShapeIInv

\* What a send of p from the handler at the top leaves: that handler moved on,
\* or a new frame on top of it that waits for p.
Nested(p, e, type, arg, pc, local) ==
  /\ Len(stack') = Len(stack) + 1 /\ DOMAIN stack' = 1 .. Len(stack) + 1
  /\ \A k \in 1 .. Len(stack) - 1 : stack'[k] = stack[k]
  /\ Moved(stack'[Len(stack)], pc) /\ stack'[Len(stack)].local = local
  /\ Fields \subseteq DOMAIN stack'[Len(stack) + 1]
  /\ stack'[Len(stack) + 1].type = type /\ stack'[Len(stack) + 1].arg = arg
  /\ stack'[Len(stack) + 1].by = p /\ stack'[Len(stack) + 1].pc = "call"
  /\ Waits(p, e, stack'[Len(stack) + 1])

\* The two ends of a handler's send.
LEMMA HandlerSends ==
  ASSUME RevIInv, ShapeIInv, stack # <<>>, NEW pc, NEW local,
         NEW p \in Procs, NEW e, NEW type, NEW arg,
         \/ Send(TopAt(pc), p, e, type, arg) /\ local = Top.local
         \/ Send(TopWith(pc, local), p, e, type, arg)
  PROVE  /\ KeepsBound(p)
         /\ \/ /\ ret' = FALSE
               /\ \E f : TopReplaced(stack', f) /\ Moved(f, pc) /\ f.local = local
            \/ Nested(p, e, type, arg, pc, local)
<1>1. PICK caller, f : /\ TopReplaced(caller, f) /\ Moved(f, pc) /\ f.local = local
                       /\ Send(caller, p, e, type, arg)
  BY TopMoves, TopIsMoved
<1>2. IsStack(caller) /\ Len(caller) = Len(stack) /\ Len(stack) \in Nat
  BY <1>1 DEF TopReplaced
<1>3. /\ KeepsBound(p)
      /\ \/ stack' = caller /\ ret' = FALSE
         \/ Pushes(caller, p, e, type, arg) /\ Waits(p, e, stack'[Len(caller) + 1])
  BY <1>1, <1>2, SendWaits
<1>4. ASSUME Pushes(caller, p, e, type, arg), Waits(p, e, stack'[Len(caller) + 1])
      PROVE  Nested(p, e, type, arg, pc, local)
  <2> DEFINE n == Len(stack)
  <2>1. /\ n \in Nat \ {0} /\ caller[n] = f /\ \A k \in 1 .. n - 1 : caller[k] = stack[k]
    BY <1>1 DEF TopReplaced
  <2>2. /\ Len(stack') = n + 1 /\ DOMAIN stack' = 1 .. n + 1
        /\ \A k \in 1 .. n : stack'[k] = caller[k]
        /\ Sent(p, e, type, arg, stack'[n + 1]) /\ Waits(p, e, stack'[n + 1])
    BY <1>2, <1>4 DEF Pushes
  <2> HIDE DEF n
  <2>3. stack'[n] = f /\ \A k \in 1 .. n - 1 : stack'[k] = stack[k]
    BY <2>1, <2>2
  <2>4. /\ Fields \subseteq DOMAIN stack'[n + 1]
        /\ stack'[n + 1].type = type /\ stack'[n + 1].arg = arg
        /\ stack'[n + 1].by = p /\ stack'[n + 1].pc = "call"
    BY <2>2 DEF Sent, Fields
  <2>5. Moved(stack'[n], pc) /\ stack'[n].local = local
    BY <1>1, <2>3
  <2> QED
    BY <2>2, <2>3, <2>4, <2>5 DEF Nested, n
<1>5. CASE stack' = caller /\ ret' = FALSE
  BY <1>1, <1>3, <1>5
<1> QED
  BY <1>3, <1>4, <1>5

\* An MDS's send keeps the shape.
LEMMA HandlerSendKeepsShape ==
  ASSUME RevIInv, ShapeIInv, stack # <<>>, NEW pc \in {"tail", "slave"}, NEW local,
         pc = "slave" => Top.type \in {"CLIENTREQ", "FORWARD"},
         NEW p \in Ranks, NEW e, NEW arg,
         NEW type \in {"FORWARD", "REPLY", "SLAVEREQ", "SLAVEREPLY"},
         type = "FORWARD" => arg.src = stack[1].src,
         \/ Send(TopAt(pc), p, e, type, arg)
         \/ Send(TopWith(pc, local), p, e, type, arg)
  PROVE  ShapeIInv'
<1>1. PICK l : \/ Send(TopAt(pc), p, e, type, arg) /\ l = Top.local
               \/ Send(TopWith(pc, l), p, e, type, arg)
  OBVIOUS
<1>2. p \in Procs /\ p # Client
  BY RequestProcsAssumption
<1>3. /\ KeepsBound(p)
      /\ \/ \E f : TopReplaced(stack', f) /\ Moved(f, pc)
         \/ Nested(p, e, type, arg, pc, l)
  BY <1>1, <1>2, HandlerSends, Zenon
<1> DEFINE n == Len(stack)
<1>4. n \in Nat \ {0} /\ DOMAIN stack = 1 .. n /\ Top = stack[n] /\ 1 \in DOMAIN stack
  BY BelowFrames DEF RevIInv, Top
<1>5. BoundIn(proc_revmap, stack[1]) /\ stack[1].by = Client
  BY <1>4 DEF ShapeIInv, FrameShape
<1>6. ASSUME NEW f, f.src = stack[1].src, f.by = stack[1].by
      PROVE  BoundIn(proc_revmap', f)
  BY <1>2, <1>3, <1>5, <1>6, ProcsType, HostsAssumption DEF BoundIn, KeepsBound
<1>7. ASSUME NEW f, TopReplaced(stack', f), Moved(f, pc)
      PROVE  ShapeIInv'
  <2>1. /\ \A k \in DOMAIN stack' : FrameShape(stack', k)
        /\ stack'[1].src = stack[1].src /\ stack'[1].by = stack[1].by
    BY <1>7, MovedKeepsShape
  <2>2. Top'.pc = pc
    BY <1>7 DEF TopReplaced, Moved, Top
  <2>3. BoundIn(proc_revmap', stack'[1])
    BY <1>6, <2>1
  <2> QED
    BY <2>1, <2>2, <2>3 DEF ShapeIInv
<1>8. ASSUME Nested(p, e, type, arg, pc, l)
      PROVE  ShapeIInv'
  <2>1. /\ Len(stack') = n + 1 /\ DOMAIN stack' = 1 .. n + 1
        /\ \A k \in 1 .. n - 1 : stack'[k] = stack[k]
        /\ Moved(stack'[n], pc)
    BY <1>8 DEF Nested
  <2>2. /\ Fields \subseteq DOMAIN stack'[n + 1]
        /\ stack'[n + 1].type = type /\ stack'[n + 1].arg = arg
        /\ stack'[n + 1].by = p /\ stack'[n + 1].pc = "call"
        /\ Waits(p, e, stack'[n + 1])
    BY <1>8 DEF Nested
  <2> HIDE DEF n
  <2>3. stack'[1].src = stack[1].src /\ stack'[1].by = stack[1].by
    BY <1>4, <2>1 DEF Moved
  <2>4. BoundIn(proc_revmap', stack'[1]) /\ stack'[1].by = Client
    BY <1>5, <1>6, <2>3
  <2>5. BoundIn(proc_revmap', stack'[n + 1]) /\ stack'[n + 1].src = Entity(stack'[n + 1].src.host, stack'[n + 1].src.port)
    BY <2>2 DEF Waits, BoundIn, Entity
  <2>6. stack'[n + 1].src # stack'[1].src
    BY <1>2, <2>2, <2>4, <2>5 DEF BoundIn
  <2>7. FrameShape(stack', n + 1)
    <3>1. FrameType(stack'[n + 1])
      BY <2>2, <2>5 DEF FrameType
    <3>2. n + 1 # 1 /\ ~(n + 1 < n + 1)
      BY <1>4
    <3>3. type = "FORWARD" => arg.src = stack'[1].src
      BY <2>3
    <3> QED
      BY <2>1, <2>2, <2>6, <3>1, <3>2, <3>3 DEF FrameShape
  <2>8. ASSUME NEW k \in 1 .. n
        PROVE  FrameShape(stack', k)
    <3>1. FrameShape(stack, k) /\ Len(stack) = n
      BY <1>4 DEF ShapeIInv, n
    <3>2. CASE k < n
      BY <1>4, <2>1, <2>3, <3>1, <3>2 DEF FrameShape
    <3>3. CASE k = n
      <4>1. FrameType(stack'[k])
        BY <1>4, <2>1, <3>1, <3>3 DEF FrameShape, FrameType, Moved
      <4> QED
        BY <1>4, <2>1, <2>3, <3>1, <3>3, <4>1 DEF FrameShape, Moved
    <3> QED
      BY <1>4, <3>2, <3>3
  <2>9. \A k \in DOMAIN stack' : FrameShape(stack', k)
    BY <1>4, <2>1, <2>7, <2>8
  <2>10. Top' = stack'[n + 1]
    BY <2>1 DEF Top
  <2> QED
    BY <2>4, <2>5, <2>9, <2>10 DEF ShapeIInv
<1> QED
  BY <1>3, <1>7, <1>8

\* The client's send is the first frame.
LEMMA ClientSendKeepsShape ==
  ASSUME RevIInv, ShapeIInv, stack = <<>>, NEW op, NEW fullpath, NEW name, NEW ino, NEW data,
         SendRequest(op, fullpath, name, ino, data)
  PROVE  ShapeIInv'
<1> DEFINE arg == MClientRequest(op, fullpath, name, ino, data)
<1>1. Send(<<>>, Client, Target(fullpath), "CLIENTREQ", arg)
  BY DEF SendRequest
<1>2. IsStack(<<>>) /\ Client \in Procs
  BY ProcsType DEF RevIInv
<1> HIDE DEF arg
<1>3. \/ stack' = <<>>
      \/ /\ Pushes(<<>>, Client, Target(fullpath), "CLIENTREQ", arg)
         /\ Waits(Client, Target(fullpath), stack'[Len(<<>>) + 1])
  BY <1>1, <1>2, SendWaits, Zenon
<1>4. CASE stack' = <<>>
  BY <1>4 DEF ShapeIInv
<1>5. CASE /\ Pushes(<<>>, Client, Target(fullpath), "CLIENTREQ", arg)
           /\ Waits(Client, Target(fullpath), stack'[Len(<<>>) + 1])
  <2>1. Len(<<>>) = 0
    BY EmptySeq
  <2>2. /\ Len(stack') = 1 /\ DOMAIN stack' = 1 .. 1
        /\ Sent(Client, Target(fullpath), "CLIENTREQ", arg, stack'[1])
        /\ Waits(Client, Target(fullpath), stack'[1])
    BY <1>5, <2>1 DEF Pushes
  <2>3. /\ Fields \subseteq DOMAIN stack'[1]
        /\ stack'[1].type = "CLIENTREQ" /\ stack'[1].by = Client /\ stack'[1].pc = "call"
    BY <2>2 DEF Sent, Fields
  <2>4. BoundIn(proc_revmap', stack'[1]) /\ stack'[1].src = Entity(stack'[1].src.host, stack'[1].src.port)
    BY <2>2, <2>3 DEF Waits, BoundIn, Entity
  <2>5. FrameType(stack'[1])
    BY <2>3, <2>4 DEF FrameType
  <2>6. \A k \in DOMAIN stack' : FrameShape(stack', k)
    BY <2>2, <2>3, <2>5 DEF FrameShape
  <2>7. Top' = stack'[1]
    BY <2>2 DEF Top
  <2> QED
    BY <2>3, <2>4, <2>6, <2>7 DEF ShapeIInv
<1> QED
  BY <1>3, <1>4, <1>5

\* The frame of a handler that runs, and that of the client.
LEMMA TopShape ==
  ASSUME RevIInv, ShapeIInv, stack # <<>>
  PROVE  /\ Len(stack) \in DOMAIN stack /\ 1 \in DOMAIN stack /\ Len(stack) \in Nat \ {0}
         /\ DOMAIN stack = 1 .. Len(stack)
         /\ FrameShape(stack, Len(stack)) /\ Top = stack[Len(stack)]
         /\ Top.type \in {"CLIENTREQ", "FORWARD"} => ReplyTo(Top) = stack[1].src
<1>1. /\ Len(stack) \in DOMAIN stack /\ 1 \in DOMAIN stack /\ Len(stack) \in Nat \ {0}
      /\ DOMAIN stack = 1 .. Len(stack)
  BY BelowFrames DEF RevIInv
<1>2. FrameShape(stack, Len(stack)) /\ Top = stack[Len(stack)]
  BY <1>1 DEF ShapeIInv, Top
<1> QED
  BY <1>1, <1>2 DEF FrameShape, ReplyTo

\* The reply to the client is such a send.
LEMMA ReplyKeepsShape ==
  ASSUME RevIInv, ShapeIInv, stack # <<>>, NEW r \in Ranks, NEW ino, NEW list, NEW data,
         Reply(r, ino, list, data)
  PROVE  ShapeIInv'
<1>1. PICK e, arg : Send(TopAt("tail"), r, e, "REPLY", arg)
  BY DEF Reply
<1> QED
  BY <1>1, HandlerSendKeepsShape

\* To fail is to return.
LEMMA FailKeepsShape ==
  ASSUME RevIInv, ShapeIInv, stack # <<>>, Fail
  PROVE  ShapeIInv'
BY ReturnKeepsShape DEF Fail

\* What touches neither the stack nor the ports keeps the shape.
LEMMA UnchangedKeepsShape ==
  ASSUME ShapeIInv, UNCHANGED <<stack, proc_revmap>>
  PROVE  ShapeIInv'
<1>1. Top' = Top
  BY DEF Top
<1> QED
  BY <1>1 DEF ShapeIInv, FrameShape, FrameType, BoundIn, Entity

\* Every step of an MDS keeps the shape.
LEMMA MdsStepKeepsShape ==
  ASSUME RevIInv, ShapeIInv, NEW r \in Ranks, MdsStep(r)
  PROVE  ShapeIInv'
<1>1. CASE Forward(r)
  <2>1. stack # <<>> /\ Top.type \in {"CLIENTREQ", "FORWARD"}
    BY <1>1 DEF Forward, Asked, Called
  <2>2. PICK e, arg : Send(TopAt("tail"), r, e, "FORWARD", arg) /\ arg.src = ReplyTo(Top)
    BY <1>1 DEF Forward, MClientRequestForward
  <2>3. arg.src = stack[1].src
    BY <2>1, <2>2, TopShape
  <2> QED
    BY <2>1, <2>2, <2>3, HandlerSendKeepsShape
<1>2. CASE OpLookup(r)
  BY <1>2, ReplyKeepsShape, FailKeepsShape DEF OpLookup, Executes, Asked, Called
<1>3. CASE OpCreate(r)
  BY <1>3, ReplyKeepsShape DEF OpCreate, Executes, Asked, Called
<1>4. CASE OpMkdir(r)
  BY <1>4, ReplyKeepsShape, FailKeepsShape DEF OpMkdir, Executes, Asked, Called
<1>5. CASE OpRead(r)
  BY <1>5, ReplyKeepsShape DEF OpRead, Executes, Asked, Called
<1>6. CASE OpWrite(r)
  BY <1>6, ReplyKeepsShape DEF OpWrite, Executes, Asked, Called
<1>7. CASE OpRm(r)
  BY <1>7, ReplyKeepsShape DEF OpRm, Executes, Asked, Called
<1>8. CASE OpScan(r)
  <2>1. stack # <<>> /\ Top.type \in {"CLIENTREQ", "FORWARD"}
    BY <1>8 DEF OpScan, ScansDirectory, Executes, Asked, Called
  <2>2. CASE ~heap[Req.ino].isDir
    BY <1>8, <2>1, <2>2, FailKeepsShape DEF OpScan
  <2>3. CASE heap[Req.ino].isDir
    <3>1. PICK local : stack' = TopWith("scan", local)
      BY <1>8, <2>3 DEF OpScan
    <3>2. UNCHANGED proc_revmap
      BY <1>8, <2>3 DEF OpScan
    <3> QED
      BY <2>1, <3>1, <3>2, MoveKeepsShape
  <2> QED
    BY <2>2, <2>3
<1>9. CASE AskSlave(r)
  <2>1. stack # <<>> /\ Top.pc = "scan"
    BY <1>9 DEF AskSlave, Resumed
  <2>2. PICK local, e, arg : Send(TopWith("slave", local), r, e, "SLAVEREQ", arg)
    BY <1>9 DEF AskSlave
  <2>3. Top.type \in {"CLIENTREQ", "FORWARD"}
    BY <2>1, TopShape DEF FrameShape, FrameType
  <2> QED
    BY <2>1, <2>2, <2>3, HandlerSendKeepsShape
<1>10. CASE SlaveReturns(r)
  <2>1. stack # <<>> /\ Top.pc = "slave"
    BY <1>10 DEF SlaveReturns, Resumed
  <2>2. CASE ~ret
    BY <1>10, <2>1, <2>2, ReturnKeepsShape DEF SlaveReturns
  <2>3. CASE ret
    <3>1. PICK local : stack' = TopWith("scan", local)
      BY <1>10, <2>3 DEF SlaveReturns
    <3>2. UNCHANGED proc_revmap
      BY <1>10, <2>3 DEF SlaveReturns
    <3>3. Top.type \in {"CLIENTREQ", "FORWARD"}
      BY <2>1, TopShape DEF FrameShape, FrameType
    <3> QED
      BY <2>1, <3>1, <3>2, <3>3, MoveKeepsShape
  <2> QED
    BY <2>2, <2>3
<1>11. CASE EndListdir(r)
  BY <1>11, ReplyKeepsShape DEF EndListdir, ScanDone, Resumed
<1>12. CASE EndRmdir(r)
  BY <1>12, ReplyKeepsShape DEF EndRmdir, ScanDone, Resumed
<1>13. CASE HandleSlaveRequest(r)
  <2>1. stack # <<>>
    BY <1>13 DEF HandleSlaveRequest, SlaveOp, Called
  <2>2. \/ \E b : Return(b)
        \/ \E e, arg : Send(TopAt("tail"), r, e, "SLAVEREPLY", arg)
    BY <1>13 DEF HandleSlaveRequest, SlaveOp
  <2> QED
    BY <2>1, <2>2, ReturnKeepsShape, HandlerSendKeepsShape
<1>14. CASE HandleSlaveReply(r)
  BY <1>14, ReturnKeepsShape DEF HandleSlaveReply, Called
<1>15. CASE FollowsDeleted(r)
  BY <1>15, UnchangedKeepsShape DEF FollowsDeleted, Undefined, msgVars
<1> QED
  BY <1>1, <1>2, <1>3, <1>4, <1>5, <1>6, <1>7, <1>8, <1>9, <1>10, <1>11, <1>12, <1>13,
     <1>14, <1>15 DEF MdsStep

\* And every other step.
LEMMA NextKeepsShape ==
  ASSUME RequestsIInv, ShapeIInv, [Next]_vars
  PROVE  ShapeIInv'
<1> USE DEF RequestsIInv
<1>1. ASSUME NEW c \in Calls, Begin(c) PROVE ShapeIInv'
  BY <1>1, UnchangedKeepsShape DEF Begin, msgVars
<1>2. CASE HandleReturn
  BY <1>2, ReturnKeepsShape DEF HandleReturn, ReturnTail, Resumed
<1>3. CASE UNCHANGED vars
  BY <1>3, UnchangedKeepsShape DEF vars, msgVars
<1>4. CASE Register
  BY <1>4, UnchangedKeepsShape DEF Register
<1>5. CASE LookupCached \/ LookupReturns \/ LooksAtDeleted \/ Answered \/ RequestReturns
  BY <1>5, UnchangedKeepsShape DEF LookupCached, LookupReturns, LooksAtDeleted, Answered,
     RequestReturns, Undefined, msgVars
<1>6. CASE LookupRemote
  BY <1>6, ClientSendKeepsShape DEF ClientWaits, LookupRemote
<1>7. CASE Request
  BY <1>7, ClientSendKeepsShape DEF ClientWaits, Request
<1>8. CASE HandleReply
  BY <1>8, ReturnKeepsShape DEF HandleReply, Called
<1> QED
  BY <1>1, <1>2, <1>3, <1>4, <1>5, <1>6, <1>7, <1>8, MdsStepKeepsShape DEF Next, Step, ClientStep

\* Ports, services and shape hold together.
LEMMA NextKeepsAsker == AskerIInv /\ [Next]_vars => AskerIInv'
BY NextKeepsIInv, NextKeepsServices, NextKeepsShape DEF AskerIInv

\* At first there is no frame.
LEMMA InitAsker == Init => AskerIInv
<1>1. ASSUME Init PROVE ShapeIInv
  <2>1. stack = <<>>
    BY <1>1 DEF Init, MessagingInit
  <2> QED
    BY <2>1 DEF ShapeIInv
<1> QED
  BY <1>1, InitIInv, InitServices DEF AskerIInv

\* The address of the client leads to it as long as its request is served.
LEMMA ClientIsReached ==
  ASSUME RevIInv, ServicesIInv, ShapeIInv, stack # <<>>
  PROVE  Dispatch(service_map, proc_revmap, stack[1].src) = Client
<1>1. BoundIn(proc_revmap, stack[1]) /\ FrameShape(stack, 1)
  BY TopShape DEF ShapeIInv
<1>2. /\ stack[1].src.host \in Hosts /\ stack[1].src.port >= RevBase /\ stack[1].by = Client
      /\ stack[1].src.port \in Nat /\ RevBase \in Nat
  BY <1>1, ProcsType, HostsAssumption, RevBaseAssumption DEF BoundIn, FrameShape, RevPorts
<1>3. stack[1].src.port \notin DOMAIN service_map[stack[1].src.host]
  BY <1>2, ServicesLead
<1> QED
  BY <1>1, <1>2, <1>3 DEF BoundIn, Dispatch

\* The address of a master leads to it as long as its slave has not answered.
LEMMA MasterIsReached ==
  ASSUME RevIInv, ServicesIInv, ShapeIInv, stack # <<>>, Top.type = "SLAVEREQ", Top.pc = "call"
  PROVE  Dispatch(service_map, proc_revmap, Top.src) = Top.by
<1>1. BoundIn(proc_revmap, Top) /\ FrameShape(stack, Len(stack)) /\ Top = stack[Len(stack)]
  BY TopShape DEF ShapeIInv
<1>2. Top.by \in Procs
  BY <1>1, ProcsType DEF FrameShape
<1>3. /\ Top.src.host \in Hosts /\ Top.src.port >= RevBase
      /\ Top.src.port \in Nat /\ RevBase \in Nat
  BY <1>1, <1>2, HostsAssumption, RevBaseAssumption DEF BoundIn, RevPorts
<1>4. Top.src.port \notin DOMAIN service_map[Top.src.host]
  BY <1>3, ServicesLead
<1> QED
  BY <1>1, <1>3, <1>4 DEF BoundIn, Dispatch

\* Whatever forwards, slaves and replies a request goes through, the address
\* that is to be answered leads to the process that asked.
THEOREM AnswersReachAskers == Spec => []AnswerReachesAsker
<1>1. AskerIInv => AnswerReachesAsker
  <2> SUFFICES ASSUME AskerIInv, NEW k \in DOMAIN stack
               PROVE  /\ stack[k].type \in {"CLIENTREQ", "FORWARD"} /\ stack[k].pc \in {"call", "scan", "slave"} =>
                           Dispatch(service_map, proc_revmap, ReplyTo(stack[k])) = Client
                      /\ stack[k].type = "SLAVEREQ" /\ stack[k].pc = "call" =>
                           Dispatch(service_map, proc_revmap, stack[k].src) = stack[k].by
    BY DEF AnswerReachesAsker
  <2>1. RevIInv /\ ServicesIInv /\ ShapeIInv /\ stack # <<>>
    BY DEF AskerIInv, RequestsIInv
  <2>2. FrameShape(stack, k)
    BY <2>1 DEF ShapeIInv
  <2>3. stack[k].type \in {"CLIENTREQ", "FORWARD"} => ReplyTo(stack[k]) = stack[1].src
    BY <2>2 DEF FrameShape, ReplyTo
  <2>4. stack[k].pc = "call" => k = Len(stack)
    <3>1. DOMAIN stack = 1 .. Len(stack) /\ Len(stack) \in Nat
      BY <2>1, TopShape
    <3> QED
      BY <2>2, <3>1 DEF FrameShape
  <2> QED
    BY <2>1, <2>3, <2>4, ClientIsReached, MasterIsReached DEF Top
<1> QED
  BY <1>1, InitAsker, NextKeepsAsker, PTL DEF Spec
-----------------------------------------------------------------------------
(***************************************************************************)
(* Whom the dispatchers name.  std::hash returns a number; that the paths   *)
(* it is asked about are paths is proved.  (The provers do not know of a     *)
(* literal that it is a string: Name says so of two.)                        *)
(***************************************************************************)
Name == STRING \cup {"", "/"}
Path == Seq(Name)
HashIsNat == \A p \in Path : Hash(p) \in Nat

\* The ranks that had registered when the table was made.
Initial == 0 .. InitialSize - 1
Table == BuildLut(Initial)

\* Lists of a table: none is empty, and there is one.
IsTable(t, S) ==
  /\ Len(t) \in Nat \ {0} /\ DOMAIN t = 1 .. Len(t)
  /\ \A i \in DOMAIN t : t[i] \in Seq(S) /\ Len(t[i]) \in Nat \ {0}

RanksOn(h) == {r \in Initial : HostOf[r] = h}

\* The table has the initial ranks, and no others; each list has those of a
\* host.
LEMMA TableLists ==
  /\ IsTable(Table, Initial)
  /\ \A r \in Initial : \E i \in DOMAIN Table : r \in ToSet(Table[i])
  /\ \A i \in DOMAIN Table : \E h : Table[i] = InOrder(RanksOn(h)) /\ RanksOn(h) # {}
<1> DEFINE ranksOf(h) == {r \in Initial : HostOf[r] = h}
           positions  == {i \in DOMAIN HostOrder : ranksOf(HostOrder[i]) # {}}
           hosts      == InOrder(positions)
<1>1. /\ InitialSize \in Nat \ {0} /\ IsFiniteSet(Initial) /\ Initial \in SUBSET Nat
      /\ Initial \subseteq Ranks
  BY InitialSizeAssumption, MaxRanksAssumption, FS_Interval DEF Initial, Ranks
<1>2. /\ HostOrder \in Seq(Hosts) /\ Len(HostOrder) \in Nat /\ DOMAIN HostOrder = 1 .. Len(HostOrder)
      /\ \A h \in Hosts : \E i \in DOMAIN HostOrder : HostOrder[i] = h
  BY HostOrderAssumption, LenProperties DEF ToSet
<1>3. \A h : ranksOf(h) \in SUBSET Nat /\ ranksOf(h) \subseteq Initial /\ IsFiniteSet(ranksOf(h))
  BY <1>1, FS_Subset
<1>4. positions \in SUBSET Nat /\ IsFiniteSet(positions)
  <2>1. IsFiniteSet(DOMAIN HostOrder)
    BY <1>2, FS_Interval
  <2>2. positions \subseteq DOMAIN HostOrder
    OBVIOUS
  <2> QED
    BY <1>2, <2>1, <2>2, FS_Subset
<1>5. Table = [n \in DOMAIN hosts |-> InOrder(ranksOf(HostOrder[hosts[n]]))]
  BY DEF Table, BuildLut
<1>6. \A r \in Initial : \E i \in positions : r \in ranksOf(HostOrder[i])
  <2> TAKE r \in Initial
  <2>1. HostOf[r] \in Hosts
    BY <1>1, RequestProcsAssumption, HostsAssumption
  <2>2. PICK i \in DOMAIN HostOrder : HostOrder[i] = HostOf[r]
    BY <1>2, <2>1
  <2>3. r \in ranksOf(HostOrder[i])
    BY <2>2
  <2> QED
    BY <2>2, <2>3
<1>7. \A i \in positions : ranksOf(HostOrder[i]) # {}
  OBVIOUS
<1> HIDE DEF ranksOf, positions
<1> DEFINE n == Cardinality(positions)
<1>8. /\ hosts \in [1 .. n -> positions] /\ n \in Nat
      /\ \A i \in positions : \E k \in 1 .. n : hosts[k] = i
  BY <1>4, InOrderIs, InOrderCovers
<1>9. n # 0
  <2>1. 0 \in Initial
    BY <1>1 DEF Initial
  <2>2. positions # {}
    BY <1>6, <2>1
  <2> QED
    BY <1>4, <2>2, InOrderIs
<1> HIDE DEF n, hosts
<1>10. \A k \in 1 .. n :
         LET R == ranksOf(HostOrder[hosts[k]])
         IN /\ Table[k] = InOrder(R) /\ R # {} /\ R \in SUBSET Nat /\ R \subseteq Initial /\ IsFiniteSet(R)
  BY <1>3, <1>5, <1>7, <1>8
<1>11. ASSUME NEW k \in 1 .. n
       PROVE  Table[k] \in Seq(Initial) /\ Len(Table[k]) \in Nat \ {0}
  <2> DEFINE R == ranksOf(HostOrder[hosts[k]])
  <2>1. Table[k] = InOrder(R) /\ R # {} /\ R \in SUBSET Nat /\ R \subseteq Initial /\ IsFiniteSet(R)
    BY <1>10
  <2> HIDE DEF R
  <2>2. InOrder(R) \in Seq(R) /\ Len(InOrder(R)) \in Nat \ {0}
    BY <2>1, InOrderIs
  <2>3. InOrder(R) \in Seq(Initial)
    BY <2>1, <2>2, SeqMonotonic
  <2> QED
    BY <2>1, <2>2, <2>3
<1>12. DOMAIN Table = 1 .. n /\ Len(Table) = n
  <2>1. Table \in [1 .. n -> Seq(Initial)]
    BY <1>5, <1>8, <1>11
  <2> QED
    BY <1>8, <2>1, HasLength
<1>13. ASSUME NEW r \in Initial
       PROVE  \E i \in DOMAIN Table : r \in ToSet(Table[i])
  <2>1. PICK i \in positions : r \in ranksOf(HostOrder[i])
    BY <1>6
  <2>2. PICK k \in 1 .. n : hosts[k] = i
    BY <1>8
  <2> DEFINE R == ranksOf(HostOrder[hosts[k]])
  <2>3. Table[k] = InOrder(R) /\ R \in SUBSET Nat /\ IsFiniteSet(R) /\ r \in R
    BY <1>10, <2>1, <2>2
  <2> HIDE DEF R
  <2>4. DOMAIN InOrder(R) = 1 .. Cardinality(R)
    BY <2>3, InOrderIs
  <2>5. \E j \in DOMAIN InOrder(R) : InOrder(R)[j] = r
    BY <2>3, <2>4, InOrderCovers
  <2> QED
    BY <1>12, <2>3, <2>5 DEF ToSet
<1>14. \A k \in DOMAIN Table : \E h : Table[k] = InOrder(RanksOn(h)) /\ RanksOn(h) # {}
  <2> TAKE k \in DOMAIN Table
  <2> DEFINE h == HostOrder[hosts[k]]
  <2>1. RanksOn(h) = ranksOf(h)
    BY DEF RanksOn, ranksOf
  <2>2. Table[k] = InOrder(ranksOf(h)) /\ ranksOf(h) # {}
    BY <1>10, <1>12
  <2> QED
    BY <2>1, <2>2, Zenon
<1> QED
  BY <1>8, <1>9, <1>11, <1>12, <1>13, <1>14 DEF IsTable

\* The first ranks of the lists of the table.
Firsts == {Table[i][1] : i \in DOMAIN Table}

\* Rank 0 is one, and none of them comes later in a list.
LEMMA FirstsAreFirst ==
  /\ 0 \in Firsts
  /\ \A i, j \in DOMAIN Table : \A m \in 1 .. Len(Table[j]) :
       Table[i][1] = Table[j][m] => Table[i][1] = Table[j][1]
<1>1. IsTable(Table, Initial) /\ Initial \in SUBSET Nat /\ IsFiniteSet(Initial) /\ 0 \in Initial
  BY TableLists, InitialSizeAssumption, FS_Interval DEF Initial
<1>2. \A h : RanksOn(h) \in SUBSET Nat /\ IsFiniteSet(RanksOn(h)) /\ RanksOn(h) \subseteq Initial
  BY <1>1, FS_Subset DEF RanksOn
<1>3. 0 \in Firsts
  <2>1. PICK i \in DOMAIN Table : 0 \in ToSet(Table[i])
    BY <1>1, TableLists
  <2>2. PICK h : Table[i] = InOrder(RanksOn(h)) /\ RanksOn(h) # {}
    BY TableLists
  <2> DEFINE n == Cardinality(RanksOn(h))
             t == Table[i]
  <2>3. t \in [1 .. n -> RanksOn(h)] /\ Increasing(t) /\ n \in Nat \ {0}
    BY <1>2, <2>2, InOrderIs
  <2>4. PICK m \in 1 .. n : t[m] = 0
    BY <2>1, <2>3 DEF ToSet
  <2> HIDE DEF t, n
  <2>5. 1 \in 1 .. n /\ t[1] \in Nat
    BY <1>2, <2>3
  <2>6. m = 1
    BY <2>3, <2>4, <2>5 DEF Increasing
  <2> QED
    BY <2>4, <2>6 DEF Firsts, t
<1>4. ASSUME NEW i \in DOMAIN Table, NEW j \in DOMAIN Table, NEW m \in 1 .. Len(Table[j]),
             Table[i][1] = Table[j][m]
      PROVE  Table[i][1] = Table[j][1]
  <2>1. PICK g : Table[i] = InOrder(RanksOn(g)) /\ RanksOn(g) # {}
    BY TableLists
  <2>2. PICK h : Table[j] = InOrder(RanksOn(h)) /\ RanksOn(h) # {}
    BY TableLists
  <2>3. Table[i][1] \in RanksOn(g)
    <3>1. /\ InOrder(RanksOn(g)) \in [1 .. Cardinality(RanksOn(g)) -> RanksOn(g)]
          /\ Cardinality(RanksOn(g)) \in Nat \ {0}
      BY <1>2, <2>1, InOrderIs
    <3>2. 1 \in 1 .. Cardinality(RanksOn(g))
      BY <3>1
    <3> QED
      BY <2>1, <3>1, <3>2
  <2>4. Table[j][m] \in RanksOn(h)
    BY <1>2, <2>2, InOrderIs
  <2>5. g = h
    BY <1>4, <2>3, <2>4 DEF RanksOn
  <2> QED
    BY <2>1, <2>2, <2>5
<1> QED
  BY <1>3, <1>4

\* An entry of a table, counted modulo its length, and one of a list in it.
LEMMA TableEntry ==
  ASSUME NEW S, NEW t, IsTable(t, S), NEW c \in Nat
  PROVE  /\ t[(c % Len(t)) + 1] \in Seq(S) /\ Len(t[(c % Len(t)) + 1]) \in Nat \ {0}
         /\ \A d \in Nat : t[(c % Len(t)) + 1][(d % Len(t[(c % Len(t)) + 1])) + 1] \in S
         /\ t[(c % Len(t)) + 1][1] \in S
<1> DEFINE n == Len(t)
           l == t[(c % n) + 1]
<1>1. n \in Nat \ {0} /\ DOMAIN t = 1 .. n
  BY DEF IsTable
<1>2. (c % n) + 1 \in 1 .. n
  <2> HIDE DEF n
  <2> QED
    BY <1>1
<1>3. l \in Seq(S) /\ Len(l) \in Nat \ {0}
  BY <1>1, <1>2 DEF IsTable
<1> HIDE DEF n, l
<1>4. ASSUME NEW d \in Nat PROVE l[(d % Len(l)) + 1] \in S
  <2> DEFINE m == Len(l)
  <2>1. m \in Nat \ {0}
    BY <1>3
  <2> HIDE DEF m
  <2>2. (d % m) + 1 \in 1 .. m
    BY <2>1
  <2>3. \A i \in 1 .. m : l[i] \in S
    BY <1>3 DEF m
  <2>4. l[(d % m) + 1] \in S
    BY <2>2, <2>3
  <2> QED
    BY <2>4 DEF m
<1>5. l[1] \in S
  <2>1. 1 \in 1 .. Len(l)
    BY <1>3
  <2> QED
    BY <1>3, <2>1
<1> QED
  BY <1>3, <1>4, <1>5 DEF l, n

\* A path has a length, its prefixes and its directory are paths.
LEMMA PathParts ==
  ASSUME NEW p \in Path
  PROVE  /\ Len(p) \in Nat /\ DOMAIN p = 1 .. Len(p)
         /\ \A k \in 0 .. Len(p) : Prefix(p, k) \in Path /\ Len(Prefix(p, k)) = k
                                   /\ \A i \in 1 .. k : Prefix(p, k)[i] = p[i]
         /\ DirName(p) \in Path /\ BaseName(p) \in Name
         /\ SplitPath(p) \in Path
<1>1. Len(p) \in Nat /\ DOMAIN p = 1 .. Len(p) /\ \A i \in 1 .. Len(p) : p[i] \in Name
  BY LenProperties DEF Path
<1>2. ASSUME NEW k \in 0 .. Len(p)
      PROVE  Prefix(p, k) \in Path /\ Len(Prefix(p, k)) = k
             /\ \A i \in 1 .. k : Prefix(p, k)[i] = p[i]
  <2>1. \A i \in 1 .. k : p[i] \in Name
    BY <1>1
  <2>2. /\ SubSeq(p, 1, k) \in Seq(Name)
        /\ Len(SubSeq(p, 1, k)) = IF 1 <= k THEN k - 1 + 1 ELSE 0
        /\ \A i \in 1 .. k - 1 + 1 : SubSeq(p, 1, k)[i] = p[1 + i - 1]
    BY <2>1, SubSeqProperties
  <2> QED
    BY <2>2 DEF Prefix, Path
<1>3. DirName(p) \in Path
  <2>1. \A i \in 1 .. Len(p) - 1 : p[i] \in Name
    BY <1>1
  <2>2. SubSeq(p, 1, Len(p) - 1) \in Seq(Name)
    BY <1>1, <2>1, SubSeqProperties
  <2>3. RootPath \in Path
    BY DEF RootPath, Path
  <2> QED
    BY <2>2, <2>3 DEF DirName, Path
<1>4. BaseName(p) \in Name
  <2>1. p # RootPath => Len(p) \in 1 .. Len(p)
    BY EmptySeq DEF Path, RootPath
  <2> QED
    BY <1>1, <2>1 DEF BaseName, Name
<1>5. SplitPath(p) \in Path
  <2>1. p # RootPath => Tail(p) \in Path
    BY HeadTailProperties DEF Path, RootPath
  <2> QED
    BY <2>1 DEF SplitPath
<1> QED
  BY <1>1, <1>2, <1>3, <1>4, <1>5

\* An entry has an index, or is not there.
LEMMA ChildIs ==
  ASSUME NEW h, HeapIInv(h), NEW p \in Path
  PROVE  WhichChild(h, p) \in Nat \cup {NoRank}
<1> DEFINE d == Lookup(h, DirName(p))
           c == GetSub(h, d, BaseName(p))
<1>1. d \in Sound(h) \cup {Null}
  BY PathParts, LookupIsSound
<1>2. CASE d = Null \/ c = Null
  BY <1>2 DEF WhichChild
<1>3. CASE d # Null /\ c # Null
  <2>1. WhichChild(h, p) = Cardinality({l \in h[d].entries : l < c})
    BY <1>3 DEF WhichChild, IndexOf
  <2>2. d \in DOMAIN h
    BY <1>1, <1>3 DEF Sound
  <2>3. IsFiniteSet(h[d].entries)
    <3>1. Len(h) \in Nat /\ h[d].entries \subseteq d + 1 .. Len(h) /\ d \in Nat
      BY <2>2 DEF HeapIInv, IsHeap
    <3>2. IsFiniteSet(d + 1 .. Len(h))
      BY <3>1, FS_Interval
    <3> QED
      BY <3>1, <3>2, FS_Subset
  <2>4. {l \in h[d].entries : l < c} \subseteq h[d].entries
    OBVIOUS
  <2>5. Cardinality({l \in h[d].entries : l < c}) \in Nat
    BY <2>3, <2>4, FS_Subset, FS_CardinalityType
  <2> QED
    BY <2>1, <2>5
<1> QED
  BY <1>2, <1>3

\* A set of numbers up to n has a greatest member.
LEMMA LastExists ==
  ASSUME NEW n \in Nat, NEW S \in SUBSET (0 .. n), S # {}
  PROVE  \E k \in S : \A l \in S : l <= k
<1> DEFINE T == {n - k : k \in S}
<1>1. T \in SUBSET Nat /\ T # {}
  <2>1. \A k \in S : n - k \in Nat /\ n - k \in T
    OBVIOUS
  <2>2. PICK k \in S : TRUE
    OBVIOUS
  <2> QED
    BY <2>1, <2>2
<1> HIDE DEF T
<1>2. PICK m \in T : \A j \in T : m <= j
  BY <1>1, FirstExists
<1>3. PICK k \in S : m = n - k
  BY DEF T
<1>4. \A l \in S : n - l \in T
  BY DEF T
<1>5. ASSUME NEW l \in S PROVE l <= k
  BY <1>2, <1>3, <1>4
<1> QED
  BY <1>5

\* The nearest directory is a path, and the last prefix that is a directory.
LEMMA NearestIs ==
  ASSUME NEW h, HeapIInv(h), NEW p \in Path
  PROVE  /\ NearestDir(h, p) \in Path
         /\ \E k \in 0 .. Len(p) :
              /\ NearestDir(h, p) = Prefix(p, k) /\ IsDirPath(h, Prefix(p, k))
              /\ \A l \in 0 .. Len(p) : IsDirPath(h, Prefix(p, l)) => l <= k
<1> DEFINE dirs == {k \in 0 .. Len(p) : IsDirPath(h, Prefix(p, k))}
<1>1. Len(p) \in Nat /\ 0 \in 0 .. Len(p) /\ Len(Prefix(p, 0)) = 0
  BY PathParts
<1>2. 0 \in dirs
  <2>1. Lookup(h, Prefix(p, 0)) = Root
    BY <1>1, LookupRoot
  <2> QED
    BY <1>1, <2>1 DEF IsDirPath, HeapIInv, IsHeap, Root, Null
<1>3. dirs \in SUBSET (0 .. Len(p))
  OBVIOUS
<1>4. NearestDir(h, p) = Prefix(p, CHOOSE k \in dirs : \A l \in dirs : l <= k)
  BY DEF NearestDir
<1> DEFINE last == CHOOSE k \in dirs : \A l \in dirs : l <= k
<1> HIDE DEF dirs
<1>5. \E k \in dirs : \A l \in dirs : l <= k
  BY <1>1, <1>2, <1>3, LastExists
<1>6. last \in dirs /\ \A l \in dirs : l <= last
  BY <1>5
<1> HIDE DEF last
<1>7. last \in 0 .. Len(p) /\ IsDirPath(h, Prefix(p, last))
  BY <1>6 DEF dirs
<1>8. \A l \in 0 .. Len(p) : IsDirPath(h, Prefix(p, l)) => l <= last
  BY <1>6 DEF dirs
<1>9. NearestDir(h, p) = Prefix(p, last)
  BY <1>4 DEF last
<1> QED
  BY <1>7, <1>8, <1>9, PathParts

\* The ranks a strategy may name: those in the table, or all there are.
Serving == IF strategy = "hashing" THEN Active ELSE Initial

\* The dispatcher names one of these, or nobody.
LEMMA OwnerServes ==
  ASSUME HashIsNat, HeapIInv(heap), strategy \in Strategies, lut = Table,
         size \in InitialSize .. MaxRanks, NEW p \in Path
  PROVE  OwnerOf(p) \in Serving \cup {NoRank}
<1>1. IsTable(lut, Initial) /\ 0 \in Initial
  BY TableLists, InitialSizeAssumption, MaxRanksAssumption DEF Initial
<1>2. \A c \in Nat : /\ HostOfChild(c)[1] \in Initial
                     /\ \A d \in Nat : HostOfChild(c)[(d % Len(HostOfChild(c))) + 1] \in Initial
  BY <1>1, TableEntry DEF HostOfChild
<1>3. \A q \in Path : DispatchLevel1(heap, q) \in Initial \cup {NoRank}
  BY <1>2, ChildIs DEF DispatchLevel1
<1>4. CASE strategy = "subtree"
  <2> DEFINE d  == NearestDir(heap, p)
             v  == SplitPath(d)
             c1 == WhichChild(heap, Prefix(v, 1))
             c2 == WhichChild(heap, Prefix(v, 2))
  <2>1. d \in Path /\ v \in Path /\ Len(v) \in Nat
    BY NearestIs, PathParts
  <2>2. OwnerOf(p) = IF v = <<>> THEN 0
                     ELSE IF Len(v) = 1 THEN DispatchLevel1(heap, d)
                     ELSE IF c1 = NoRank \/ c2 = NoRank THEN NoRank
                     ELSE HostOfChild(c1)[(c2 % Len(HostOfChild(c1))) + 1]
    BY <1>4 DEF OwnerOf, RankOf, SubtreeDispatch
  <2> HIDE DEF d, v
  <2>3. v # <<>> /\ Len(v) # 1 => c1 \in Nat \cup {NoRank} /\ c2 \in Nat \cup {NoRank}
    <3>1. v # <<>> => Len(v) # 0
      BY <2>1, EmptySeq DEF Path
    <3>2. v # <<>> /\ Len(v) # 1 => 1 \in 0 .. Len(v) /\ 2 \in 0 .. Len(v)
      BY <2>1, <3>1
    <3> QED
      BY <2>1, <3>2, PathParts, ChildIs
  <2> HIDE DEF c1, c2
  <2>4. OwnerOf(p) \in Initial \cup {NoRank}
    BY <1>1, <1>2, <1>3, <2>1, <2>2, <2>3
  <2> QED
    BY <1>4, <2>4 DEF Serving
<1>5. CASE strategy = "hashing"
  <2>1. OwnerOf(p) = Hash(p) % size
    BY <1>5 DEF OwnerOf, RankOf, HashingDispatch
  <2>2. Hash(p) \in Nat /\ size \in Nat \ {0}
    BY InitialSizeAssumption, MaxRanksAssumption DEF HashIsNat
  <2>3. Hash(p) % size \in 0 .. size - 1
    BY <2>2
  <2> QED
    BY <1>5, <2>1, <2>3 DEF Serving, Active
<1>6. CASE strategy = "hybrid"
  <2> DEFINE v  == SplitPath(p)
             c1 == WhichChild(heap, Prefix(v, 1))
  <2>1. v \in Path /\ Len(v) \in Nat /\ Hash(p) \in Nat
    BY PathParts DEF HashIsNat
  <2>2. OwnerOf(p) = IF v = <<>> THEN 0
                     ELSE IF Len(v) = 1 THEN DispatchLevel1(heap, p)
                     ELSE IF c1 = NoRank THEN NoRank
                     ELSE HostOfChild(c1)[(Hash(p) % Len(HostOfChild(c1))) + 1]
    BY <1>6 DEF OwnerOf, RankOf, HybridDispatch
  <2> HIDE DEF v
  <2>3. v # <<>> /\ Len(v) # 1 => c1 \in Nat \cup {NoRank}
    <3>1. v # <<>> /\ Len(v) # 1 => 1 \in 0 .. Len(v)
      BY <2>1, EmptySeq DEF Path
    <3> QED
      BY <2>1, <3>1, PathParts, ChildIs
  <2> HIDE DEF c1
  <2>4. OwnerOf(p) \in Initial \cup {NoRank}
    BY <1>1, <1>2, <1>3, <2>1, <2>2, <2>3
  <2> QED
    BY <1>6, <2>4 DEF Serving
<1> QED
  BY <1>4, <1>5, <1>6 DEF Strategies
-----------------------------------------------------------------------------
(***************************************************************************)
(* What the messages carry: inodes that have been allocated, and whom they   *)
(* are for.  All of it is stated for the inodes D and the ranks S there are, *)
(* since these only become more.                                            *)
(***************************************************************************)
Ops == {"LOOKUP"} \cup {RequestOp[op] : op \in DOMAIN RequestOp}

RequestOK(D, m) ==
  /\ m.op \in Ops /\ m.fullpath \in Path /\ m.name \in Name
  /\ m.ino \in D \cup {Null} /\ (m.op # "LOOKUP" => m.ino \in D)

\* A handler never asks itself for its part of a directory.
LocalOK(S, r, local) == "others" \in DOMAIN local /\ local.others \in Seq(S \ {r})

FrameOK(D, S, f) ==
  /\ f.type # "REPLY" => f.to \in S
  /\ f.type # "CLIENTREQ" => f.by \in S
  /\ f.type \in {"CLIENTREQ", "FORWARD"} => RequestOK(D, RequestIn(f))
  /\ f.type = "REPLY" =>
       f.to = Client /\ f.arg.from = f.by /\ f.arg.fullpath \in Path /\ f.arg.ino \in D \cup {Null}
  /\ f.type = "SLAVEREQ" => f.by # f.to /\ f.arg.fullpath \in Path /\ f.arg.ino \in D
  /\ f.pc \in {"scan", "slave"} => LocalOK(S, f.to, f.local) /\ RequestIn(f).op # "LOOKUP"

FramesOK(D, S, s) == \A k \in DOMAIN s : FrameOK(D, S, s[k])

\* With more inodes and more ranks it goes on holding.
LEMMA FramesStayOK ==
  ASSUME NEW D, NEW S, NEW E, D \subseteq E, NEW T, S \subseteq T, NEW s, FramesOK(D, S, s)
  PROVE  FramesOK(E, T, s)
<1> SUFFICES ASSUME NEW k \in DOMAIN s PROVE FrameOK(E, T, s[k])
  BY DEF FramesOK
<1> DEFINE f == s[k]
<1>1. FrameOK(D, S, f)
  BY DEF FramesOK
<1> HIDE DEF f
<1>2. f.pc \in {"scan", "slave"} => LocalOK(T, f.to, f.local) /\ RequestIn(f).op # "LOOKUP"
  <2>1. S \ {f.to} \subseteq T \ {f.to}
    OBVIOUS
  <2>2. \A q \in Seq(S \ {f.to}) : q \in Seq(T \ {f.to})
    BY <2>1, SeqMonotonic
  <2> QED
    BY <1>1, <2>2 DEF FrameOK, LocalOK
<1>3. f.type \in {"CLIENTREQ", "FORWARD"} => RequestOK(E, RequestIn(f))
  BY <1>1 DEF FrameOK, RequestOK
<1>4. FrameOK(E, T, f)
  BY <1>1, <1>2, <1>3 DEF FrameOK
<1> QED
  BY <1>4 DEF f

\* A return leaves the frames below.
LEMMA ReturnKeepsFrames ==
  ASSUME RevIInv, stack # <<>>, NEW D, NEW S, FramesOK(D, S, stack), NEW b, Return(b)
  PROVE  FramesOK(D, S, stack')
<1>1. /\ DOMAIN stack = 1 .. Len(stack) /\ Len(stack) \in Nat \ {0}
      /\ DOMAIN Below = 1 .. Len(stack) - 1
      /\ \A k \in 1 .. Len(stack) - 1 : Below[k] = stack[k]
  BY BelowFrames DEF RevIInv
<1>2. stack' = Below
  BY DEF Return
<1>3. \A k \in 1 .. Len(stack) - 1 : k \in DOMAIN stack
  BY <1>1
<1> QED
  BY <1>1, <1>2, <1>3 DEF FramesOK

\* A frame that has moved on carries what it did.
LEMMA MovedStaysOK ==
  ASSUME NEW D, NEW S, FrameOK(D, S, Top), NEW f, NEW pc, Moved(f, pc),
         pc \in {"scan", "slave"} => LocalOK(S, Top.to, f.local) /\ Req.op # "LOOKUP"
  PROVE  FrameOK(D, S, f)
<1>1. f.type = Top.type /\ f.by = Top.by /\ f.to = Top.to /\ f.arg = Top.arg /\ f.pc = pc
  BY DEF Moved
<1>2. RequestIn(f) = RequestIn(Top)
  BY <1>1 DEF RequestIn
<1> QED
  BY <1>1, <1>2 DEF FrameOK, Req

\* So does the stack it is on top of.
LEMMA MovedFramesOK ==
  ASSUME NEW D, NEW S, FramesOK(D, S, stack), NEW f, NEW pc, Moved(f, pc),
         pc \in {"scan", "slave"} => LocalOK(S, Top.to, f.local) /\ Req.op # "LOOKUP",
         NEW s, TopReplaced(s, f)
  PROVE  FramesOK(D, S, s)
<1> DEFINE n == Len(stack)
<1>1. /\ n \in Nat \ {0} /\ DOMAIN stack = 1 .. n /\ DOMAIN s = 1 .. n
      /\ \A k \in 1 .. n - 1 : s[k] = stack[k]
      /\ s[n] = f /\ Top = stack[n]
  BY DEF TopReplaced, Top
<1> HIDE DEF n
<1>2. FrameOK(D, S, f)
  BY <1>1, MovedStaysOK DEF FramesOK
<1> QED
  BY <1>1, <1>2 DEF FramesOK

\* The frame of a send of p is one of these.
SentOK(D, S, p, e, type, arg) ==
  \A f : f.type = type /\ f.arg = arg /\ f.by = p /\ f.pc = "call" /\ Waits(p, e, f) =>
    FrameOK(D, S, f)

\* A handler's send.
LEMMA HandlerSendFramesOK ==
  ASSUME RevIInv, ShapeIInv, stack # <<>>, NEW D, NEW S, FramesOK(D, S, stack),
         NEW pc \in {"tail", "slave"}, NEW local,
         pc = "slave" => LocalOK(S, Top.to, local) /\ Req.op # "LOOKUP",
         NEW p \in Procs, NEW e, NEW type, NEW arg, SentOK(D, S, p, e, type, arg),
         \/ Send(TopAt(pc), p, e, type, arg) /\ local = Top.local
         \/ Send(TopWith(pc, local), p, e, type, arg)
  PROVE  FramesOK(D, S, stack')
<1>1. \/ \E f : TopReplaced(stack', f) /\ Moved(f, pc) /\ f.local = local
      \/ Nested(p, e, type, arg, pc, local)
  BY HandlerSends, Zenon
<1>2. ASSUME NEW f, TopReplaced(stack', f), Moved(f, pc), f.local = local
      PROVE  FramesOK(D, S, stack')
  BY <1>2, MovedFramesOK
<1>3. ASSUME Nested(p, e, type, arg, pc, local)
      PROVE  FramesOK(D, S, stack')
  <2> DEFINE n == Len(stack)
  <2>1. n \in Nat \ {0} /\ DOMAIN stack = 1 .. n /\ Top = stack[n]
    BY BelowFrames DEF RevIInv, Top
  <2>2. /\ DOMAIN stack' = 1 .. n + 1
        /\ \A k \in 1 .. n - 1 : stack'[k] = stack[k]
        /\ Moved(stack'[n], pc) /\ stack'[n].local = local
        /\ stack'[n + 1].type = type /\ stack'[n + 1].arg = arg
        /\ stack'[n + 1].by = p /\ stack'[n + 1].pc = "call"
        /\ Waits(p, e, stack'[n + 1])
    BY <1>3 DEF Nested
  <2> HIDE DEF n
  <2>3. FrameOK(D, S, stack'[n + 1])
    BY <2>2 DEF SentOK
  <2>4. FrameOK(D, S, stack'[n])
    <3>1. FrameOK(D, S, Top)
      BY <2>1 DEF FramesOK
    <3> QED
      BY <2>2, <3>1, MovedStaysOK
  <2>5. \A k \in 1 .. n - 1 : FrameOK(D, S, stack'[k])
    BY <2>1, <2>2 DEF FramesOK
  <2> QED
    BY <2>1, <2>2, <2>3, <2>4, <2>5 DEF FramesOK
<1> QED
  BY <1>1, <1>2, <1>3

\* A client's send.
LEMMA ClientSendFramesOK ==
  ASSUME RevIInv, stack = <<>>, NEW D, NEW S, NEW e, NEW arg,
         SentOK(D, S, Client, e, "CLIENTREQ", arg), Send(<<>>, Client, e, "CLIENTREQ", arg)
  PROVE  FramesOK(D, S, stack')
<1>1. IsStack(<<>>) /\ Client \in Procs
  BY ProcsType DEF RevIInv
<1>2. \/ stack' = <<>>
      \/ Pushes(<<>>, Client, e, "CLIENTREQ", arg) /\ Waits(Client, e, stack'[Len(<<>>) + 1])
  BY <1>1, SendWaits, Zenon
<1>3. CASE stack' = <<>>
  BY <1>3 DEF FramesOK
<1>4. CASE Pushes(<<>>, Client, e, "CLIENTREQ", arg) /\ Waits(Client, e, stack'[Len(<<>>) + 1])
  <2>1. Len(<<>>) = 0
    BY EmptySeq
  <2>2. /\ DOMAIN stack' = 1 .. 1 /\ Sent(Client, e, "CLIENTREQ", arg, stack'[1])
        /\ Waits(Client, e, stack'[1])
    BY <1>4, <2>1 DEF Pushes
  <2>3. /\ stack'[1].type = "CLIENTREQ" /\ stack'[1].arg = arg
        /\ stack'[1].by = Client /\ stack'[1].pc = "call"
    BY <2>2 DEF Sent
  <2>4. FrameOK(D, S, stack'[1])
    BY <2>2, <2>3 DEF SentOK
  <2> QED
    BY <2>2, <2>4 DEF FramesOK
<1> QED
  BY <1>2, <1>3, <1>4
-----------------------------------------------------------------------------
(***************************************************************************)
(* The data of a call.                                                      *)
(***************************************************************************)
TreeIInv ==
  /\ strategy \in Strategies /\ lut = Table
  /\ HeapIInv(heap) /\ \A i \in DOMAIN heap : heap[i].name \in Name

CacheOK(D, c) ==
  /\ Len(c) \in Nat /\ DOMAIN c = 1 .. Len(c) /\ Len(c) <= CacheSize
  /\ \A i \in DOMAIN c : c[i].value \in D

RoutesOK(S, t) == \A p \in DOMAIN t : t[p] \in S

CallbackOK(D, b) == "ino" \in DOMAIN b /\ b.ino \in D \cup {Null}

\* Where the client is; an inode it has found has been allocated.
WalkIInv ==
  /\ {"pc", "at", "ino"} \subseteq DOMAIN client
  /\ client.pc \in {"idle", "walk", "looking", "found", "asked"}
  /\ client.pc = "idle" => call = Nil
  /\ client.pc # "idle" => call \in Calls
  /\ client.pc \in {"walk", "looking"} => client.at \in 1 .. Len(Walk)
  /\ client.ino \in DOMAIN heap \cup {Null}
  /\ client.pc \in {"found", "asked"} => client.ino \in DOMAIN heap

Booleans == ret \in BOOLEAN /\ result \in BOOLEAN /\ ub \in BOOLEAN

\* The inductive invariant.
DataIInv ==
  /\ AskerIInv /\ TreeIInv /\ WalkIInv /\ Booleans
  /\ FramesOK(DOMAIN heap, Serving, stack)
  /\ CacheOK(DOMAIN heap, cache) /\ RoutesOK(Serving, routetable)
  /\ CallbackOK(DOMAIN heap, callback)

\* The ranks that serve listen.
LEMMA ServingLeads ==
  ASSUME ServicesIInv
  PROVE  /\ Serving \subseteq Active /\ Serving \subseteq Ranks /\ 0 \in Serving
         /\ \A rev : \A r \in Serving : Dispatch(service_map, rev, MdsEntity(r)) = r
         /\ NoRank \notin Ranks /\ Client \notin Ranks
<1>1. /\ Active \subseteq Ranks /\ 0 \in Active /\ InitialSize \in Nat \ {0} /\ MaxRanks \in Nat \ {0}
      /\ size \in InitialSize .. MaxRanks
  BY ActiveRanks, InitialSizeAssumption, MaxRanksAssumption DEF ServicesIInv
<1>2. Initial \subseteq Active /\ 0 \in Initial
  BY <1>1 DEF Initial, Active
<1>3. Serving \subseteq Active /\ 0 \in Serving
  BY <1>1, <1>2 DEF Serving
<1>4. NoRank \notin Ranks /\ Client \notin Ranks
  BY RequestProcsAssumption DEF NoRank, Ranks
<1> QED
  BY <1>1, <1>3, <1>4, ServicesLead

\* Nor has its directory one, nor a path above it.
LEMMA PlainParts ==
  ASSUME NEW p \in Path, Plain(p)
  PROVE  Plain(DirName(p)) /\ \A k \in 0 .. Len(p) : Plain(Prefix(p, k))
<1> DEFINE n == Len(p)
<1>1. n \in Nat /\ \A i \in 1 .. n : p[i] # "" /\ p[i] \in Name
  BY LenProperties DEF Path, Plain
<1>0. n \in Nat
  BY <1>1
<1> HIDE DEF n
<1>2. ASSUME NEW k \in Int, k <= n
      PROVE  Plain(SubSeq(p, 1, k))
  <2>1. \A i \in 1 .. k : i \in 1 .. n
    BY <1>0, <1>2
  <2>2. \A i \in 1 .. k : p[i] \in Name
    BY <1>1, <2>1
  <2> DEFINE s == SubSeq(p, 1, k)
  <2>3. /\ s \in Seq(Name)
        /\ Len(s) = IF 1 <= k THEN k - 1 + 1 ELSE 0
        /\ \A i \in 1 .. k - 1 + 1 : s[i] = p[1 + i - 1]
    BY <2>2, SubSeqProperties
  <2> HIDE DEF s
  <2>4. DOMAIN s = 1 .. Len(s)
    BY <2>3, LenProperties
  <2>5. \A i \in DOMAIN s : i \in 1 .. k /\ s[i] = p[i]
    BY <2>3, <2>4
  <2>6. \A i \in DOMAIN s : s[i] # ""
    BY <1>1, <2>1, <2>5
  <2> QED
    BY <2>6 DEF Plain, s
<1>3. Plain(DirName(p))
  <2>1. Plain(SubSeq(p, 1, n - 1))
    <3>1. n - 1 \in Int /\ n - 1 <= n
      BY <1>0
    <3> QED
      BY <1>2, <3>1
  <2>2. RootPath \in Seq(Name) /\ Len(RootPath) = 0
    BY EmptySeq DEF RootPath
  <2>3. DOMAIN RootPath = {}
    BY <2>2, LenProperties
  <2>4. Plain(RootPath)
    BY <2>3 DEF Plain
  <2> QED
    BY <2>1, <2>4 DEF DirName, n
<1>4. ASSUME NEW k \in 0 .. n PROVE Plain(Prefix(p, k))
  <2>1. k \in Int /\ k <= n
    BY <1>0
  <2> QED
    BY <1>2, <2>1 DEF Prefix
<1> QED
  BY <1>3, <1>4 DEF n

\* The paths that are looked up for a call are plain paths, as its own is, and
\* end with the one they lead to.
LEMMA WalkOfIs ==
  ASSUME NEW c \in Calls
  PROVE  /\ c.path \in Path /\ Plain(c.path)
         /\ Len(WalkOf(c)) \in Nat \ {0}
         /\ \A k \in 1 .. Len(WalkOf(c)) : WalkOf(c)[k] \in Path /\ Plain(WalkOf(c)[k])
         /\ WalkOf(c)[Len(WalkOf(c))] = WalkTo(c)
<1>1. c.path \in Path /\ Plain(c.path)
  <2>1. STRING \ {""} \subseteq Name
    BY DEF Name
  <2>2. c.path \in Path
    BY <2>1, CallsAssumption, SeqMonotonic DEF Path
  <2>3. \A i \in DOMAIN c.path : c.path[i] \in STRING \ {""}
    BY CallsAssumption, LenProperties
  <2> QED
    BY <2>2, <2>3 DEF Plain
<1> DEFINE q == WalkTo(c)
<1>2. q \in Path /\ Plain(q)
  BY <1>1, PathParts, PlainParts DEF WalkTo
<1>3. WalkOf(c) = Visited(q)
  BY DEF WalkOf
<1> HIDE DEF q
<1>4. CASE q = RootPath
  <2>1. WalkOf(c) = <<RootPath, RootPath>>
    BY <1>3, <1>4 DEF Visited
  <2>2. RootPath \in Path /\ Plain(RootPath)
    BY <1>2, <1>4
  <2> HIDE DEF WalkOf
  <2>3. Len(WalkOf(c)) = 2 /\ WalkOf(c)[1] = RootPath /\ WalkOf(c)[2] = RootPath
    BY <2>1
  <2>4. \A k \in 1 .. 2 : k = 1 \/ k = 2
    OBVIOUS
  <2>5. q = RootPath /\ Len(WalkOf(c)) \in Nat \ {0}
    BY <1>4, <2>3
  <2> QED
    BY <1>1, <2>2, <2>3, <2>4, <2>5, Zenon DEF q
<1>5. CASE q # RootPath
  <2> DEFINE n == Len(q) + 1
  <2>1. n \in Nat \ {0} /\ Len(q) \in Nat /\ n \in 1 .. n /\ n - 1 = Len(q)
    BY <1>2, PathParts
  <2>2. WalkOf(c) = [k \in 1 .. n |-> Prefix(q, k - 1)]
    BY <1>3, <1>5 DEF Visited
  <2>3. \A k \in 1 .. n : k - 1 \in 0 .. Len(q)
    BY <2>1
  <2> HIDE DEF n, WalkOf
  <2>4. \A k \in 1 .. n : Prefix(q, k - 1) \in Path /\ Plain(Prefix(q, k - 1))
    BY <1>2, <2>3, PathParts, PlainParts
  <2>5. WalkOf(c) \in [1 .. n -> Path]
    BY <2>2, <2>4
  <2>6. Len(WalkOf(c)) = n
    BY <2>1, <2>5, HasLength
  <2>7. WalkOf(c)[n] = Prefix(q, Len(q))
    BY <2>1, <2>2
  <2>8. WalkOf(c)[n] = q
    BY <1>2, <2>7, SubSeqFull DEF Prefix, Path
  <2>9. \A k \in 1 .. n : WalkOf(c)[k] \in Path /\ Plain(WalkOf(c)[k])
    BY <2>2, <2>4
  <2> QED
    BY <1>1, <2>1, <2>6, <2>8, <2>9, Zenon DEF q
<1> QED
  BY <1>4, <1>5

\* Those of the call in progress.
LEMMA WalkIs ==
  ASSUME call \in Calls
  PROVE  /\ call.path \in Path /\ Plain(call.path)
         /\ Len(Walk) \in Nat \ {0}
         /\ \A k \in 1 .. Len(Walk) : Walk[k] \in Path /\ Plain(Walk[k])
         /\ Walk[Len(Walk)] = WalkTo(call)
BY WalkOfIs DEF Walk, WalkOf, WalkTo

\* Whom the client asks is an MDS that serves, or nobody it knows of.
LEMMA FindRouteServes ==
  ASSUME HashIsNat, TreeIInv, ServicesIInv, RoutesOK(Serving, routetable), NEW p \in Path
  PROVE  FindRoute(p) \in Serving \cup {NoRank}
<1>1. CASE strategy # "subtree"
  BY <1>1, OwnerServes DEF FindRoute, TreeIInv, ServicesIInv
<1>2. CASE strategy = "subtree"
  <2> DEFINE known == {k \in 0 .. Len(p) : Prefix(p, k) \in DOMAIN routetable}
             last  == CHOOSE k \in known : \A l \in known : l <= k
  <2>1. CASE known = {}
    BY <1>2, <2>1 DEF FindRoute
  <2>2. CASE known # {}
    <3>1. Len(p) \in Nat /\ known \in SUBSET (0 .. Len(p))
      BY PathParts
    <3>2. FindRoute(p) = routetable[Prefix(p, last)]
      BY <1>2, <2>2 DEF FindRoute
    <3>3. \A k \in known : Prefix(p, k) \in DOMAIN routetable
      OBVIOUS
    <3> HIDE DEF known
    <3>4. \E k \in known : \A l \in known : l <= k
      BY <2>2, <3>1, LastExists
    <3>5. last \in known
      BY <3>4
    <3> QED
      BY <3>2, <3>3, <3>5 DEF RoutesOK
  <2> QED
    BY <2>1, <2>2
<1> QED
  BY <1>1, <1>2

\* The client sends to an MDS that serves, if it knows it.
LEMMA TargetLeads ==
  ASSUME HashIsNat, TreeIInv, ServicesIInv, RoutesOK(Serving, routetable), NEW p \in Path,
         Target(p) # Nil
  PROVE  \E r \in Serving : /\ Target(p) = MdsEntity(r)
                            /\ r = IF FindRoute(p) = NoRank THEN 0 ELSE FindRoute(p)
<1>1. FindRoute(p) \in Serving \cup {NoRank}
  BY FindRouteServes
<1>2. 0 \in Serving /\ Serving \subseteq Ranks /\ NoRank \notin Ranks
  BY ServingLeads
<1>3. CASE FindRoute(p) = NoRank
  BY <1>2, <1>3 DEF Target
<1>4. CASE FindRoute(p) # NoRank
  BY <1>1, <1>4 DEF Target
<1> QED
  BY <1>3, <1>4

\* A request of the client.
LEMMA ClientRequestOK ==
  ASSUME HashIsNat, DataIInv, stack = <<>>, NEW op, NEW p \in Path, NEW name, NEW ino, NEW data,
         RequestOK(DOMAIN heap, MClientRequest(op, p, name, ino, data)),
         SendRequest(op, p, name, ino, data)
  PROVE  FramesOK(DOMAIN heap, Serving, stack')
<1> DEFINE arg == MClientRequest(op, p, name, ino, data)
           e == Target(p)
<1>1. Send(<<>>, Client, e, "CLIENTREQ", arg) /\ service_map' = service_map
  BY DEF SendRequest
<1>2. RevIInv /\ ServicesIInv
  BY DEF DataIInv, AskerIInv, RequestsIInv
<1>3. CASE e = Nil
  BY <1>1, <1>3 DEF Send, FramesOK
<1>4. CASE e # Nil
  <2>1. PICK r \in Serving : e = MdsEntity(r)
    BY <1>2, <1>4, TargetLeads DEF DataIInv
  <2>2. SentOK(DOMAIN heap, Serving, Client, e, "CLIENTREQ", arg)
    <3> SUFFICES ASSUME NEW f, f.type = "CLIENTREQ", f.arg = arg, f.by = Client, f.pc = "call",
                        Waits(Client, e, f)
                 PROVE  FrameOK(DOMAIN heap, Serving, f)
      BY DEF SentOK
    <3>1. f.to = Dispatch(service_map, proc_revmap', MdsEntity(r))
      BY <1>1, <2>1 DEF Waits
    <3>2. f.to = r
      BY <1>2, <3>1, ServingLeads
    <3>3. RequestIn(f) = arg
      BY DEF RequestIn
    <3> HIDE DEF arg
    <3> QED
      BY <3>2, <3>3 DEF FrameOK, arg
  <2> HIDE DEF arg
  <2> QED
    BY <1>1, <1>2, <2>2, ClientSendFramesOK
<1> QED
  BY <1>3, <1>4

\* The request at the top is for the process it is at.
LEMMA TopFrame ==
  ASSUME DataIInv, stack # <<>>
  PROVE  /\ RevIInv /\ ShapeIInv /\ ServicesIInv
         /\ FrameOK(DOMAIN heap, Serving, Top) /\ FrameShape(stack, Len(stack))
         /\ FrameType(Top)
         /\ Top.type \in {"CLIENTREQ", "FORWARD"} => RequestOK(DOMAIN heap, Req)
<1>1. RevIInv /\ ShapeIInv /\ ServicesIInv
  BY DEF DataIInv, AskerIInv, RequestsIInv
<1>2. Len(stack) \in DOMAIN stack /\ FrameShape(stack, Len(stack)) /\ Top = stack[Len(stack)]
  BY <1>1, TopShape
<1>3. FrameOK(DOMAIN heap, Serving, Top)
  BY <1>2 DEF DataIInv, FramesOK
<1> QED
  BY <1>1, <1>2, <1>3 DEF FrameShape, FrameOK, Req

\* The file system only gets more inodes, which stay where they were allocated,
\* and the cluster more ranks.
Growing == /\ TreeIInv' /\ DOMAIN heap \subseteq DOMAIN heap' /\ Kept(heap, heap')
           /\ Serving \subseteq Serving'

\* What leaves the file system alone.
LEMMA SameTreeGrows ==
  ASSUME TreeIInv, UNCHANGED <<strategy, heap, lut, size>>
  PROVE  Growing /\ Serving' = Serving
<1>1. TreeIInv'
  BY DEF TreeIInv, Table, Initial, BuildLut
<1>2. Serving' = Serving
  BY DEF Serving, Active, Initial
<1> QED
  BY <1>1, <1>2 DEF Growing, Kept

\* What changes only the heap.
LEMMA NewTreeGrows ==
  ASSUME TreeIInv, UNCHANGED <<strategy, lut, size>>, NEW g, heap' = g,
         HeapIInv(g), Kept(heap, g), \A i \in DOMAIN g : g[i].name \in Name
  PROVE  Growing /\ Serving' = Serving
<1>1. HeapIInv(heap') /\ \A i \in DOMAIN heap' : heap'[i].name \in Name
  OBVIOUS
<1>2. (HeapIInv(heap))'
  BY <1>1 DEF HeapIInv, IsHeap, IsTree, IsInode, InodeFields, Root, Null
<1>3. TreeIInv'
  BY <1>1, <1>2 DEF TreeIInv, Table, Initial, BuildLut
<1>4. Serving' = Serving
  BY DEF Serving, Active, Initial
<1> QED
  BY <1>3, <1>4 DEF Growing, Kept

\* A request for a new entry, which an allocated inode lists.
LEMMA MutationGrows ==
  ASSUME TreeIInv, NEW i \in DOMAIN heap, UNCHANGED size,
         \/ \E n \in Name, dir \in BOOLEAN : Mutate(AddSub(heap, i, n, dir, NoData))
         \/ Mutate(DeleteMyself(heap, i))
         \/ \E d : Mutate([heap EXCEPT ![i].content = d])
  PROVE  Growing /\ Serving' = Serving
<1>1. HeapIInv(heap) /\ IsHeap(heap) /\ \A j \in DOMAIN heap : heap[j].name \in Name
  BY DEF TreeIInv, HeapIInv
<1>2. UNCHANGED <<strategy, lut, size>>
  BY DEF Mutate
<1>3. ASSUME NEW n \in Name, NEW dir \in BOOLEAN, Mutate(AddSub(heap, i, n, dir, NoData))
      PROVE  Growing /\ Serving' = Serving
  <2> DEFINE g == AddSub(heap, i, n, dir, NoData)
  <2>1. Grows(heap, g, i, n, dir) /\ heap' = g
    BY <1>1, <1>3, AddSubGrows DEF Mutate
  <2> HIDE DEF g
  <2>2. HeapIInv(g)
    BY <1>1, <2>1, GrowthIs
  <2>3. /\ DOMAIN g = 1 .. Len(heap) + 1 /\ DOMAIN heap = 1 .. Len(heap) /\ Len(heap) \in Nat
        /\ \A j \in DOMAIN heap : g[j].name = heap[j].name /\ g[j].parent = heap[j].parent
        /\ g[Len(heap) + 1].name = n
    BY <1>1, <2>1 DEF Grows, IsNew, SameInode, IsHeap
  <2>4. Kept(heap, g) /\ \A j \in DOMAIN g : g[j].name \in Name
    BY <1>1, <2>3 DEF Kept
  <2> QED
    BY <1>2, <2>1, <2>2, <2>4, NewTreeGrows
<1>4. CASE Mutate(DeleteMyself(heap, i))
  <2> DEFINE g == DeleteMyself(heap, i)
  <2>1. heap' = g
    BY <1>4 DEF Mutate
  <2>2. \A j \in DOMAIN heap : g[j].name = heap[j].name /\ g[j].parent = heap[j].parent
    <3>1. CASE heap[i].parent = Null
      BY <3>1 DEF DeleteMyself
    <3>2. CASE heap[i].parent # Null
      <4>1. Shrinks(heap, g, i)
        BY <1>1, <3>2, DeleteShrinks
      <4> QED
        BY <4>1 DEF Shrinks, SameInode
    <3> QED
      BY <3>1, <3>2
  <2>3. HeapIInv(g) /\ DOMAIN g = DOMAIN heap
    BY <1>1, DeleteIs
  <2> HIDE DEF g
  <2>4. Kept(heap, g) /\ \A j \in DOMAIN g : g[j].name \in Name
    BY <1>1, <2>2, <2>3 DEF Kept
  <2> QED
    BY <1>2, <2>1, <2>3, <2>4, NewTreeGrows
<1>5. ASSUME NEW d, Mutate([heap EXCEPT ![i].content = d])
      PROVE  Growing /\ Serving' = Serving
  <2> DEFINE g == [heap EXCEPT ![i].content = d]
  <2>1. heap' = g
    BY <1>5 DEF Mutate
  <2>2. \A j \in DOMAIN heap : g[j].name = heap[j].name /\ g[j].parent = heap[j].parent
    OBVIOUS
  <2>3. HeapIInv(g) /\ DOMAIN g = DOMAIN heap
    BY <1>1, WriteIs
  <2> HIDE DEF g
  <2>4. Kept(heap, g) /\ \A j \in DOMAIN g : g[j].name \in Name
    BY <1>1, <2>2, <2>3 DEF Kept
  <2> QED
    BY <1>2, <2>1, <2>3, <2>4, NewTreeGrows
<1> QED
  BY <1>3, <1>4, <1>5

\* A registration adds a rank.
LEMMA RegisterGrows ==
  ASSUME TreeIInv, ServicesIInv, Register
  PROVE  Growing
<1>1. /\ UNCHANGED <<strategy, heap, lut>> /\ size' = size + 1 /\ size \in Nat
  BY InitialSizeAssumption, MaxRanksAssumption DEF Register, ServicesIInv
<1>2. TreeIInv'
  BY <1>1 DEF TreeIInv, Table, Initial, BuildLut
<1>3. Active \subseteq Active'
  BY <1>1 DEF Active
<1>4. Serving \subseteq Serving'
  BY <1>1, <1>3 DEF Serving, Initial
<1> QED
  BY <1>1, <1>2, <1>4 DEF Growing, Kept

\* The request an MDS executes or goes on with.
LEMMA RequestAtTop ==
  ASSUME DataIInv, NEW r \in Ranks
  PROVE  /\ \A op : Executes(r, op) =>
              stack # <<>> /\ Top.to = r /\ Top.pc = "call" /\ Req.op = op
              /\ Top.type \in {"CLIENTREQ", "FORWARD"} /\ RequestOK(DOMAIN heap, Req)
         /\ \A op : ScanDone(r, op) =>
              stack # <<>> /\ Top.to = r /\ Top.pc = "scan" /\ Req.op = op
              /\ Top.type \in {"CLIENTREQ", "FORWARD"} /\ RequestOK(DOMAIN heap, Req)
<1>1. ASSUME NEW op, Executes(r, op)
      PROVE  /\ stack # <<>> /\ Top.to = r /\ Top.pc = "call" /\ Req.op = op
             /\ Top.type \in {"CLIENTREQ", "FORWARD"}
  BY <1>1 DEF Executes, Asked, Called
<1>2. ASSUME NEW op, ScanDone(r, op)
      PROVE  /\ stack # <<>> /\ Top.to = r /\ Top.pc = "scan" /\ Req.op = op
             /\ Top.type \in {"CLIENTREQ", "FORWARD"}
  <2>1. stack # <<>> /\ Top.pc = "scan" /\ Top.to = r /\ Req.op = op
    BY <1>2 DEF ScanDone, Resumed
  <2>2. FrameType(Top)
    BY <2>1, TopFrame
  <2> QED
    BY <2>1, <2>2 DEF FrameType
<1> QED
  BY <1>1, <1>2, TopFrame

\* A step of an MDS.
LEMMA MdsStepGrows ==
  ASSUME DataIInv, NEW r \in Ranks, MdsStep(r)
  PROVE  Growing /\ Serving' = Serving
<1>0. TreeIInv
  BY DEF DataIInv
<1>1. CASE OpCreate(r)
  <2>1. Executes(r, "CREATE") /\ Mutate(AddSub(heap, Req.ino, Req.name, FALSE, NoData)) /\ UNCHANGED size
    BY <1>1 DEF OpCreate, Mutate
  <2>2. Req.ino \in DOMAIN heap /\ Req.name \in Name
    BY <2>1, RequestAtTop DEF RequestOK
  <2> QED
    BY <1>0, <2>1, <2>2, MutationGrows
<1>2. CASE OpMkdir(r)
  <2>1. CASE Mutate(AddSub(heap, Req.ino, Req.name, TRUE, NoData))
    <3>1. Executes(r, "MKDIR") /\ UNCHANGED size
      BY <1>2, <2>1 DEF OpMkdir, Mutate
    <3>2. Req.ino \in DOMAIN heap /\ Req.name \in Name
      BY <3>1, RequestAtTop DEF RequestOK
    <3> QED
      BY <1>0, <2>1, <3>1, <3>2, MutationGrows
  <2>2. CASE UNCHANGED fsVars
    BY <1>0, <2>2, SameTreeGrows DEF fsVars
  <2> QED
    BY <1>2, <2>1, <2>2 DEF OpMkdir
<1>3. CASE OpWrite(r)
  <2>1. Executes(r, "WRITE") /\ UNCHANGED size /\ \E d : Mutate([heap EXCEPT ![Req.ino].content = d])
    BY <1>3 DEF OpWrite, Mutate
  <2>2. Req.ino \in DOMAIN heap
    BY <2>1, RequestAtTop DEF RequestOK
  <2> QED
    BY <1>0, <2>1, <2>2, MutationGrows
<1>4. CASE OpRm(r)
  <2>1. Executes(r, "RM") /\ UNCHANGED size /\ Mutate(DeleteMyself(heap, Req.ino))
    BY <1>4 DEF OpRm, Mutate
  <2>2. Req.ino \in DOMAIN heap
    BY <2>1, RequestAtTop DEF RequestOK
  <2> QED
    BY <1>0, <2>1, <2>2, MutationGrows
<1>5. CASE EndRmdir(r)
  <2>1. ScanDone(r, "RMDIR") /\ UNCHANGED size /\ Mutate(DeleteMyself(heap, Req.ino))
    BY <1>5 DEF EndRmdir, Mutate
  <2>2. Req.ino \in DOMAIN heap
    BY <2>1, RequestAtTop DEF RequestOK
  <2> QED
    BY <1>0, <2>1, <2>2, MutationGrows
<1>6. CASE \/ Forward(r) \/ OpLookup(r) \/ OpRead(r) \/ OpScan(r) \/ AskSlave(r) \/ SlaveReturns(r)
           \/ EndListdir(r) \/ HandleSlaveRequest(r) \/ HandleSlaveReply(r) \/ FollowsDeleted(r)
  <2>1. UNCHANGED fsVars
    BY <1>6 DEF Forward, OpLookup, OpRead, OpScan, AskSlave, SlaveReturns, EndListdir,
                HandleSlaveRequest, HandleSlaveReply, FollowsDeleted, Undefined
  <2> QED
    BY <1>0, <2>1, SameTreeGrows DEF fsVars
<1> QED
  BY <1>1, <1>2, <1>3, <1>4, <1>5, <1>6 DEF MdsStep

\* Every step.
LEMMA NextGrows ==
  ASSUME DataIInv, [Next]_vars
  PROVE  Growing
<1>1. TreeIInv /\ ServicesIInv
  BY DEF DataIInv, AskerIInv
<1>2. ASSUME UNCHANGED fsVars PROVE Growing
  BY <1>1, <1>2, SameTreeGrows DEF fsVars
<1>3. ASSUME NEW c \in Calls, Begin(c) PROVE Growing
  BY <1>2, <1>3 DEF Begin
<1>4. CASE ClientStep
  BY <1>2, <1>4 DEF ClientStep, LookupCached, LookupRemote, LookupReturns, LooksAtDeleted,
     Answered, Request, RequestReturns, HandleReply, Undefined
<1>5. CASE HandleReturn
  BY <1>2, <1>5 DEF HandleReturn
<1>6. CASE UNCHANGED vars
  BY <1>2, <1>6 DEF vars
<1>7. CASE Register
  BY <1>1, <1>7, RegisterGrows
<1> QED
  BY <1>3, <1>4, <1>5, <1>6, <1>7, MdsStepGrows DEF Next, Step
-----------------------------------------------------------------------------
(***************************************************************************)
(* What each step sends.                                                    *)
(***************************************************************************)

\* The answer to the client, which comes to it.
LEMMA ReplyFramesOK ==
  ASSUME DataIInv, stack # <<>>, Top.type \in {"CLIENTREQ", "FORWARD"}, NEW r \in Ranks, Top.to = r,
         NEW D, DOMAIN heap \subseteq D, NEW ino \in D \cup {Null}, NEW list, NEW data,
         Reply(r, ino, list, data)
  PROVE  FramesOK(D, Serving, stack')
<1> DEFINE arg == MClientRequestReply(r, Req.fullpath, ino, list, data)
           e == stack[1].src
<1>1. /\ RevIInv /\ ShapeIInv /\ ServicesIInv /\ FrameOK(DOMAIN heap, Serving, Top)
      /\ RequestOK(DOMAIN heap, Req)
  BY TopFrame
<1>2. FramesOK(D, Serving, stack)
  BY FramesStayOK DEF DataIInv
<1>3. Send(TopAt("tail"), r, e, "REPLY", arg) /\ service_map' = service_map
  BY <1>1, TopShape DEF Reply
<1>4. r \in Procs /\ r # Client /\ r \in Serving /\ Req.fullpath \in Path
  BY <1>1, RequestProcsAssumption DEF FrameOK, RequestOK
<1>5. KeepsBound(r)
  BY <1>1, <1>3, <1>4, HandlerSends, Zenon
<1>6. Dispatch(service_map', proc_revmap', e) = Client
  <2>1. BoundIn(proc_revmap, stack[1]) /\ FrameShape(stack, 1)
    BY <1>1, TopShape DEF ShapeIInv
  <2>2. /\ e.host \in Hosts /\ e.port >= RevBase /\ stack[1].by = Client
        /\ e.port \in Nat /\ RevBase \in Nat
        /\ e.port \in DOMAIN proc_revmap[e.host] /\ proc_revmap[e.host][e.port] = Client
    BY <2>1, ProcsType, HostsAssumption, RevBaseAssumption DEF BoundIn, FrameShape, RevPorts
  <2>3. e.port \notin DOMAIN service_map[e.host]
    BY <1>1, <2>2, ServicesLead
  <2>4. e.port \in DOMAIN proc_revmap'[e.host] /\ proc_revmap'[e.host][e.port] = Client
    BY <1>4, <1>5, <2>2 DEF KeepsBound
  <2> QED
    BY <1>3, <2>3, <2>4 DEF Dispatch
<1>7. SentOK(D, Serving, r, e, "REPLY", arg)
  <2>1. arg.from = r /\ arg.fullpath = Req.fullpath /\ arg.ino = ino
    BY DEF MClientRequestReply
  <2> HIDE DEF arg, e
  <2> QED
    BY <1>4, <1>6, <2>1 DEF SentOK, Waits, FrameOK
<1> HIDE DEF arg, e
<1> QED
  BY <1>1, <1>2, <1>3, <1>4, <1>7, HandlerSendFramesOK

\* The forward to the MDS the dispatcher names.
LEMMA ForwardFramesOK ==
  ASSUME HashIsNat, DataIInv, NEW r \in Ranks, Forward(r)
  PROVE  FramesOK(DOMAIN heap, Serving, stack')
<1> DEFINE arg == MClientRequestForward(Req, ReplyTo(Top))
           o == OwnerOf(Req.fullpath)
           e == MdsEntity(o)
<1>1. stack # <<>> /\ Top.type \in {"CLIENTREQ", "FORWARD"} /\ Top.to = r
  BY DEF Forward, Asked, Called
<1>2. /\ RevIInv /\ ShapeIInv /\ ServicesIInv /\ FrameOK(DOMAIN heap, Serving, Top)
      /\ RequestOK(DOMAIN heap, Req)
  BY <1>1, TopFrame
<1>3. Send(TopAt("tail"), r, e, "FORWARD", arg) /\ service_map' = service_map
  BY DEF Forward
<1>4. r \in Procs /\ r \in Serving
  BY <1>1, <1>2, RequestProcsAssumption DEF FrameOK
<1>5. o \in Serving
  <2>1. o \in Serving \cup {NoRank}
    BY <1>2, OwnerServes DEF DataIInv, TreeIInv, ServicesIInv, RequestOK
  <2> QED
    BY <2>1 DEF Forward, Mine
<1>6. Dispatch(service_map', proc_revmap', e) = o
  BY <1>2, <1>3, <1>5, ServingLeads
<1>7. SentOK(DOMAIN heap, Serving, r, e, "FORWARD", arg)
  <2>1. arg.req = Req
    BY DEF MClientRequestForward
  <2> HIDE DEF arg, e, o
  <2> QED
    BY <1>2, <1>4, <1>5, <1>6, <2>1 DEF SentOK, Waits, FrameOK, RequestIn
<1> HIDE DEF arg, e, o
<1> QED
  BY <1>1, <1>2, <1>3, <1>4, <1>7, HandlerSendFramesOK DEF DataIInv

\* The question to a slave: the next of the MDSs that are left.
LEMMA AskSlaveFramesOK ==
  ASSUME DataIInv, NEW r \in Ranks, AskSlave(r)
  PROVE  FramesOK(DOMAIN heap, Serving, stack')
<1> DEFINE others == Top.local.others
           local == [Top.local EXCEPT !.others = Tail(@)]
           arg == MMDSSlaveRequest(Req.op, Req.fullpath, Req.ino)
           e == MdsEntity(Head(others))
<1>1. stack # <<>> /\ Top.pc = "scan" /\ Top.to = r /\ others # <<>>
  BY DEF AskSlave, Resumed
<1>2. /\ RevIInv /\ ShapeIInv /\ ServicesIInv /\ FrameOK(DOMAIN heap, Serving, Top) /\ FrameType(Top)
      /\ RequestOK(DOMAIN heap, Req)
  BY <1>1, TopFrame DEF FrameType
<1>3. Send(TopWith("slave", local), r, e, "SLAVEREQ", arg) /\ service_map' = service_map
  BY DEF AskSlave
<1>4. r \in Procs /\ r \in Serving
  BY <1>1, <1>2, RequestProcsAssumption DEF FrameOK, FrameType
<1>5. "others" \in DOMAIN Top.local /\ others \in Seq(Serving \ {r})
  BY <1>1, <1>2 DEF FrameOK, LocalOK
<1>6. Head(others) \in Serving \ {r} /\ Tail(others) \in Seq(Serving \ {r})
  BY <1>1, <1>5, HeadTailProperties
<1>7. LocalOK(Serving, Top.to, local)
  BY <1>1, <1>5, <1>6 DEF LocalOK
<1>8. Dispatch(service_map', proc_revmap', e) = Head(others)
  BY <1>2, <1>3, <1>6, ServingLeads
<1>9. SentOK(DOMAIN heap, Serving, r, e, "SLAVEREQ", arg)
  <2>1. arg.fullpath = Req.fullpath /\ arg.ino = Req.ino
    BY DEF MMDSSlaveRequest
  <2>2. Req.ino \in DOMAIN heap
    BY <1>1, <1>2 DEF RequestOK, FrameOK, Req
  <2> HIDE DEF arg, e, others
  <2> QED
    BY <1>2, <1>4, <1>6, <1>8, <2>1, <2>2 DEF SentOK, Waits, FrameOK, RequestOK
<1> HIDE DEF arg, e, others, local
<1>10. Req.op # "LOOKUP"
  BY <1>1, <1>2 DEF FrameOK, Req
<1> QED
  BY <1>1, <1>2, <1>3, <1>4, <1>7, <1>9, <1>10, HandlerSendFramesOK DEF DataIInv

\* The path of an entry is a path.
LEMMA EntryPath ==
  ASSUME NEW p \in Path, NEW n \in Name
  PROVE  Join(p, n) \in Path
<1>1. <<"", n>> \in Seq(Name)
  <2> DEFINE s == <<"", n>>
  <2>1. DOMAIN s = 1 .. 2 /\ s[1] = "" /\ s[2] = n /\ s = [i \in 1 .. 2 |-> s[i]]
    OBVIOUS
  <2> HIDE DEF s
  <2>2. \A i \in 1 .. 2 : s[i] \in Name
    <3>1. s[1] \in Name /\ s[2] \in Name
      BY <2>1 DEF Name
    <3>2. \A i \in 1 .. 2 : i = 1 \/ i = 2
      OBVIOUS
    <3> QED
      BY <3>1, <3>2
  <2>3. [i \in 1 .. 2 |-> s[i]] \in Seq(Name)
    BY <2>2, IsASeq
  <2> QED
    BY <2>1, <2>3 DEF s
<1>2. Append(p, n) \in Seq(Name)
  BY AppendProperties DEF Path
<1> QED
  BY <1>1, <1>2 DEF Join, Path

\* Those an MDS asks for their part of a directory serve, and are others.
LEMMA OthersServe ==
  ASSUME HashIsNat, TreeIInv, ServicesIInv, NEW r, NEW f, f.fullpath \in Path, f.ino \in DOMAIN heap
  PROVE  Others(r, f) \in Seq(Serving \ {r})
<1> DEFINE others == heap[f.ino].entries \ OwnEntries(r, f)
           Owner(i) == EntryOwner(f.fullpath, i)
           once == {i \in others : \A j \in others : Owner(i) = Owner(j) => i <= j}
           firsts == InOrder(once)
<1>1. /\ heap[f.ino].entries \in SUBSET (DOMAIN heap) /\ IsFiniteSet(heap[f.ino].entries)
      /\ DOMAIN heap \subseteq Nat
  <2>1. /\ DOMAIN heap = 1 .. Len(heap) /\ Len(heap) \in Nat /\ f.ino \in Nat
        /\ heap[f.ino].entries \subseteq f.ino + 1 .. Len(heap)
    BY DEF TreeIInv, HeapIInv, IsHeap
  <2>2. IsFiniteSet(f.ino + 1 .. Len(heap))
    BY <2>1, FS_Interval
  <2> QED
    BY <2>1, <2>2, FS_Subset
<1>2. \A i \in DOMAIN heap : Owner(i) \in Serving \cup {NoRank}
  <2> TAKE i \in DOMAIN heap
  <2>1. Join(f.fullpath, heap[i].name) \in Path
    BY EntryPath DEF TreeIInv
  <2> QED
    BY <2>1, OwnerServes DEF EntryOwner, TreeIInv, ServicesIInv
<1>3. \A i \in others : i \in DOMAIN heap /\ Owner(i) \in Serving \ {r}
  BY <1>1, <1>2 DEF OwnEntries
<1>4. once \in SUBSET Nat /\ once \subseteq heap[f.ino].entries /\ \A i \in once : Owner(i) \in Serving \ {r}
  BY <1>1, <1>3
<1>5. IsFiniteSet(once)
  BY <1>1, <1>4, FS_Subset
<1>6. Others(r, f) = [k \in DOMAIN firsts |-> Owner(firsts[k])]
  BY DEF Others
<1> HIDE DEF once, Owner
<1> DEFINE n == Cardinality(once)
<1>7. firsts \in [1 .. n -> once] /\ n \in Nat
  BY <1>4, <1>5, InOrderIs
<1> HIDE DEF firsts, n
<1>8. Others(r, f) \in [1 .. n -> Serving \ {r}]
  BY <1>4, <1>6, <1>7
<1> QED
  BY <1>7, <1>8, HasLength

\* An answer of a slave comes to its master.
LEMMA SlaveAnswerFramesOK ==
  ASSUME DataIInv, stack # <<>>, Top.type = "SLAVEREQ", Top.pc = "call", NEW r \in Ranks, Top.to = r,
         NEW arg, UNCHANGED service_map, Send(TopAt("tail"), r, Top.src, "SLAVEREPLY", arg)
  PROVE  FramesOK(DOMAIN heap, Serving, stack')
<1> DEFINE e == Top.src
<1>1. /\ RevIInv /\ ShapeIInv /\ ServicesIInv /\ FrameOK(DOMAIN heap, Serving, Top)
      /\ FrameShape(stack, Len(stack))
  BY TopFrame
<1>2. /\ Top.by \in Serving /\ Top.by # r /\ Top.by \in Procs /\ r \in Procs /\ r \in Serving
  BY <1>1, ServingLeads, RequestProcsAssumption DEF FrameOK
<1>3. KeepsBound(r)
  BY <1>1, <1>2, HandlerSends, Zenon
<1>4. Dispatch(service_map', proc_revmap', e) = Top.by
  <2>1. BoundIn(proc_revmap, Top)
    BY DEF DataIInv, AskerIInv, ShapeIInv
  <2>2. /\ e.host \in Hosts /\ e.port >= RevBase
        /\ e.port \in Nat /\ RevBase \in Nat
        /\ e.port \in DOMAIN proc_revmap[e.host] /\ proc_revmap[e.host][e.port] = Top.by
    BY <1>2, <2>1, HostsAssumption, RevBaseAssumption DEF BoundIn, RevPorts
  <2>3. e.port \notin DOMAIN service_map[e.host]
    BY <1>1, <2>2, ServicesLead
  <2>4. e.port \in DOMAIN proc_revmap'[e.host] /\ proc_revmap'[e.host][e.port] = Top.by
    BY <1>2, <1>3, <2>2 DEF KeepsBound
  <2> QED
    BY <2>3, <2>4 DEF Dispatch
<1>5. SentOK(DOMAIN heap, Serving, r, e, "SLAVEREPLY", arg)
  <2> HIDE DEF e
  <2> QED
    BY <1>2, <1>4 DEF SentOK, Waits, FrameOK
<1> HIDE DEF e
<1> QED
  BY <1>1, <1>2, <1>5, HandlerSendFramesOK DEF DataIInv, e

\* A handler that goes on by itself has others left to ask.
LEMMA MoveFramesOK ==
  ASSUME DataIInv, stack # <<>>, NEW local, LocalOK(Serving, Top.to, local), Req.op # "LOOKUP",
         stack' = TopWith("scan", local)
  PROVE  FramesOK(DOMAIN heap, Serving, stack')
<1> DEFINE f == [Top EXCEPT !.pc = "scan", !.local = local]
<1>1. RevIInv /\ ShapeIInv /\ FramesOK(DOMAIN heap, Serving, stack)
  BY TopFrame DEF DataIInv
<1>2. Moved(f, "scan") /\ TopReplaced(stack', f) /\ f.local = local
  BY <1>1, TopMoves, TopIsMoved
<1> HIDE DEF f
<1> QED
  BY <1>1, <1>2, MovedFramesOK

\* A return.
LEMMA ReturnFramesOK ==
  ASSUME DataIInv, stack # <<>>, NEW b, Return(b)
  PROVE  FramesOK(DOMAIN heap, Serving, stack')
BY TopFrame, ReturnKeepsFrames DEF DataIInv

\* A step of an MDS, for the inodes there are after it.
LEMMA MdsStepFramesOK ==
  ASSUME HashIsNat, DataIInv, NEW r \in Ranks, MdsStep(r)
  PROVE  FramesOK(DOMAIN heap', Serving', stack')
<1>0. DOMAIN heap \subseteq DOMAIN heap' /\ Serving' = Serving
  BY MdsStepGrows DEF Growing
<1>00. ASSUME FramesOK(DOMAIN heap, Serving, stack')
       PROVE  FramesOK(DOMAIN heap', Serving', stack')
  BY <1>0, <1>00, FramesStayOK
<1>01. ASSUME NEW op, Executes(r, op) \/ ScanDone(r, op), NEW ino \in DOMAIN heap' \cup {Null},
              NEW list, NEW data, Reply(r, ino, list, data)
       PROVE  FramesOK(DOMAIN heap', Serving', stack')
  <2>1. stack # <<>> /\ Top.to = r /\ Top.type \in {"CLIENTREQ", "FORWARD"}
    BY <1>01, RequestAtTop
  <2> QED
    BY <1>0, <1>01, <2>1, ReplyFramesOK
<1>02. ASSUME NEW op, Executes(r, op), Fail
       PROVE  FramesOK(DOMAIN heap', Serving', stack')
  <2>1. stack # <<>>
    BY <1>02, RequestAtTop
  <2> QED
    BY <1>00, <1>02, <2>1, ReturnFramesOK DEF Fail
<1>1. CASE Forward(r)
  BY <1>00, <1>1, ForwardFramesOK
<1>2. CASE OpLookup(r)
  <2> DEFINE ino == Lookup(heap, Req.fullpath)
  <2>1. Executes(r, "LOOKUP") /\ (Fail \/ Reply(r, ino, <<>>, NoData))
    BY <1>2 DEF OpLookup
  <2>2. Req.fullpath \in Path
    BY <2>1, RequestAtTop DEF RequestOK
  <2>3. ino \in DOMAIN heap \cup {Null}
    BY <2>2, PathParts, LookupIsSound DEF Sound, DataIInv, TreeIInv
  <2> QED
    BY <1>0, <1>01, <1>02, <2>1, <2>3
<1>3. CASE OpCreate(r) \/ OpMkdir(r)
  <2>1. ASSUME NEW op, Executes(r, op), op # "LOOKUP", NEW dir \in BOOLEAN,
               Mutate(AddSub(heap, Req.ino, Req.name, dir, NoData))
        PROVE  NextInode(heap) \in DOMAIN heap'
    <3>1. heap' = AddSub(heap, Req.ino, Req.name, dir, NoData) /\ IsHeap(heap)
      BY <2>1 DEF Mutate, DataIInv, TreeIInv, HeapIInv
    <3>2. Grows(heap, heap', Req.ino, Req.name, dir)
      BY <3>1, AddSubGrows
    <3>3. Len(heap) \in Nat
      BY <3>1 DEF IsHeap
    <3> QED
      BY <3>2, <3>3 DEF Grows, NextInode
  <2>2. CASE OpCreate(r)
    BY <1>01, <2>1, <2>2 DEF OpCreate
  <2>3. CASE OpMkdir(r)
    BY <1>01, <1>02, <2>1, <2>3 DEF OpMkdir
  <2> QED
    BY <1>3, <2>2, <2>3
<1>4. CASE OpRead(r)
  BY <1>01, <1>4 DEF OpRead
<1>5. CASE OpWrite(r)
  BY <1>01, <1>5 DEF OpWrite
<1>6. CASE OpRm(r)
  BY <1>01, <1>6 DEF OpRm
<1>7. CASE OpScan(r)
  <2>1. PICK op : Executes(r, op) /\ op # "LOOKUP"
    BY <1>7 DEF OpScan, ScansDirectory
  <2>2. CASE ~heap[Req.ino].isDir
    BY <1>02, <1>7, <2>1, <2>2 DEF OpScan
  <2>3. CASE heap[Req.ino].isDir
    <3>1. PICK list : stack' = TopWith("scan", [others |-> Others(r, Req), list |-> list])
      BY <1>7, <2>3 DEF OpScan
    <3>2. stack # <<>> /\ Top.to = r /\ Req.fullpath \in Path /\ Req.ino \in DOMAIN heap
      BY <2>1, RequestAtTop DEF RequestOK
    <3>5. Req.op # "LOOKUP"
      BY <2>1, RequestAtTop
    <3>3. Others(r, Req) \in Seq(Serving \ {r})
      BY <3>2, OthersServe DEF DataIInv, AskerIInv
    <3>4. LocalOK(Serving, Top.to, [others |-> Others(r, Req), list |-> list])
      BY <3>2, <3>3 DEF LocalOK
    <3> QED
      BY <1>00, <3>1, <3>2, <3>4, <3>5, MoveFramesOK
  <2> QED
    BY <2>2, <2>3
<1>8. CASE AskSlave(r)
  BY <1>00, <1>8, AskSlaveFramesOK
<1>9. CASE SlaveReturns(r)
  <2>1. stack # <<>> /\ Top.pc = "slave"
    BY <1>9 DEF SlaveReturns, Resumed
  <2>2. CASE ~ret
    BY <1>00, <1>9, <2>1, <2>2, ReturnFramesOK DEF SlaveReturns
  <2>3. CASE ret
    <3>1. LocalOK(Serving, Top.to, Top.local) /\ Req.op # "LOOKUP"
      BY <2>1, TopFrame DEF FrameOK, Req
    <3>2. PICK list : stack' = TopWith("scan", [Top.local EXCEPT !.list = list])
      BY <1>9, <2>3 DEF SlaveReturns
    <3>3. LocalOK(Serving, Top.to, [Top.local EXCEPT !.list = list])
      BY <3>1 DEF LocalOK
    <3> QED
      BY <1>00, <2>1, <3>1, <3>2, <3>3, MoveFramesOK
  <2> QED
    BY <2>2, <2>3
<1>10. CASE EndListdir(r)
  BY <1>01, <1>10 DEF EndListdir
<1>11. CASE EndRmdir(r)
  BY <1>01, <1>11 DEF EndRmdir
<1>12. CASE HandleSlaveRequest(r)
  <2>1. stack # <<>> /\ Top.type = "SLAVEREQ" /\ Top.pc = "call" /\ Top.to = r
    BY <1>12 DEF HandleSlaveRequest, Called
  <2>2. \/ \E b : Return(b)
        \/ UNCHANGED service_map /\ \E arg : Send(TopAt("tail"), r, Top.src, "SLAVEREPLY", arg)
    BY <1>12 DEF HandleSlaveRequest, SlaveOp
  <2> QED
    BY <1>00, <2>1, <2>2, ReturnFramesOK, SlaveAnswerFramesOK
<1>13. CASE HandleSlaveReply(r)
  BY <1>00, <1>13, ReturnFramesOK DEF HandleSlaveReply, Called
<1>14. CASE FollowsDeleted(r)
  BY <1>00, <1>14 DEF FollowsDeleted, Undefined, msgVars, DataIInv
<1> QED
  BY <1>1, <1>2, <1>3, <1>4, <1>5, <1>6, <1>7, <1>8, <1>9, <1>10, <1>11, <1>12, <1>13,
     <1>14 DEF MdsStep
-----------------------------------------------------------------------------
(***************************************************************************)
(* The client's side.                                                       *)
(***************************************************************************)

\* A cache with an entry moved to the front, or put there.
LEMMA FrontStaysOK ==
  ASSUME NEW D, NEW c, CacheOK(D, c), NEW i \in Nat \ {0}, i <= Len(c) + 1,
         i = Len(c) + 1 => Len(c) < CacheSize, NEW x, x.value \in D
  PROVE  CacheOK(D, MovedToFront(c, i, x))
<1> DEFINE n == IF i <= Len(c) THEN Len(c) ELSE i
           d == MovedToFront(c, i, x)
<1>1. /\ Len(c) \in Nat /\ DOMAIN c = 1 .. Len(c) /\ Len(c) <= CacheSize /\ CacheSize \in Nat
      /\ \A j \in 1 .. Len(c) : c[j].value \in D
  BY CacheAssumption DEF CacheOK
<1>2. n \in Nat /\ n <= CacheSize
  BY <1>1
<1>3. d = [j \in 1 .. n |-> IF j = 1 THEN x ELSE IF j <= i THEN c[j - 1] ELSE c[j]]
  BY DEF MovedToFront
<1>4. ASSUME NEW j \in 1 .. n
      PROVE  d[j].value \in D
  <2>1. CASE j = 1
    BY <1>3, <2>1
  <2>2. CASE j # 1 /\ j <= i
    <3>1. j - 1 \in 1 .. Len(c)
      BY <1>1, <2>2
    <3> HIDE DEF n, d
    <3>2. d[j] = c[j - 1]
      BY <1>3, <2>2
    <3> QED
      BY <1>1, <3>1, <3>2
  <2>3. CASE j # 1 /\ ~(j <= i)
    <3>1. j \in 1 .. Len(c)
      BY <1>1, <2>3
    <3> HIDE DEF n, d
    <3>2. d[j] = c[j]
      BY <1>3, <2>3
    <3> QED
      BY <1>1, <3>1, <3>2
  <2> QED
    BY <2>1, <2>2, <2>3
<1> HIDE DEF n, d
<1>5. DOMAIN d = 1 .. n /\ Len(d) = n
  <2>1. d \in [1 .. n -> {d[j] : j \in 1 .. n}]
    BY <1>3
  <2> QED
    BY <1>2, <2>1, HasLength
<1>6. CacheOK(D, d)
  BY <1>2, <1>4, <1>5 DEF CacheOK
<1> QED
  BY <1>6 DEF d

\* get and set.
LEMMA CacheStaysOK ==
  ASSUME NEW D, NEW c, CacheOK(D, c), NEW k
  PROVE  /\ CacheOK(D, LRUGet(c, k))
         /\ \A v \in D : CacheOK(D, LRUSet(c, CacheSize, k, v))
         /\ Cached(c, k) => CachedValue(c, k) \in D
<1>1. /\ Len(c) \in Nat /\ DOMAIN c = 1 .. Len(c) /\ Len(c) <= CacheSize /\ CacheSize \in Nat \ {0}
      /\ \A j \in 1 .. Len(c) : c[j].value \in D
  BY CacheAssumption DEF CacheOK
<1> DEFINE i == PlaceOf(c, k)
<1>2. Cached(c, k) => i \in 1 .. Len(c)
  BY <1>1 DEF Cached, PlaceOf
<1>3. CacheOK(D, LRUGet(c, k))
  <2>1. CASE Cached(c, k)
    <3>1. i \in Nat \ {0} /\ i <= Len(c) + 1 /\ i # Len(c) + 1 /\ c[i].value \in D
      BY <1>1, <1>2, <2>1
    <3>2. CacheOK(D, MovedToFront(c, i, c[i]))
      <4> HIDE DEF i
      <4> QED
        BY <3>1, FrontStaysOK
    <3> QED
      BY <2>1, <3>2 DEF LRUGet
  <2>2. CASE ~Cached(c, k)
    BY <2>2 DEF LRUGet
  <2> QED
    BY <2>1, <2>2
<1>4. ASSUME NEW v \in D
      PROVE  CacheOK(D, LRUSet(c, CacheSize, k, v))
  <2> DEFINE place == IF Cached(c, k) THEN i ELSE IF Len(c) = CacheSize THEN Len(c) ELSE Len(c) + 1
             x == [key |-> k, value |-> v]
  <2>1. place \in Nat \ {0} /\ place <= Len(c) + 1 /\ (place = Len(c) + 1 => Len(c) < CacheSize)
    <3> DEFINE m == Len(c)
    <3>1. m \in Nat /\ m <= CacheSize /\ CacheSize \in Nat \ {0} /\ (Cached(c, k) => i \in 1 .. m)
      BY <1>1, <1>2
    <3> HIDE DEF i, m
    <3>2. CASE Cached(c, k)
      BY <3>1, <3>2 DEF m
    <3>3. CASE ~Cached(c, k)
      BY <3>1, <3>3 DEF m
    <3> QED
      BY <3>2, <3>3
  <2>2. x.value \in D /\ LRUSet(c, CacheSize, k, v) = MovedToFront(c, place, x)
    BY DEF LRUSet
  <2> HIDE DEF place, x
  <2> QED
    BY <2>1, <2>2, FrontStaysOK
<1>5. Cached(c, k) => CachedValue(c, k) \in D
  BY <1>1, <1>2 DEF CachedValue
<1> QED
  BY <1>3, <1>4, <1>5

\* What the client keeps is changed by its look-ups and the answers it gets.
LEMMA OthersKeepClient ==
  ASSUME [Next]_vars
  PROVE  /\ LookupCached \/ HandleReply \/ UNCHANGED cache
         /\ HandleReply \/ UNCHANGED routetable
         /\ ClientStep \/ UNCHANGED callback
         /\ ClientStep \/ (\E c \in Calls : Begin(c)) \/ UNCHANGED callVars
<1>1. ASSUME NEW c \in Calls, Begin(c) PROVE UNCHANGED <<cache, routetable, callback>>
  BY <1>1 DEF Begin, cacheVars
<1>2. ASSUME ClientStep
      PROVE  /\ LookupCached \/ HandleReply \/ UNCHANGED cache
             /\ HandleReply \/ UNCHANGED routetable
  BY <1>2 DEF ClientStep, LookupCached, LookupRemote, LookupReturns, LooksAtDeleted, Answered,
              Request, RequestReturns, Undefined, cacheVars
<1>3. ASSUME NEW r \in Ranks, MdsStep(r)
      PROVE  UNCHANGED <<cache, routetable, callback>> /\ UNCHANGED callVars
  BY <1>3 DEF MdsStep, Forward, OpLookup, OpCreate, OpMkdir, OpRead, OpWrite, OpRm, OpScan,
              AskSlave, SlaveReturns, EndListdir, EndRmdir, HandleSlaveRequest, SlaveOp, HandleSlaveReply,
              FollowsDeleted, Undefined, Reply, Fail, cacheVars
<1>4. ASSUME HandleReturn PROVE UNCHANGED <<cache, routetable, callback>> /\ UNCHANGED callVars
  BY <1>4 DEF HandleReturn, cacheVars
<1>5. ASSUME UNCHANGED vars PROVE UNCHANGED <<cache, routetable, callback>> /\ UNCHANGED callVars
  BY <1>5 DEF vars, cacheVars
<1>6. ASSUME Register PROVE UNCHANGED <<cache, routetable, callback>> /\ UNCHANGED callVars
  BY <1>6 DEF Register, cacheVars
<1> QED
  BY <1>1, <1>2, <1>3, <1>4, <1>5, <1>6 DEF Next, Step

\* The answer a client gets.
LEMMA AnswerIs ==
  ASSUME DataIInv, HandleReply
  PROVE  /\ stack # <<>> /\ Top.arg.ino \in DOMAIN heap \cup {Null} /\ Top.arg.from \in Serving
         /\ Top.arg.fullpath \in Path /\ UNCHANGED <<fsVars, callVars>>
<1>1. stack # <<>> /\ Top.type = "REPLY"
  BY DEF HandleReply, Called
<1> QED
  BY <1>1, TopFrame DEF FrameOK, HandleReply

\* The cache stays what it was.
LEMMA NextKeepsCache ==
  ASSUME DataIInv, [Next]_vars
  PROVE  CacheOK(DOMAIN heap', cache')
<1>0. CacheOK(DOMAIN heap, cache) /\ DOMAIN heap \subseteq DOMAIN heap'
  BY NextGrows DEF DataIInv, Growing
<1>1. ASSUME NEW c, CacheOK(DOMAIN heap, c), cache' = c PROVE CacheOK(DOMAIN heap', cache')
  BY <1>0, <1>1 DEF CacheOK
<1>2. CASE LookupCached
  <2>1. cache' = LRUGet(cache, Walk[client.at])
    BY <1>2 DEF LookupCached
  <2> QED
    BY <1>0, <1>1, <2>1, CacheStaysOK
<1>3. CASE HandleReply
  <2>1. cache' = CacheWith(Top.arg.fullpath, Top.arg.ino) /\ Top.arg.ino \in DOMAIN heap \cup {Null}
    BY <1>3, AnswerIs DEF HandleReply
  <2>2. CacheOK(DOMAIN heap, CacheWith(Top.arg.fullpath, Top.arg.ino))
    BY <1>0, <2>1, CacheStaysOK DEF CacheWith
  <2> QED
    BY <1>1, <2>1, <2>2
<1> QED
  BY <1>0, <1>1, <1>2, <1>3, OthersKeepClient

\* So do its routes.
LEMMA NextKeepsRoutes ==
  ASSUME DataIInv, [Next]_vars
  PROVE  RoutesOK(Serving', routetable')
<1>0. RoutesOK(Serving, routetable) /\ Serving \subseteq Serving'
  BY NextGrows DEF DataIInv, Growing
<1>1. CASE HandleReply
  <2>1. routetable' = RoutesWith(Top.arg.fullpath, Top.arg.from) /\ Top.arg.from \in Serving
    BY <1>1, AnswerIs DEF HandleReply
  <2> QED
    BY <1>0, <2>1 DEF RoutesOK, RoutesWith
<1>2. CASE UNCHANGED routetable
  BY <1>0, <1>2 DEF RoutesOK
<1> QED
  BY <1>1, <1>2, OthersKeepClient

\* And what it was answered.
LEMMA NextKeepsCallback ==
  ASSUME DataIInv, [Next]_vars
  PROVE  CallbackOK(DOMAIN heap', callback')
<1>0. CallbackOK(DOMAIN heap, callback) /\ DOMAIN heap \subseteq DOMAIN heap'
  BY NextGrows DEF DataIInv, Growing
<1>1. CASE UNCHANGED callback
  BY <1>0, <1>1 DEF CallbackOK
<1>2. CASE callback' = [callback EXCEPT !.ino = Null, !.list = <<>>]
  <2>1. DOMAIN callback' = DOMAIN callback
    BY <1>2
  <2>2. "ino" \in DOMAIN callback => callback'.ino = Null
    BY <1>2
  <2> QED
    BY <1>0, <2>1, <2>2 DEF CallbackOK
<1>3. CASE HandleReply
  <2>1. callback' = [ino |-> Top.arg.ino, list |-> callback.list \o Top.arg.list, data |-> Top.arg.data]
    BY <1>3 DEF HandleReply
  <2>2. Top.arg.ino \in DOMAIN heap \cup {Null}
    BY <1>3, AnswerIs
  <2> QED
    BY <1>0, <2>1, <2>2 DEF CallbackOK
<1>4. ASSUME ClientStep
      PROVE  \/ UNCHANGED callback \/ HandleReply
             \/ callback' = [callback EXCEPT !.ino = Null, !.list = <<>>]
  BY <1>4 DEF ClientStep, LookupCached, LookupRemote, LookupReturns, LooksAtDeleted, Answered,
              Request, RequestReturns, Undefined, Found, Finish, SendRequest
<1> QED
  BY <1>1, <1>2, <1>3, <1>4, OthersKeepClient

\* The frames stay good, in all steps.
LEMMA NextKeepsFrames ==
  ASSUME HashIsNat, DataIInv, [Next]_vars
  PROVE  FramesOK(DOMAIN heap', Serving', stack')
<1>1. DOMAIN heap \subseteq DOMAIN heap' /\ Serving \subseteq Serving'
  BY NextGrows DEF Growing
<1>2. ASSUME FramesOK(DOMAIN heap, Serving, stack')
      PROVE  FramesOK(DOMAIN heap', Serving', stack')
  BY <1>1, <1>2, FramesStayOK
<1>3. CASE UNCHANGED stack
  BY <1>2, <1>3 DEF DataIInv
<1>4. CASE LookupRemote
  <2>1. client.pc = "walk" /\ SendRequest("LOOKUP", Walk[client.at], "", Null, NoData)
    BY <1>4 DEF LookupRemote
  <2>2. stack = <<>>
    BY <2>1 DEF DataIInv, AskerIInv, RequestsIInv, ClientWaits
  <2>3. Walk[client.at] \in Path
    BY <2>1, WalkIs DEF DataIInv, WalkIInv
  <2>4. RequestOK(DOMAIN heap, MClientRequest("LOOKUP", Walk[client.at], "", Null, NoData))
    BY <2>3 DEF RequestOK, MClientRequest, Ops, Name
  <2> QED
    BY <1>2, <2>1, <2>2, <2>3, <2>4, ClientRequestOK
<1>5. CASE Request
  <2> DEFINE op == RequestOp[call.op]
             name == IF CreatesEntry(call.op) THEN BaseName(call.path) ELSE ""
  <2>1. /\ client.pc = "found" /\ call.op \in DOMAIN RequestOp
        /\ SendRequest(op, call.path, name, client.ino, call.data)
    BY <1>5 DEF Request
  <2>2. stack = <<>>
    BY <2>1 DEF DataIInv, AskerIInv, RequestsIInv, ClientWaits
  <2>3. call.path \in Path /\ client.ino \in DOMAIN heap
    BY <2>1, WalkIs DEF DataIInv, WalkIInv
  <2>4. op \in Ops /\ name \in Name
    BY <2>1, <2>3, PathParts DEF Ops, Name
  <2> HIDE DEF op, name
  <2>5. RequestOK(DOMAIN heap, MClientRequest(op, call.path, name, client.ino, call.data))
    BY <2>3, <2>4 DEF RequestOK, MClientRequest
  <2> QED
    BY <1>2, <2>1, <2>2, <2>3, <2>5, ClientRequestOK
<1>6. CASE HandleReply
  BY <1>2, <1>6, ReturnFramesOK DEF HandleReply, Called
<1>7. CASE HandleReturn
  BY <1>2, <1>7, ReturnFramesOK DEF HandleReturn, ReturnTail, Resumed
<1>8. \/ UNCHANGED stack \/ LookupRemote \/ Request \/ HandleReply \/ HandleReturn
      \/ \E r \in Ranks : MdsStep(r)
  BY DEF Next, Step, vars, msgVars, Begin, Register, ClientStep, LookupCached, LookupReturns,
         LooksAtDeleted, Answered, RequestReturns, Undefined
<1> QED
  BY <1>3, <1>4, <1>5, <1>6, <1>7, <1>8, MdsStepFramesOK

\* A step of the walk, or its end.
LEMMA FoundKeepsWalk ==
  ASSUME DataIInv, client.pc \in {"walk", "looking"}, NEW ino \in DOMAIN heap, Found(ino), UNCHANGED heap
  PROVE  WalkIInv'
<1>1. /\ call' = call /\ call \in Calls /\ client.at \in 1 .. Len(Walk) /\ Len(Walk) \in Nat \ {0}
      /\ {"pc", "at", "ino"} \subseteq DOMAIN client
  BY WalkIs DEF DataIInv, WalkIInv, Found, callVars
<1>2. Walk' = Walk
  BY <1>1 DEF Walk
<1>3. \/ client.at < Len(Walk) /\ client' = [pc |-> "walk", at |-> client.at + 1, ino |-> ino]
      \/ client' = [pc |-> "found", at |-> client.at, ino |-> ino]
  BY DEF Found
<1>4. CASE client.at < Len(Walk) /\ client' = [pc |-> "walk", at |-> client.at + 1, ino |-> ino]
  <2>1. client.at + 1 \in 1 .. Len(Walk)
    BY <1>1, <1>4
  <2> QED
    BY <1>1, <1>2, <1>4, <2>1 DEF WalkIInv
<1>5. CASE client' = [pc |-> "found", at |-> client.at, ino |-> ino]
  BY <1>1, <1>2, <1>5 DEF WalkIInv
<1> QED
  BY <1>3, <1>4, <1>5

\* The call returns.
LEMMA FinishKeepsWalk == ASSUME NEW b, Finish(b) PROVE WalkIInv'
BY DEF Finish, NotWalking, WalkIInv

\* The client is where its call says.
LEMMA NextKeepsWalk ==
  ASSUME DataIInv, [Next]_vars
  PROVE  WalkIInv'
<1>0. WalkIInv /\ DOMAIN heap \subseteq DOMAIN heap'
  BY NextGrows DEF DataIInv, Growing
<1>1. CASE UNCHANGED callVars
  <2>1. Walk' = Walk
    BY <1>1 DEF callVars, Walk
  <2> QED
    BY <1>0, <1>1, <2>1 DEF WalkIInv, callVars
<1>2. ASSUME NEW c \in Calls, Begin(c) PROVE WalkIInv'
  <2>1. /\ call' = c /\ client' = [client EXCEPT !.pc = "walk", !.at = 1]
        /\ UNCHANGED heap
    BY <1>2 DEF Begin, fsVars
  <2>2. Len(Walk') \in Nat \ {0}
    BY <2>1, WalkOfIs DEF Walk, WalkOf, WalkTo
  <2>3. /\ DOMAIN client' = DOMAIN client
        /\ client'.pc = "walk" /\ client'.at = 1 /\ client'.ino = client.ino
    BY <1>0, <2>1 DEF WalkIInv
  <2> QED
    BY <1>0, <2>1, <2>2, <2>3 DEF WalkIInv
<1>3. CASE LookupCached
  <2>1. client.pc = "walk" /\ Found(CachedValue(cache, Walk[client.at])) /\ UNCHANGED heap
        /\ Cached(cache, Walk[client.at])
    BY <1>3 DEF LookupCached, fsVars
  <2>2. CachedValue(cache, Walk[client.at]) \in DOMAIN heap
    BY <2>1, CacheStaysOK DEF DataIInv
  <2> QED
    BY <2>1, <2>2, FoundKeepsWalk
<1>4. CASE LookupRemote \/ Request
  <2>1. /\ UNCHANGED <<heap, call>> /\ client.pc \in {"walk", "found"}
        /\ \/ client.pc = "walk" /\ client' = [client EXCEPT !.pc = "looking"]
           \/ client.pc = "found" /\ client' = [client EXCEPT !.pc = "asked"]
    BY <1>4 DEF LookupRemote, Request, fsVars
  <2>2. Walk' = Walk
    BY <2>1 DEF Walk
  <2>3. /\ DOMAIN client' = DOMAIN client /\ client'.at = client.at /\ client'.ino = client.ino
        /\ \/ client.pc = "walk" /\ client'.pc = "looking"
           \/ client.pc = "found" /\ client'.pc = "asked"
    BY <1>0, <2>1 DEF WalkIInv
  <2> QED
    BY <1>0, <2>1, <2>2, <2>3 DEF WalkIInv
<1>5. CASE LookupReturns
  <2>1. /\ client.pc = "looking" /\ UNCHANGED heap
        /\ IF callback.ino = Null THEN Finish(FALSE) ELSE Found(callback.ino)
    BY <1>5 DEF LookupReturns, fsVars
  <2>2. callback.ino # Null => callback.ino \in DOMAIN heap
    BY DEF DataIInv, CallbackOK
  <2> QED
    BY <2>1, <2>2, FoundKeepsWalk, FinishKeepsWalk
<1>6. CASE Answered \/ RequestReturns
  BY <1>6, FinishKeepsWalk DEF Answered, RequestReturns
<1>7. CASE LooksAtDeleted \/ HandleReply
  BY <1>1, <1>7 DEF LooksAtDeleted, HandleReply, Undefined
<1> QED
  BY <1>1, <1>2, <1>3, <1>4, <1>5, <1>6, <1>7, OthersKeepClient DEF ClientStep

\* What a send or a handler returns is a Boolean.
LEMMA SendReturnsBoolean ==
  ASSUME NEW caller, NEW p, NEW e, NEW type, NEW arg, Send(caller, p, e, type, arg)
  PROVE  ret' \in BOOLEAN
BY Zenon DEF Send

\* So is that of a return.
LEMMA ReturnIsBoolean == ASSUME NEW b \in BOOLEAN, Return(b) PROVE ret' \in BOOLEAN
BY Zenon DEF Return

\* So is what the program remembers of it.
LEMMA RetIsBoolean ==
  ASSUME Booleans, [Next]_vars
  PROVE  ret' \in BOOLEAN
<1>0. ret \in BOOLEAN /\ TRUE \in BOOLEAN /\ FALSE \in BOOLEAN
  BY Zenon DEF Booleans
<1>1. ASSUME UNCHANGED ret PROVE ret' \in BOOLEAN
  BY <1>0, <1>1, Zenon
<1>2. ASSUME NEW c \in Calls, Begin(c) PROVE UNCHANGED ret
  BY <1>2 DEF Begin, msgVars
<1>3. CASE LookupRemote \/ Request
  BY <1>3, SendReturnsBoolean DEF LookupRemote, Request, SendRequest
<1>4. CASE LookupCached \/ LookupReturns \/ LooksAtDeleted \/ Answered \/ RequestReturns \/ Register
  BY <1>1, <1>4 DEF LookupCached, LookupReturns, LooksAtDeleted, Answered, RequestReturns, Register,
                    Undefined, msgVars
<1>5. CASE HandleReply
  BY <1>0, <1>5, ReturnIsBoolean DEF HandleReply
<1>6. CASE HandleReturn
  BY <1>0, <1>6, ReturnIsBoolean DEF HandleReturn, ReturnTail
<1>7. ASSUME NEW r \in Ranks, MdsStep(r) PROVE ret' \in BOOLEAN
  <2>1. ASSUME NEW ino, NEW list, NEW data, Reply(r, ino, list, data) PROVE ret' \in BOOLEAN
    BY <2>1, SendReturnsBoolean DEF Reply
  <2>2. ASSUME Fail PROVE ret' \in BOOLEAN
    BY <1>0, <2>2, ReturnIsBoolean DEF Fail
  <2>3. CASE Forward(r) \/ AskSlave(r)
    BY <2>3, SendReturnsBoolean DEF Forward, AskSlave
  <2>4. CASE OpLookup(r) \/ OpCreate(r) \/ OpMkdir(r) \/ OpRead(r) \/ OpWrite(r) \/ OpRm(r)
             \/ EndListdir(r) \/ EndRmdir(r)
    BY <2>1, <2>2, <2>4 DEF OpLookup, OpCreate, OpMkdir, OpRead, OpWrite, OpRm, EndListdir, EndRmdir
  <2>5. CASE OpScan(r)
    <3>1. Fail \/ ret' = TRUE
      BY <2>5 DEF OpScan
    <3> QED
      BY <1>0, <2>2, <3>1
  <2>6. CASE SlaveReturns(r)
    <3>1. Return(FALSE) \/ UNCHANGED ret
      BY <2>6 DEF SlaveReturns
    <3> QED
      BY <1>0, <1>1, <3>1, ReturnIsBoolean
  <2>7. CASE HandleSlaveRequest(r)
    <3>1. \/ Return(TRUE) \/ Return(FALSE)
          \/ \E caller, e, type, arg : Send(caller, r, e, type, arg)
      BY <2>7 DEF HandleSlaveRequest, SlaveOp
    <3> QED
      BY <1>0, <3>1, ReturnIsBoolean, SendReturnsBoolean
  <2>8. CASE HandleSlaveReply(r)
    BY <1>0, <2>8, ReturnIsBoolean DEF HandleSlaveReply
  <2>9. CASE FollowsDeleted(r)
    BY <1>1, <2>9 DEF FollowsDeleted, Undefined, msgVars
  <2> QED
    BY <1>7, <2>3, <2>4, <2>5, <2>6, <2>7, <2>8, <2>9 DEF MdsStep
<1>8. CASE UNCHANGED vars
  BY <1>1, <1>8 DEF vars, msgVars
<1> QED
  BY <1>1, <1>2, <1>3, <1>4, <1>5, <1>6, <1>7, <1>8 DEF Next, Step, ClientStep

\* And what a call returns.
LEMMA NextKeepsBooleans ==
  ASSUME DataIInv, [Next]_vars
  PROVE  Booleans'
<1>0. /\ Booleans /\ TRUE \in BOOLEAN /\ FALSE \in BOOLEAN /\ ret \in BOOLEAN
      /\ result \in BOOLEAN /\ ub \in BOOLEAN
  BY Zenon DEF DataIInv, Booleans
<1>1. ub' \in BOOLEAN
  <2>1. UNCHANGED ub \/ ub' = TRUE
    BY DEF Next, Step, vars, Begin, Register, ClientStep, LookupCached, LookupRemote, LookupReturns,
           LooksAtDeleted, Answered, Request, RequestReturns, HandleReply, HandleReturn, Undefined,
           MdsStep, Forward, OpLookup, OpCreate, OpMkdir, OpRead, OpWrite, OpRm, OpScan,
           AskSlave, SlaveReturns, EndListdir, EndRmdir, HandleSlaveRequest, HandleSlaveReply,
           FollowsDeleted
  <2> QED
    BY <1>0, <2>1, Zenon
<1>2. ASSUME NEW b \in BOOLEAN, Finish(b) PROVE result' \in BOOLEAN
  BY <1>2, Zenon DEF Finish
<1>3. ASSUME UNCHANGED result PROVE result' \in BOOLEAN
  BY <1>0, <1>3, Zenon
<1>4. ASSUME Answered PROVE result' \in BOOLEAN
  <2>1. client.ino \in DOMAIN heap
    BY <1>4 DEF Answered, DataIInv, WalkIInv
  <2>2. heap[client.ino].isDir \in BOOLEAN
    BY <2>1, Zenon DEF DataIInv, TreeIInv, HeapIInv, IsHeap, IsInode
  <2>3. (~heap[client.ino].isDir) \in BOOLEAN
    BY Zenon
  <2>4. \E b \in BOOLEAN : Finish(b)
    BY <1>0, <1>4, <2>2, <2>3, Zenon DEF Answered
  <2> QED
    BY <1>2, <2>4
<1>5. ASSUME LookupReturns PROVE result' \in BOOLEAN
  <2>1. Finish(FALSE) \/ UNCHANGED result
    BY <1>5 DEF LookupReturns, Found
  <2> QED
    BY <1>0, <1>2, <1>3, <2>1
<1>6. ASSUME RequestReturns PROVE result' \in BOOLEAN
  BY <1>0, <1>2, <1>6 DEF RequestReturns
<1>7. ASSUME LookupCached \/ LookupRemote \/ Request \/ LooksAtDeleted \/ HandleReply
      PROVE  result' \in BOOLEAN
  BY <1>3, <1>7 DEF LookupCached, Found, LookupRemote, Request, LooksAtDeleted, HandleReply,
                    Undefined, callVars
<1>8. ASSUME NEW c \in Calls, Begin(c) PROVE UNCHANGED result
  BY <1>8 DEF Begin
<1>9. result' \in BOOLEAN
  BY <1>3, <1>4, <1>5, <1>6, <1>7, <1>8, OthersKeepClient DEF ClientStep, callVars
<1> QED
  BY <1>0, <1>1, <1>9, RetIsBoolean, Zenon DEF Booleans

\* All of it holds together.
LEMMA NextKeepsData ==
  ASSUME HashIsNat, DataIInv, [Next]_vars
  PROVE  DataIInv'
<1>1. AskerIInv' /\ TreeIInv'
  BY NextKeepsAsker, NextGrows DEF DataIInv, Growing
<1>2. (FramesOK(DOMAIN heap, Serving, stack))'
  BY NextKeepsFrames DEF FramesOK, FrameOK, RequestOK, RequestIn, LocalOK, Null, Ops
<1>3. (CacheOK(DOMAIN heap, cache))' /\ (RoutesOK(Serving, routetable))'
      /\ (CallbackOK(DOMAIN heap, callback))'
  BY NextKeepsCache, NextKeepsRoutes, NextKeepsCallback DEF CacheOK, RoutesOK, CallbackOK, Null
<1> QED
  BY <1>1, <1>2, <1>3, NextKeepsWalk, NextKeepsBooleans DEF DataIInv

\* At first there is the root, the table of the MDSs there are, and no call.
LEMMA InitData == Init => DataIInv
<1> SUFFICES ASSUME Init PROVE DataIInv
  OBVIOUS
<1>1. AskerIInv
  BY InitAsker
<1>2. TreeIInv
  <2>1. strategy \in Strategies /\ lut = Table
    BY DEF Init, Table, Active, Initial
  <2>2. heap = NewHeap(NoData) /\ HeapIInv(heap)
    BY NewHeapIs DEF Init
  <2>3. DOMAIN heap = {1} /\ heap[1].name = "/"
    BY <2>2 DEF NewHeap, Inode
  <2> QED
    BY <2>1, <2>2, <2>3 DEF TreeIInv, Name
<1>3. WalkIInv
  BY DEF Init, NotWalking, WalkIInv
<1>4. Booleans
  BY Zenon DEF Init, MessagingInit, Booleans
<1>5. FramesOK(DOMAIN heap, Serving, stack)
  BY DEF Init, MessagingInit, FramesOK
<1>6. CacheOK(DOMAIN heap, cache) /\ RoutesOK(Serving, routetable)
  <2>1. cache = <<>> /\ routetable = <<>> /\ Len(<<>>) = 0 /\ CacheSize \in Nat
    BY EmptySeq, CacheAssumption DEF Init
  <2> QED
    BY <2>1 DEF CacheOK, RoutesOK
<1>7. CallbackOK(DOMAIN heap, callback)
  BY DEF Init, NoCallback, CallbackOK
<1> QED
  BY <1>1, <1>2, <1>3, <1>4, <1>5, <1>6, <1>7 DEF DataIInv

\* The tables of ports bind ports of their range to processes.
LEMMA TablesHaveTypes ==
  ASSUME DataIInv, NEW h \in Hosts
  PROVE  IsPortTable(service_map[h], 0, Ranks) /\ IsPortTable(proc_revmap[h], RevBase, Procs)
<1>1. ServicesIInv /\ RevIInv /\ ShapeIInv
  BY DEF DataIInv, AskerIInv, RequestsIInv
<1>2. Active \subseteq Ranks /\ size \in Nat \ {0}
  BY <1>1, ActiveRanks DEF ServicesIInv
<1>3. IsPortTable(service_map[h], 0, Ranks)
  <2>1. IsFiniteSet(Active)
    BY <1>2, FS_Interval DEF Active
  <2>2. IsFiniteSet({MdsEntity(r).port : r \in Active})
    <3> DEFINE ports == {MdsEntity(r).port : r \in Active}
               port == [r \in Active |-> MdsEntity(r).port]
    <3>1. port \in Surjection(Active, ports)
      BY DEF Surjection
    <3> QED
      BY <2>1, <3>1, FS_Surjection
  <2>3. ASSUME NEW p \in DOMAIN service_map[h]
        PROVE  /\ p \in {MdsEntity(r).port : r \in Active}
               /\ p \in Int /\ p >= 0 /\ service_map[h][p] \in Ranks
    <3>1. PICK r \in Active : MdsEntity(r) = Entity(h, p)
      BY <1>1 DEF ServicesIInv
    <3>2. MdsEntity(r).host = h /\ MdsEntity(r).port = p
      BY <3>1 DEF Entity
    <3>3. service_map[h][p] = r
      BY <1>1, <3>2 DEF ServicesIInv
    <3>4. MdsEntity(r).port \in Nat
      <4>1. MdsEntity(r).port = Cardinality(Earlier(r))
        BY DEF MdsEntity, Entity, Earlier
      <4> QED
        BY <1>2, <4>1, EarlierAreFinite, FS_CardinalityType
    <3> QED
      BY <1>2, <3>1, <3>2, <3>3, <3>4
  <2>4. IsFiniteSet(DOMAIN service_map[h])
    BY <2>2, <2>3, FS_Subset
  <2> QED
    BY <1>1, <2>3, <2>4 DEF IsPortTable, ServicesIInv
<1>4. IsPortTable(proc_revmap[h], RevBase, Procs)
  <2>1. ASSUME NEW i \in DOMAIN proc_revmap[h]
        PROVE  proc_revmap[h][i] \in Procs
    <3>1. PICK k \in DOMAIN stack : stack[k].by = proc_revmap[h][i]
      BY <1>1 DEF RevIInv, RevPortOwners
    <3>2. FrameShape(stack, k)
      BY <1>1 DEF ShapeIInv
    <3> QED
      BY <3>1, <3>2, ProcsType DEF FrameShape
  <2> QED
    BY <1>1, <2>1 DEF IsPortTable, RevIInv, RevTables, RevPorts
<1> QED
  BY <1>3, <1>4

\* The state has the types it should have.
LEMMA DataHasTypes == DataIInv => TypeOK
<1> SUFFICES ASSUME DataIInv PROVE TypeOK
  OBVIOUS
<1>1. /\ ServicesIInv /\ ShapeIInv /\ TreeIInv /\ WalkIInv /\ FramesOK(DOMAIN heap, Serving, stack)
      /\ CacheOK(DOMAIN heap, cache) /\ RoutesOK(Serving, routetable)
  BY DEF DataIInv, AskerIInv, RequestsIInv
<1>2. Serving \subseteq Ranks
  BY <1>1, ServingLeads
<1>3. ASSUME NEW h \in Hosts
      PROVE  IsPortTable(service_map[h], 0, Ranks) /\ IsPortTable(proc_revmap[h], RevBase, Procs)
  BY TablesHaveTypes
<1>4. \A i \in DOMAIN heap : heap[i].entries \subseteq InodesOf(heap)
  <2> SUFFICES ASSUME NEW i \in DOMAIN heap PROVE heap[i].entries \subseteq DOMAIN heap
    BY DEF InodesOf
  <2>1. /\ Len(heap) \in Nat /\ DOMAIN heap = 1 .. Len(heap)
        /\ heap[i].entries \subseteq i + 1 .. Len(heap) /\ i \in Nat
    BY <1>1 DEF TreeIInv, HeapIInv, IsHeap
  <2> QED
    BY <2>1
<1>5. ASSUME NEW k \in DOMAIN stack, NEW f, f = stack[k]
      PROVE  CASE f.type = "CLIENTREQ"  -> f.by = Client /\ f.to \in Ranks /\ RequestType(f.arg)
               [] f.type = "FORWARD"    -> {f.by, f.to} \subseteq Ranks /\ RequestType(f.arg.req)
               [] f.type = "REPLY"      -> f.by \in Ranks /\ f.to = Client /\ f.arg.from = f.by
               [] f.type = "SLAVEREQ"   -> {f.by, f.to} \subseteq Ranks /\ f.by # f.to
               [] f.type = "SLAVEREPLY" -> {f.by, f.to} \subseteq Ranks
  <2>1. FrameShape(stack, k) /\ FrameOK(DOMAIN heap, Serving, f)
    BY <1>1, <1>5 DEF ShapeIInv, FramesOK
  <2>2. \A m : RequestOK(DOMAIN heap, m) => RequestType(m)
    BY DEF RequestOK, RequestType, Ops, InodesOf
  <2> QED
    BY <1>2, <1>5, <2>1, <2>2 DEF FrameShape, FrameOK, RequestIn
<1>6. {result, ub} \subseteq BOOLEAN
  BY Zenon DEF DataIInv, Booleans
<1>7. strategy \in Strategies /\ size \in InitialSize .. MaxRanks
  BY <1>1 DEF TreeIInv, ServicesIInv
<1>8. /\ Len(cache) <= CacheSize /\ \A i \in DOMAIN cache : cache[i].value \in InodesOf(heap)
      /\ \A p \in DOMAIN routetable : routetable[p] \in Ranks
  BY <1>1, <1>2 DEF CacheOK, RoutesOK, InodesOf
<1>9. /\ client.pc \in {"idle", "walk", "looking", "found", "asked"}
      /\ client.ino \in InodesOf(heap) \cup {Null}
      /\ call = Nil <=> client.pc = "idle"
  BY <1>1, CallsAssumption DEF WalkIInv, InodesOf
<1>10. \A k \in DOMAIN stack :
         LET f == stack[k]
         IN CASE f.type = "CLIENTREQ"  -> f.by = Client /\ f.to \in Ranks /\ RequestType(f.arg)
              [] f.type = "FORWARD"    -> {f.by, f.to} \subseteq Ranks /\ RequestType(f.arg.req)
              [] f.type = "REPLY"      -> f.by \in Ranks /\ f.to = Client /\ f.arg.from = f.by
              [] f.type = "SLAVEREQ"   -> {f.by, f.to} \subseteq Ranks /\ f.by # f.to
              [] f.type = "SLAVEREPLY" -> {f.by, f.to} \subseteq Ranks
  BY <1>5
<1> QED
  BY <1>3, <1>4, <1>6, <1>7, <1>8, <1>9, <1>10, Zenon DEF TypeOK

\* Every variable has its type, and a message carries what its type says: no
\* MDS is sent an inode that was never allocated, none asks itself for its
\* part of a directory, and an answer names the MDS it is from.
THEOREM TypesHold ==
  ASSUME HashIsNat
  PROVE  Spec => []TypeOK
<1>1. DataIInv /\ [Next]_vars => DataIInv'
  BY NextKeepsData
<1> QED
  BY <1>1, InitData, DataHasTypes, PTL DEF Spec

\* The ranks that serve are all in the table, unless paths are hashed.
LEMMA LateRanksIdle == DataIInv => LateRanksAreIdle
<1> SUFFICES ASSUME DataIInv, strategy # "hashing", NEW k \in DOMAIN stack, stack[k].to # Client
             PROVE  \E i \in DOMAIN lut : stack[k].to \in ToSet(lut[i])
  BY DEF LateRanksAreIdle
<1>1. FrameOK(DOMAIN heap, Serving, stack[k]) /\ lut = Table /\ Serving = Initial
  BY DEF DataIInv, FramesOK, TreeIInv, Serving
<1>2. stack[k].to \in Initial
  BY <1>1 DEF FrameOK
<1> QED
  BY <1>1, <1>2, TableLists

\* An MDS that has registered after the dispatchers were created is never sent
\* anything, unless paths are hashed.
THEOREM LateRanksStayIdle ==
  ASSUME HashIsNat
  PROVE  Spec => []LateRanksAreIdle
<1>1. DataIInv /\ [Next]_vars => DataIInv'
  BY NextKeepsData
<1> QED
  BY <1>1, InitData, LateRanksIdle, PTL DEF Spec
-----------------------------------------------------------------------------
(***************************************************************************)
(* What a step of an MDS does to the stack.                                 *)
(***************************************************************************)

\* Its handler goes on, as frame f; one that sends waits for the end of it.
GoesOn(r, f) ==
  /\ Moved(f, f.pc)
  /\ \/ f.pc = "tail"
     \/ f.pc = "scan" /\ OpScan(r) /\ f.local.others = Others(r, Req)
     \/ f.pc = "scan" /\ SlaveReturns(r) /\ f.local.others = Top.local.others
     \/ f.pc = "slave" /\ AskSlave(r) /\ f.local.others = Tail(Top.local.others)

\* The inode of an answer is none, one that was looked up or a new one.
Answers(ino) ==
  \/ ino = Null \/ Req.op = "LOOKUP"
  \/ /\ Req.op \in {"CREATE", "MKDIR"} /\ ino = NextInode(heap)
     /\ \E dir \in BOOLEAN : heap' = AddSub(heap, Req.ino, Req.name, dir, NoData)

\* It has sent g.
SentBy(r, g) ==
  /\ g.pc = "call" /\ g.by = r
  /\ \/ Forward(r) /\ g.type = "FORWARD" /\ g.arg.req = Req /\ g.to = OwnerOf(Req.fullpath)
     \/ /\ AskSlave(r) /\ g.type = "SLAVEREQ" /\ g.to = Head(Top.local.others)
        /\ g.arg.fullpath = Req.fullpath /\ g.arg.ino = Req.ino
     \/ HandleSlaveRequest(r) /\ g.type = "SLAVEREPLY"
     \/ /\ g.type = "REPLY" /\ Top.type \in {"CLIENTREQ", "FORWARD"}
        /\ g.arg.from = r /\ g.arg.fullpath = Req.fullpath /\ Answers(g.arg.ino)
        /\ Req.op = "LOOKUP" => g.arg.ino = Lookup(heap, Req.fullpath)

\* The top frame is f now, with g on top of it.
Nests(f, g) ==
  /\ Len(stack) \in Nat \ {0} /\ DOMAIN stack = 1 .. Len(stack)
  /\ Len(stack') = Len(stack) + 1 /\ DOMAIN stack' = 1 .. Len(stack) + 1
  /\ \A k \in 1 .. Len(stack) - 1 : stack'[k] = stack[k]
  /\ stack'[Len(stack)] = f /\ stack'[Len(stack) + 1] = g

StackStep(r) ==
  \/ \E b : Return(b)
  \/ \E f : TopReplaced(stack', f) /\ GoesOn(r, f)
  \/ \E f, g : Nests(f, g) /\ GoesOn(r, f) /\ f.pc # "scan" /\ SentBy(r, g)

\* A send is such a step.
LEMMA SendStackStep ==
  ASSUME RevIInv, ShapeIInv, stack # <<>>, NEW pc \in {"tail", "slave"}, NEW local,
         NEW r \in Ranks, NEW e, NEW type, NEW arg,
         \/ Send(TopAt(pc), r, e, type, arg) /\ local = Top.local
         \/ Send(TopWith(pc, local), r, e, type, arg),
         \A f : Moved(f, pc) /\ f.local = local => GoesOn(r, f),
         \A g : /\ g.type = type /\ g.arg = arg /\ g.by = r /\ g.pc = "call"
                /\ g.to = Dispatch(service_map', proc_revmap', e)
                => SentBy(r, g)
  PROVE  StackStep(r)
<1>1. r \in Procs
  BY ProcsType
<1>2. \/ \E f : TopReplaced(stack', f) /\ Moved(f, pc) /\ f.local = local
      \/ Nested(r, e, type, arg, pc, local)
  BY <1>1, HandlerSends, Zenon
<1>3. CASE \E f : TopReplaced(stack', f) /\ Moved(f, pc) /\ f.local = local
  BY <1>3 DEF StackStep
<1>4. CASE Nested(r, e, type, arg, pc, local)
  <2> DEFINE f == stack'[Len(stack)]
             g == stack'[Len(stack) + 1]
  <2>1. GoesOn(r, f) /\ f.pc = pc
    BY <1>4 DEF Nested, Moved
  <2>2. SentBy(r, g)
    BY <1>4 DEF Nested, Waits
  <2>3. Nests(f, g)
    BY <1>4, TopShape DEF Nested, Nests
  <2> HIDE DEF f, g
  <2> QED
    BY <2>1, <2>2, <2>3 DEF StackStep
<1> QED
  BY <1>2, <1>3, <1>4

\* A handler that waits for the end of its send has nothing left to do.
LEMMA TailGoesOn ==
  ASSUME NEW r, NEW f, Moved(f, "tail")
  PROVE  GoesOn(r, f)
BY DEF GoesOn, Moved

\* So is the answer to the client,
LEMMA ReplyStackStep ==
  ASSUME RevIInv, ShapeIInv, stack # <<>>, Top.type \in {"CLIENTREQ", "FORWARD"}, NEW r \in Ranks,
         NEW ino, NEW list, NEW data, Reply(r, ino, list, data), Answers(ino),
         Req.op = "LOOKUP" => ino = Lookup(heap, Req.fullpath)
  PROVE  StackStep(r)
<1> DEFINE arg == MClientRequestReply(r, Req.fullpath, ino, list, data)
<1>1. Send(TopAt("tail"), r, ReplyTo(Top), "REPLY", arg)
  BY DEF Reply
<1>2. arg.from = r /\ arg.fullpath = Req.fullpath /\ arg.ino = ino
  BY DEF MClientRequestReply
<1> HIDE DEF arg
<1>3. \A g : g.type = "REPLY" /\ g.arg = arg /\ g.by = r /\ g.pc = "call" => SentBy(r, g)
  BY <1>2 DEF SentBy
<1> QED
  BY <1>1, <1>3, TailGoesOn, SendStackStep

\* the forward to the MDS the dispatcher names,
LEMMA ForwardStackStep ==
  ASSUME HashIsNat, DataIInv, NEW r \in Ranks, Forward(r)
  PROVE  StackStep(r)
<1> DEFINE arg == MClientRequestForward(Req, ReplyTo(Top))
           o == OwnerOf(Req.fullpath)
           e == MdsEntity(o)
<1>1. stack # <<>> /\ Top.type \in {"CLIENTREQ", "FORWARD"}
  BY DEF Forward, Asked, Called
<1>2. RevIInv /\ ShapeIInv /\ ServicesIInv /\ RequestOK(DOMAIN heap, Req)
  BY <1>1, TopFrame
<1>3. Send(TopAt("tail"), r, e, "FORWARD", arg) /\ service_map' = service_map
  BY DEF Forward
<1>4. o \in Serving
  <2>1. o \in Serving \cup {NoRank}
    BY <1>2, OwnerServes DEF DataIInv, TreeIInv, ServicesIInv, RequestOK
  <2> QED
    BY <2>1 DEF Forward, Mine
<1>5. Dispatch(service_map', proc_revmap', e) = o
  BY <1>2, <1>3, <1>4, ServingLeads
<1>6. arg.req = Req
  BY DEF MClientRequestForward
<1> HIDE DEF arg, e
<1>7. \A g : /\ g.type = "FORWARD" /\ g.arg = arg /\ g.by = r /\ g.pc = "call"
             /\ g.to = Dispatch(service_map', proc_revmap', e)
             => SentBy(r, g)
  BY <1>5, <1>6 DEF SentBy
<1> QED
  BY <1>1, <1>2, <1>3, <1>7, TailGoesOn, SendStackStep

\* the question to the next MDS that has a part of the directory,
LEMMA AskStackStep ==
  ASSUME DataIInv, NEW r \in Ranks, AskSlave(r)
  PROVE  StackStep(r)
<1> DEFINE others == Top.local.others
           local == [Top.local EXCEPT !.others = Tail(@)]
           arg == MMDSSlaveRequest(Req.op, Req.fullpath, Req.ino)
           e == MdsEntity(Head(others))
<1>1. stack # <<>> /\ Top.pc = "scan" /\ Top.to = r /\ others # <<>>
  BY DEF AskSlave, Resumed
<1>2. /\ RevIInv /\ ShapeIInv /\ ServicesIInv /\ FrameOK(DOMAIN heap, Serving, Top)
  BY <1>1, TopFrame
<1>3. Send(TopWith("slave", local), r, e, "SLAVEREQ", arg) /\ service_map' = service_map
  BY DEF AskSlave
<1>4. "others" \in DOMAIN Top.local /\ others \in Seq(Serving \ {r})
  BY <1>1, <1>2 DEF FrameOK, LocalOK
<1>5. Head(others) \in Serving
  BY <1>1, <1>4, HeadTailProperties
<1>6. Dispatch(service_map', proc_revmap', e) = Head(others)
  BY <1>2, <1>3, <1>5, ServingLeads
<1>7. arg.fullpath = Req.fullpath /\ arg.ino = Req.ino
  BY DEF MMDSSlaveRequest
<1>8. local.others = Tail(others)
  BY <1>4
<1> HIDE DEF arg, e, local
<1>9. \A f : Moved(f, "slave") /\ f.local = local => GoesOn(r, f)
  BY <1>8 DEF GoesOn, Moved
<1>10. \A g : /\ g.type = "SLAVEREQ" /\ g.arg = arg /\ g.by = r /\ g.pc = "call"
              /\ g.to = Dispatch(service_map', proc_revmap', e)
              => SentBy(r, g)
  BY <1>6, <1>7 DEF SentBy
<1> QED
  BY <1>1, <1>2, <1>3, <1>9, <1>10, SendStackStep

\* and what a handler keeps for itself.
LEMMA ScanStackStep ==
  ASSUME RevIInv, ShapeIInv, stack # <<>>, NEW r, NEW local, stack' = TopWith("scan", local),
         \/ OpScan(r) /\ local.others = Others(r, Req)
         \/ SlaveReturns(r) /\ local.others = Top.local.others
  PROVE  StackStep(r)
<1> DEFINE f == [Top EXCEPT !.pc = "scan", !.local = local]
<1>1. TopReplaced(stack', f) /\ Moved(f, "scan") /\ f.local = local
  BY TopMoves, TopIsMoved
<1> HIDE DEF f
<1>2. GoesOn(r, f)
  BY <1>1 DEF GoesOn, Moved
<1> QED
  BY <1>1, <1>2 DEF StackStep

\* Every step of an MDS is one of its handler, at the top.
LEMMA MdsStepIsAtTop ==
  ASSUME DataIInv, NEW r \in Ranks, MdsStep(r)
  PROVE  stack # <<>> /\ Top.to = r
BY DEF MdsStep, Forward, OpLookup, OpCreate, OpMkdir, OpRead, OpWrite, OpRm, OpScan,
       AskSlave, SlaveReturns, EndListdir, EndRmdir, HandleSlaveRequest, HandleSlaveReply,
       FollowsDeleted, Executes, Asked, ScansDirectory, ScanDone, Called, Resumed

\* It does that to the stack, or follows a deleted inode.
LEMMA MdsStackStep ==
  ASSUME HashIsNat, DataIInv, NEW r \in Ranks, MdsStep(r)
  PROVE  StackStep(r) \/ (FollowsDeleted(r) /\ UNCHANGED stack)
<1>0. RevIInv /\ ShapeIInv /\ stack # <<>>
  BY MdsStepIsAtTop DEF DataIInv, AskerIInv, RequestsIInv
<1>01. ASSUME Fail PROVE StackStep(r)
  BY <1>01 DEF Fail, StackStep
<1>02. ASSUME NEW op, Executes(r, op) \/ ScanDone(r, op), op # "LOOKUP",
              NEW ino, NEW list, NEW data, Reply(r, ino, list, data), Answers(ino)
       PROVE  StackStep(r)
  <2>1. Top.type \in {"CLIENTREQ", "FORWARD"} /\ Req.op = op
    BY <1>02, RequestAtTop
  <2> QED
    BY <1>0, <1>02, <2>1, ReplyStackStep
<1>1. CASE Forward(r)
  BY <1>1, ForwardStackStep
<1>2. CASE OpLookup(r)
  <2> DEFINE ino == Lookup(heap, Req.fullpath)
  <2>1. Executes(r, "LOOKUP") /\ (Fail \/ Reply(r, ino, <<>>, NoData))
    BY <1>2 DEF OpLookup
  <2>2. Top.type \in {"CLIENTREQ", "FORWARD"} /\ Answers(ino)
    BY <2>1, RequestAtTop DEF Answers
  <2> QED
    BY <1>0, <1>01, <2>1, <2>2, ReplyStackStep
<1>3. CASE OpCreate(r)
  <2>1. /\ Executes(r, "CREATE") /\ Reply(r, NextInode(heap), <<>>, NoData)
        /\ heap' = AddSub(heap, Req.ino, Req.name, FALSE, NoData)
    BY <1>3 DEF OpCreate, Mutate
  <2>2. Req.op = "CREATE"
    BY <2>1, RequestAtTop
  <2>3. Answers(NextInode(heap))
    BY <2>1, <2>2 DEF Answers
  <2> QED
    BY <1>02, <2>1, <2>3
<1>4. CASE OpMkdir(r)
  <2>1. Executes(r, "MKDIR")
    BY <1>4 DEF OpMkdir
  <2>2. Req.op = "MKDIR"
    BY <2>1, RequestAtTop
  <2>3. ASSUME heap' = AddSub(heap, Req.ino, Req.name, TRUE, NoData) PROVE Answers(NextInode(heap))
    BY <2>2, <2>3 DEF Answers
  <2>4. \/ Fail
        \/ heap' = AddSub(heap, Req.ino, Req.name, TRUE, NoData) /\ Reply(r, NextInode(heap), <<>>, NoData)
    BY <1>4 DEF OpMkdir, Mutate
  <2> QED
    BY <1>01, <1>02, <2>1, <2>3, <2>4
<1>5. CASE OpRead(r)
  <2>1. Executes(r, "READ") /\ \E list, data : Reply(r, Null, list, data)
    BY <1>5 DEF OpRead
  <2> QED
    BY <1>02, <2>1 DEF Answers
<1>6. CASE OpWrite(r)
  <2>1. Executes(r, "WRITE") /\ \E list, data : Reply(r, Null, list, data)
    BY <1>6 DEF OpWrite
  <2> QED
    BY <1>02, <2>1 DEF Answers
<1>7. CASE OpRm(r)
  <2>1. Executes(r, "RM") /\ \E list, data : Reply(r, Null, list, data)
    BY <1>7 DEF OpRm
  <2> QED
    BY <1>02, <2>1 DEF Answers
<1>8. CASE OpScan(r)
  <2>1. \/ Fail
        \/ \E local : stack' = TopWith("scan", local) /\ local.others = Others(r, Req)
    <3>1. \/ Fail
          \/ stack' = TopWith("scan", [others |-> Others(r, Req), list |-> InOrder(OwnEntries(r, Req))])
      BY <1>8 DEF OpScan
    <3>2. [others |-> Others(r, Req), list |-> InOrder(OwnEntries(r, Req))].others = Others(r, Req)
      OBVIOUS
    <3> QED
      BY <3>1, <3>2
  <2> QED
    BY <1>0, <1>01, <1>8, <2>1, ScanStackStep
<1>9. CASE AskSlave(r)
  BY <1>9, AskStackStep
<1>10. CASE SlaveReturns(r)
  <2>1. \/ Return(FALSE)
        \/ \E local : stack' = TopWith("scan", local) /\ local.others = Top.local.others
    <3> DEFINE list == IF Req.op = "LISTDIR" THEN Top.local.list \o callback_inolist[r] ELSE Top.local.list
               local == [Top.local EXCEPT !.list = list]
    <3>1. \/ Return(FALSE)
          \/ stack' = TopWith("scan", local)
      BY <1>10 DEF SlaveReturns
    <3>2. "others" \in DOMAIN Top.local
      BY <1>0, <1>10, TopFrame DEF SlaveReturns, Resumed, FrameOK, LocalOK
    <3>3. local.others = Top.local.others
      BY <3>2
    <3> QED
      BY <3>1, <3>3
  <2> QED
    BY <1>0, <1>10, <2>1, ScanStackStep DEF StackStep
<1>11. CASE EndListdir(r)
  <2>1. ScanDone(r, "LISTDIR") /\ \E list, data : Reply(r, Null, list, data)
    BY <1>11 DEF EndListdir
  <2> QED
    BY <1>02, <2>1 DEF Answers
<1>12. CASE EndRmdir(r)
  <2>1. ScanDone(r, "RMDIR") /\ \E list, data : Reply(r, Null, list, data)
    BY <1>12 DEF EndRmdir
  <2> QED
    BY <1>02, <2>1 DEF Answers
<1>13. CASE HandleSlaveRequest(r)
  <2>1. \/ \E b : Return(b)
        \/ \E arg : Send(TopAt("tail"), r, Top.src, "SLAVEREPLY", arg)
    BY <1>13 DEF HandleSlaveRequest, SlaveOp
  <2>2. CASE \E b : Return(b)
    BY <2>2 DEF StackStep
  <2>3. ASSUME NEW arg, Send(TopAt("tail"), r, Top.src, "SLAVEREPLY", arg) PROVE StackStep(r)
    <3>1. \A g : g.type = "SLAVEREPLY" /\ g.arg = arg /\ g.by = r /\ g.pc = "call" => SentBy(r, g)
      BY <1>13 DEF SentBy
    <3> QED
      BY <1>0, <2>3, <3>1, TailGoesOn, SendStackStep
  <2> QED
    BY <2>1, <2>2, <2>3
<1>14. CASE HandleSlaveReply(r)
  BY <1>14 DEF HandleSlaveReply, StackStep
<1>15. CASE FollowsDeleted(r)
  BY <1>15 DEF FollowsDeleted, Undefined, msgVars
<1> QED
  BY <1>1, <1>2, <1>3, <1>4, <1>5, <1>6, <1>7, <1>8, <1>9, <1>10, <1>11, <1>12, <1>13,
     <1>14, <1>15 DEF MdsStep

\* The client starts a stack, and it or a handler that waits takes it down.
LEMMA NextStackStep ==
  ASSUME HashIsNat, DataIInv, [Next]_vars
  PROVE  \/ UNCHANGED <<stack, fsVars>>
         \/ stack = <<>> /\ UNCHANGED stack
         \/ LookupRemote \/ Request
         \/ stack # <<>> /\ \E b : Return(b)
         \/ stack # <<>> /\ \E r \in Ranks : MdsStep(r) /\ Top.to = r /\ StackStep(r)
<1>1. ASSUME NEW r \in Ranks, MdsStep(r)
      PROVE  UNCHANGED <<stack, fsVars>> \/ (stack # <<>> /\ Top.to = r /\ StackStep(r))
  BY <1>1, MdsStepIsAtTop, MdsStackStep DEF FollowsDeleted, Undefined, msgVars
<1>2. CASE HandleReply
  BY <1>2 DEF HandleReply, Called
<1>3. CASE HandleReturn
  BY <1>3 DEF HandleReturn, ReturnTail, Resumed
<1>4. CASE Register
  <2>1. call = Nil /\ UNCHANGED stack
    BY <1>4 DEF Register
  <2>2. stack = <<>>
    BY <2>1, CallsAssumption DEF DataIInv, AskerIInv, RequestsIInv, ClientWaits, WalkIInv
  <2> QED
    BY <2>1, <2>2
<1>5. \/ UNCHANGED <<stack, fsVars>> \/ Register
      \/ LookupRemote \/ Request \/ HandleReply \/ HandleReturn
      \/ \E r \in Ranks : MdsStep(r)
  BY DEF Next, Step, vars, msgVars, Begin, ClientStep, LookupCached, LookupReturns,
         LooksAtDeleted, Answered, RequestReturns, Undefined
<1> QED
  BY <1>1, <1>2, <1>3, <1>4, <1>5
-----------------------------------------------------------------------------
(***************************************************************************)
(* Who sends to whom, and by which routes.                                  *)
(***************************************************************************)
\* A path is routed to one of them if it is of the first level, and to rank 0
\* if it is the root's; only one strategy has routes.
RouteGood(p, r) ==
  strategy = "subtree" => (Len(p) = 0 => r = 0) /\ (Len(p) = 1 => r \in Firsts)

\* Each MDS is asked by the one below it: a request is forwarded by the MDS
\* the client has sent it to, and done with there; the MDS that executes it
\* replies, or asks slaves, who answer.
FrameChain(s, k) ==
  /\ k > 1 => s[k].by = s[k - 1].to
  /\ s[k].type \in {"CLIENTREQ", "FORWARD"} =>
       Plain(RequestIn(s[k]).fullpath) /\ RouteGood(RequestIn(s[k]).fullpath, s[k].to)
  /\ s[k].type = "REPLY" => RouteGood(s[k].arg.fullpath, s[k].arg.from)
  /\ s[k].type = "FORWARD" =>
       k = 2 /\ strategy = "subtree" /\ s[k].to # s[k].by /\ s[k].arg.req = s[1].arg /\ s[1].pc = "tail"
  /\ s[k].type \in {"REPLY", "SLAVEREQ"} => s[k - 1].type \in {"CLIENTREQ", "FORWARD"}
  /\ s[k].type = "SLAVEREPLY" => s[k - 1].type = "SLAVEREQ"

\* The MDS a forwarded request is at keeps it; so does the first, unless the
\* client had a route.
TopIsMine ==
  /\ stack # <<>> /\ Top.pc = "call"
  /\ Top.type = "FORWARD" \/ (Top.type = "CLIENTREQ" /\ strategy # "subtree")
  => Mine(Top.to, Req.fullpath)

ChainIInv ==
  /\ \A k \in DOMAIN stack : FrameChain(stack, k)
  /\ TopIsMine
  /\ \A p \in DOMAIN routetable : RouteGood(p, routetable[p])

\* What is never a path of the first level or the root's has no such owner.
LEMMA OwnerIsGood ==
  ASSUME TreeIInv, NEW p \in Path, Plain(p), OwnerOf(p) # NoRank
  PROVE  RouteGood(p, OwnerOf(p))
<1> SUFFICES ASSUME strategy = "subtree", Len(p) \in {0, 1}
             PROVE  (Len(p) = 0 => OwnerOf(p) = 0) /\ OwnerOf(p) \in Firsts
  <2>1. 0 \in Firsts
    BY FirstsAreFirst
  <2> QED
    BY <2>1 DEF RouteGood
<1> DEFINE d == NearestDir(heap, p)
<1>1. /\ OwnerOf(p) = SubtreeDispatch(heap, p) /\ HeapIInv(heap) /\ lut = Table
      /\ Len(p) \in Nat /\ DOMAIN p = 1 .. Len(p) /\ d \in Path
  BY NearestIs, PathParts DEF OwnerOf, RankOf, TreeIInv, Strategies
<1>2. PICK k \in 0 .. Len(p) : d = Prefix(p, k)
  BY <1>1, NearestIs
<1>3. Len(d) = k /\ \A i \in 1 .. k : d[i] = p[i]
  BY <1>2, PathParts
<1>4. OwnerOf(p) = IF SplitPath(d) = <<>> THEN 0
                   ELSE IF Len(SplitPath(d)) = 1 THEN DispatchLevel1(heap, d)
                   ELSE OwnerOf(p)
  BY <1>1 DEF SubtreeDispatch
<1> HIDE DEF d
<1>5. CASE k = 0
  <2>1. d = <<>>
    BY <1>1, <1>3, <1>5, EmptySeq DEF Path
  <2>2. SplitPath(d) = <<>>
    BY <2>1 DEF SplitPath, RootPath
  <2> QED
    BY <1>4, <2>2, FirstsAreFirst
<1>6. CASE k = 1
  <2>1. Len(p) = 1 /\ d[1] # "" /\ d # <<>> /\ Len(d) = 1
    <3>1. Len(p) = 1 /\ Len(d) = 1 /\ d[1] = p[1] /\ 1 \in DOMAIN p
      BY <1>1, <1>3, <1>6
    <3>2. Len(<<>>) = 0
      OBVIOUS
    <3>3. d # <<>>
      BY <3>1, <3>2
    <3>4. p[1] # ""
      BY <3>1 DEF Plain
    <3> QED
      BY <3>1, <3>3, <3>4
  <2>2. SplitPath(d) = d
    BY <2>1 DEF SplitPath, RootPath
  <2>3. OwnerOf(p) = DispatchLevel1(heap, d)
    BY <1>4, <2>1, <2>2
  <2> DEFINE c == WhichChild(heap, d)
  <2>4. c # NoRank /\ OwnerOf(p) = HostOfChild(c)[1]
    BY <2>3 DEF DispatchLevel1
  <2>5. c \in Nat
    BY <1>1, <2>4, ChildIs
  <2> HIDE DEF c
  <2>6. Len(Table) \in Nat \ {0} /\ DOMAIN Table = 1 .. Len(Table)
    BY TableLists DEF IsTable
  <2> DEFINE i == (c % Len(Table)) + 1
  <2>7. i \in DOMAIN Table
    <3> DEFINE m == Len(Table)
    <3>1. m \in Nat \ {0} /\ DOMAIN Table = 1 .. m
      BY <2>6
    <3> HIDE DEF m
    <3>2. (c % m) + 1 \in 1 .. m
      BY <2>5, <3>1
    <3> QED
      BY <3>1, <3>2 DEF m
  <2>8. OwnerOf(p) = Table[i][1]
    BY <1>1, <2>4 DEF HostOfChild
  <2> HIDE DEF i
  <2>9. OwnerOf(p) \in Firsts
    BY <2>7, <2>8 DEF Firsts
  <2>10. Len(p) # 0
    <3> DEFINE n == Len(p)
    <3>1. n = 1
      BY <2>1, Zenon
    <3> HIDE DEF n
    <3>2. n # 0
      BY <3>1
    <3> QED
      BY <3>2, Zenon DEF n
  <2> QED
    BY <2>9, <2>10, Zenon
<1> QED
  BY <1>1, <1>2, <1>5, <1>6

\* The path at which the client knows a route leads to one.
LEMMA RouteIsGood ==
  ASSUME TreeIInv, ChainIInv, NEW p \in Path, Plain(p)
  PROVE  RouteGood(p, IF FindRoute(p) = NoRank THEN 0 ELSE FindRoute(p))
<1> SUFFICES ASSUME strategy = "subtree", Len(p) \in {0, 1}, FindRoute(p) # NoRank
             PROVE  (Len(p) = 0 => FindRoute(p) = 0) /\ FindRoute(p) \in Firsts
  BY FirstsAreFirst DEF RouteGood
<1> DEFINE known == {k \in 0 .. Len(p) : Prefix(p, k) \in DOMAIN routetable}
           last  == CHOOSE k \in known : \A l \in known : l <= k
<1>1. Len(p) \in Nat /\ known \in SUBSET (0 .. Len(p))
  BY PathParts
<1>2. known # {} /\ FindRoute(p) = routetable[Prefix(p, last)]
  BY DEF FindRoute
<1>3. \A k \in known : Prefix(p, k) \in DOMAIN routetable
  OBVIOUS
<1> HIDE DEF known
<1>4. \E k \in known : \A l \in known : l <= k
  BY <1>1, <1>2, LastExists
<1>5. last \in known
  BY <1>4
<1> HIDE DEF last
<1>6. last \in 0 .. Len(p) /\ Len(Prefix(p, last)) = last
  BY <1>1, <1>5, PathParts
<1>7. RouteGood(Prefix(p, last), FindRoute(p))
  BY <1>2, <1>3, <1>5 DEF ChainIInv
<1>8. (last = 0 => FindRoute(p) = 0) /\ (last = 1 => FindRoute(p) \in Firsts)
  BY <1>6, <1>7 DEF RouteGood
<1>9. last \in {0, 1} /\ (Len(p) = 0 => last = 0)
  <2> DEFINE n == Len(p)
  <2>1. n \in {0, 1} /\ last \in 0 .. n
    BY <1>6
  <2> HIDE DEF n
  <2>2. last \in {0, 1} /\ (n = 0 => last = 0)
    BY <2>1
  <2> QED
    BY <2>2 DEF n
<1> QED
  BY <1>8, <1>9, FirstsAreFirst

\* Nothing changes the strategy.
LEMMA StrategyStays == ASSUME [Next]_vars PROVE strategy' = strategy
<1>1. ASSUME NEW c \in Calls, Begin(c) PROVE strategy' = strategy
  BY <1>1 DEF Begin, fsVars
<1>2. CASE ClientStep
  BY <1>2 DEF ClientStep, LookupCached, LookupRemote, LookupReturns, LooksAtDeleted, Answered,
              Request, RequestReturns, HandleReply, Undefined, fsVars
<1>3. ASSUME NEW r \in Ranks, MdsStep(r) PROVE strategy' = strategy
  BY <1>3 DEF MdsStep, Forward, OpLookup, OpCreate, OpMkdir, OpRead, OpWrite, OpRm, OpScan, AskSlave,
              SlaveReturns, EndListdir, EndRmdir, HandleSlaveRequest, HandleSlaveReply, FollowsDeleted,
              Undefined, Mutate, fsVars
<1>4. CASE HandleReturn
  BY <1>4 DEF HandleReturn, fsVars
<1>5. CASE Register
  BY <1>5 DEF Register
<1>6. CASE UNCHANGED vars
  BY <1>6 DEF vars, fsVars
<1> QED
  BY <1>1, <1>2, <1>3, <1>4, <1>5, <1>6 DEF Next, Step

\* What leaves the file system and the ranks alone leaves the owners alone.
LEMMA OwnersStay ==
  ASSUME UNCHANGED fsVars
  PROVE  \A p : OwnerOf(p)' = OwnerOf(p)
BY DEF fsVars, OwnerOf, RankOf, SubtreeDispatch, HashingDispatch, HybridDispatch, DispatchLevel1, HostOfChild

\* The client's request is a stack of its own.
Starts(arg, to) ==
  /\ Len(stack') = 1 /\ DOMAIN stack' = 1 .. 1
  /\ stack'[1].type = "CLIENTREQ" /\ stack'[1].arg = arg
  /\ stack'[1].by = Client /\ stack'[1].to = to /\ stack'[1].pc = "call"

\* A request of the client's is lost or starts the stack.
LEMMA ClientSends ==
  ASSUME HashIsNat, DataIInv, stack = <<>>, NEW op, NEW p \in Path, NEW name, NEW ino, NEW data,
         SendRequest(op, p, name, ino, data)
  PROVE  \/ stack' = <<>>
         \/ Starts(MClientRequest(op, p, name, ino, data),
                   IF FindRoute(p) = NoRank THEN 0 ELSE FindRoute(p))
<1> DEFINE arg == MClientRequest(op, p, name, ino, data)
           e == Target(p)
           to == IF FindRoute(p) = NoRank THEN 0 ELSE FindRoute(p)
<1>1. Send(<<>>, Client, e, "CLIENTREQ", arg) /\ service_map' = service_map
  BY DEF SendRequest
<1>2. IsStack(<<>>) /\ Client \in Procs /\ RevIInv /\ ServicesIInv
  BY ProcsType DEF DataIInv, AskerIInv, RequestsIInv, RevIInv
<1>3. CASE e = Nil
  BY <1>1, <1>3 DEF Send
<1>4. CASE e # Nil
  <2>1. PICK r \in Serving : e = MdsEntity(r) /\ r = to
    BY <1>2, <1>4, TargetLeads DEF DataIInv
  <2> HIDE DEF arg, to
  <2>2. \/ stack' = <<>>
        \/ Pushes(<<>>, Client, e, "CLIENTREQ", arg) /\ Waits(Client, e, stack'[Len(<<>>) + 1])
    BY <1>1, <1>2, SendWaits, Zenon
  <2>3. CASE Pushes(<<>>, Client, e, "CLIENTREQ", arg) /\ Waits(Client, e, stack'[Len(<<>>) + 1])
    <3>1. Len(<<>>) = 0
      BY EmptySeq
    <3>2. /\ Len(stack') = 1 /\ DOMAIN stack' = 1 .. 1 /\ Sent(Client, e, "CLIENTREQ", arg, stack'[1])
          /\ Waits(Client, e, stack'[1])
      BY <2>3, <3>1 DEF Pushes
    <3>3. /\ stack'[1].type = "CLIENTREQ" /\ stack'[1].arg = arg
          /\ stack'[1].by = Client /\ stack'[1].pc = "call"
      BY <3>2 DEF Sent
    <3>4. stack'[1].to = Dispatch(service_map, proc_revmap', MdsEntity(r))
      BY <1>1, <2>1, <3>2 DEF Waits
    <3>5. stack'[1].to = to
      BY <1>2, <2>1, <3>4, ServingLeads
    <3> QED
      BY <3>2, <3>3, <3>5 DEF Starts, arg, to
  <2> QED
    BY <2>2, <2>3
<1> QED
  BY <1>3, <1>4

\* Stack s has the frames of the stack, the top one moved on as f.
Continues(s, f) ==
  /\ Len(stack) \in Nat \ {0} /\ DOMAIN stack = 1 .. Len(stack)
  /\ \A k \in 1 .. Len(stack) - 1 : s[k] = stack[k]
  /\ s[Len(stack)] = f /\ Moved(f, f.pc)

\* What a step of an MDS does to the stack continues it.
LEMMA StepContinues ==
  ASSUME RevIInv, stack # <<>>, NEW r, NEW f, GoesOn(r, f),
         TopReplaced(stack', f) \/ \E g : Nests(f, g)
  PROVE  Continues(stack', f)
BY BelowFrames DEF GoesOn, TopReplaced, Nests, Continues

\* Such a stack has the same chain.
LEMMA ContinuedChain ==
  ASSUME ShapeIInv, stack # <<>>, \A k \in DOMAIN stack : FrameChain(stack, k),
         NEW f, NEW s, Continues(s, f)
  PROVE  \A k \in DOMAIN stack : FrameChain(s, k)
<1> DEFINE n == Len(stack)
<1>1. /\ n \in Nat \ {0} /\ DOMAIN stack = 1 .. n
      /\ \A k \in 1 .. n - 1 : s[k] = stack[k]
      /\ s[n] = f /\ Moved(f, f.pc) /\ Top = stack[n]
  BY DEF Continues, Top
<1> HIDE DEF n
<1>2. \A k \in 1 .. n : /\ s[k].type = stack[k].type /\ s[k].by = stack[k].by
                        /\ s[k].to = stack[k].to /\ s[k].arg = stack[k].arg
  BY <1>1 DEF Moved
<1> SUFFICES ASSUME NEW k \in 1 .. n PROVE FrameChain(s, k)
  BY <1>1
<1>3. FrameChain(stack, k) /\ FrameShape(stack, k)
  BY <1>1 DEF ShapeIInv
<1>4. RequestIn(s[k]) = RequestIn(stack[k])
  BY <1>2 DEF RequestIn
<1>5. CASE k = 1
  BY <1>2, <1>3, <1>4, <1>5 DEF FrameChain, FrameShape
<1>6. CASE k # 1
  <2>1. k - 1 \in 1 .. n - 1 /\ 1 \in 1 .. n - 1 /\ k > 1 /\ k - 1 \in 1 .. n /\ 1 \in 1 .. n
    BY <1>1, <1>6
  <2>2. s[1] = stack[1] /\ s[k - 1] = stack[k - 1]
    BY <1>1, <2>1
  <2> QED
    BY <1>2, <1>3, <1>4, <2>2 DEF FrameChain
<1> QED
  BY <1>5, <1>6

\* What an MDS sends has its place in it.
LEMMA SentChain ==
  ASSUME HashIsNat, DataIInv, ChainIInv, stack # <<>>, NEW r \in Ranks, Top.to = r,
         NEW f, NEW g, Nests(f, g), GoesOn(r, f), SentBy(r, g)
  PROVE  /\ FrameChain(stack', Len(stack) + 1)
         /\ g.type = "FORWARD" => g.to = OwnerOf(g.arg.req.fullpath) /\ UNCHANGED fsVars
<1> DEFINE n == Len(stack)
<1>1. /\ n \in Nat \ {0} /\ stack'[n] = f /\ stack'[n + 1] = g /\ Moved(f, f.pc)
      /\ \A k \in 1 .. n - 1 : stack'[k] = stack[k]
  BY DEF Nests, GoesOn
<1>2. /\ FrameChain(stack, n) /\ FrameShape(stack, n) /\ Top = stack[n]
      /\ Top.type \in {"CLIENTREQ", "FORWARD"} => RequestOK(DOMAIN heap, Req)
  BY TopFrame, TopShape DEF ChainIInv, DataIInv, AskerIInv, RequestsIInv
<1> HIDE DEF n
<1>3. n + 1 > 1 /\ (n + 1) - 1 = n
  BY <1>1
<1>4. g.by = f.to /\ f.type = Top.type /\ f.arg = Top.arg
  BY <1>1 DEF SentBy, Moved
<1>5. CASE Forward(r) /\ g.type = "FORWARD" /\ g.arg.req = Req /\ g.to = OwnerOf(Req.fullpath)
  <2>1. /\ Top.type \in {"CLIENTREQ", "FORWARD"} /\ Top.pc = "call" /\ ~Mine(r, Req.fullpath)
        /\ UNCHANGED fsVars
    BY <1>5 DEF Forward, Asked, Called
  <2>2. Top.type = "CLIENTREQ" /\ strategy = "subtree"
    BY <2>1 DEF ChainIInv, TopIsMine
  <2>3. n = 1 /\ Req = Top.arg
    BY <1>2, <2>2 DEF FrameShape, Req, RequestIn
  <2>4. f.pc = "tail"
    BY <2>1 DEF GoesOn, OpScan, SlaveReturns, AskSlave, Resumed, ScansDirectory, Executes
  <2>5. OwnerOf(Req.fullpath) \notin {r, NoRank}
    BY <2>1 DEF Mine
  <2>6. Plain(Req.fullpath) /\ Req.fullpath \in Path
    BY <1>2, <2>1 DEF FrameChain, Req, RequestOK
  <2>7. RouteGood(Req.fullpath, OwnerOf(Req.fullpath))
    BY <2>5, <2>6, OwnerIsGood DEF DataIInv
  <2>8. RequestIn(g) = Req
    BY <1>5 DEF RequestIn
  <2>9. g.by = r
    BY DEF SentBy
  <2>10. n + 1 = 2 /\ stack'[1].arg = Req /\ stack'[1].pc = "tail"
    BY <1>1, <1>4, <2>3, <2>4
  <2> QED
    BY <1>1, <1>3, <1>4, <1>5, <2>1, <2>2, <2>5, <2>6, <2>7, <2>8, <2>9, <2>10 DEF FrameChain, n
<1>6. CASE AskSlave(r) /\ g.type = "SLAVEREQ"
  <2>1. Top.type \in {"CLIENTREQ", "FORWARD"}
    BY <1>2, <1>6 DEF AskSlave, Resumed, FrameShape, FrameType
  <2> QED
    BY <1>1, <1>3, <1>4, <1>6, <2>1 DEF FrameChain, n
<1>7. CASE HandleSlaveRequest(r) /\ g.type = "SLAVEREPLY"
  <2>1. Top.type = "SLAVEREQ"
    BY <1>7 DEF HandleSlaveRequest, Called
  <2> QED
    BY <1>1, <1>3, <1>4, <1>7, <2>1 DEF FrameChain, n
<1>8. CASE /\ g.type = "REPLY" /\ Top.type \in {"CLIENTREQ", "FORWARD"}
           /\ g.arg.from = r /\ g.arg.fullpath = Req.fullpath
  <2>1. RouteGood(Req.fullpath, r)
    BY <1>2, <1>8 DEF FrameChain, Req
  <2> QED
    BY <1>1, <1>3, <1>4, <1>8, <2>1 DEF FrameChain, n
<1> QED
  BY <1>5, <1>6, <1>7, <1>8 DEF SentBy

\* A handler that returns leaves the frames below it, which wait.
LEMMA ReturnLeaves ==
  ASSUME RevIInv, ShapeIInv, stack # <<>>, NEW b, Return(b)
  PROVE  /\ DOMAIN stack' = 1 .. Len(stack) - 1 /\ Len(stack') = Len(stack) - 1
         /\ \A k \in DOMAIN stack' : k \in DOMAIN stack /\ stack'[k] = stack[k]
         /\ stack' # <<>> => ~(Top.pc = "call")'
<1> DEFINE n == Len(stack)
<1>1. /\ n \in Nat \ {0} /\ DOMAIN stack = 1 .. n
      /\ IsStack(Below) /\ DOMAIN Below = 1 .. n - 1
      /\ \A k \in 1 .. n - 1 : Below[k] = stack[k]
  BY BelowFrames DEF RevIInv
<1>2. stack' = Below
  BY DEF Return
<1>3. Len(stack') = n - 1
  <2>1. Len(Below) \in Nat /\ DOMAIN Below = 1 .. Len(Below)
    BY <1>1, StackIsSeq
  <2>2. n - 1 \in Nat
    BY <1>1
  <2> QED
    BY <1>1, <1>2, <2>1, <2>2, IntervalLength
<1>4. \A k \in DOMAIN stack : FrameShape(stack, k)
  BY DEF ShapeIInv
<1>5. stack' # <<>> => Len(stack') # 0
  <2>1. stack' \in Seq({stack'[k] : k \in DOMAIN stack'})
    BY <1>1, <1>2 DEF IsStack
  <2> QED
    BY <2>1, EmptySeq
<1>6. \A k \in 1 .. n - 1 : k \in DOMAIN stack /\ k < Len(stack)
  BY <1>1
<1> HIDE DEF n
<1>7. ASSUME stack' # <<>> PROVE ~(Top.pc = "call")'
  <2>1. n - 1 \in 1 .. n - 1
    BY <1>1, <1>3, <1>5, <1>7
  <2>2. FrameShape(stack, n - 1) /\ stack'[n - 1] = stack[n - 1] /\ n - 1 < Len(stack)
    BY <1>1, <1>2, <1>4, <1>6, <2>1
  <2> QED
    BY <1>3, <2>2 DEF FrameShape, Top
<1> QED
  BY <1>1, <1>2, <1>3, <1>6, <1>7 DEF n

\* So what is left is still a chain.
LEMMA ReturnKeepsChain ==
  ASSUME RevIInv, ShapeIInv, ChainIInv, stack # <<>>, NEW b, Return(b)
  PROVE  (\A k \in DOMAIN stack' : FrameChain(stack', k)) /\ TopIsMine'
<1> DEFINE n == Len(stack)
<1>1. /\ DOMAIN stack' = 1 .. n - 1
      /\ \A k \in DOMAIN stack' : k \in DOMAIN stack /\ stack'[k] = stack[k]
      /\ stack' # <<>> => ~(Top.pc = "call")'
  BY ReturnLeaves
<1>2. n \in Nat \ {0}
  BY TopShape
<1> HIDE DEF n
<1>3. ASSUME NEW k \in DOMAIN stack' PROVE FrameChain(stack', k)
  <2>1. FrameChain(stack, k) /\ FrameShape(stack, k) /\ stack'[k] = stack[k]
    BY <1>1 DEF ChainIInv, ShapeIInv
  <2>2. 1 \in DOMAIN stack' /\ (k # 1 => k - 1 \in DOMAIN stack')
    BY <1>1, <1>2
  <2>3. stack'[1] = stack[1] /\ (k # 1 => stack'[k - 1] = stack[k - 1])
    BY <1>1, <2>2
  <2>4. CASE k = 1
    BY <2>1, <2>3, <2>4 DEF FrameChain, FrameShape
  <2>5. CASE k # 1
    BY <2>1, <2>3, <2>5 DEF FrameChain
  <2> QED
    BY <2>4, <2>5
<1> QED
  BY <1>1, <1>3 DEF TopIsMine

\* A step of an MDS keeps all of that.
LEMMA StackStepKeepsChain ==
  ASSUME HashIsNat, DataIInv, ChainIInv, [Next]_vars, stack # <<>>,
         NEW r \in Ranks, Top.to = r, StackStep(r)
  PROVE  (\A k \in DOMAIN stack' : FrameChain(stack', k)) /\ TopIsMine'
<1> DEFINE n == Len(stack)
<1>1. /\ n \in Nat \ {0} /\ DOMAIN stack = 1 .. n /\ RevIInv /\ ShapeIInv
      /\ \A k \in DOMAIN stack : FrameChain(stack, k) /\ FrameShape(stack, k)
  BY TopShape DEF ChainIInv, DataIInv, AskerIInv, RequestsIInv, ShapeIInv
<1> HIDE DEF n
<1>2. CASE \E b : Return(b)
  BY <1>1, <1>2, ReturnKeepsChain
<1>3. ASSUME NEW f, TopReplaced(stack', f), GoesOn(r, f)
      PROVE  (\A k \in DOMAIN stack' : FrameChain(stack', k)) /\ TopIsMine'
  <2>1. \A k \in DOMAIN stack : FrameChain(stack', k)
    BY <1>1, <1>3, StepContinues, ContinuedChain
  <2>2. DOMAIN stack' = DOMAIN stack /\ Top' = f
    BY <1>1, <1>3 DEF TopReplaced, Top, n
  <2>3. f.pc # "call"
    BY <1>3 DEF GoesOn
  <2> QED
    BY <2>1, <2>2, <2>3 DEF TopIsMine
<1>4. ASSUME NEW f, NEW g, Nests(f, g), GoesOn(r, f), SentBy(r, g)
      PROVE  (\A k \in DOMAIN stack' : FrameChain(stack', k)) /\ TopIsMine'
  <2>1. \A k \in DOMAIN stack : FrameChain(stack', k)
    BY <1>1, <1>4, StepContinues, ContinuedChain
  <2>2. /\ FrameChain(stack', n + 1)
        /\ g.type = "FORWARD" => g.to = OwnerOf(g.arg.req.fullpath) /\ UNCHANGED fsVars
    BY <1>4, SentChain DEF n
  <2>3. DOMAIN stack' = 1 .. n + 1 /\ Len(stack') = n + 1 /\ stack'[n + 1] = g
    BY <1>4 DEF Nests, n
  <2>4. Top' = g
    BY <2>3 DEF Top
  <2>5. g.type # "CLIENTREQ"
    BY <1>4 DEF SentBy
  <2>6. ASSUME g.type = "FORWARD" PROVE TopIsMine'
    <3>1. Req' = g.arg.req
      BY <2>4, <2>6 DEF Req, RequestIn
    <3>2. OwnerOf(g.arg.req.fullpath)' = OwnerOf(g.arg.req.fullpath)
      BY <2>2, <2>6, OwnersStay
    <3>3. Mine(g.to, g.arg.req.fullpath)'
      BY <2>2, <2>6, <3>2 DEF Mine
    <3> QED
      BY <2>4, <3>1, <3>3 DEF TopIsMine
  <2>7. TopIsMine'
    BY <2>4, <2>5, <2>6 DEF TopIsMine
  <2> QED
    BY <1>1, <2>1, <2>2, <2>3, <2>7
<1> QED
  BY <1>2, <1>3, <1>4 DEF StackStep

\* The client's request starts one.
LEMMA ClientStartsChain ==
  ASSUME HashIsNat, DataIInv, ChainIInv, LookupRemote \/ Request
  PROVE  (\A k \in DOMAIN stack' : FrameChain(stack', k)) /\ TopIsMine'
<1>1. /\ stack = <<>> /\ call \in Calls /\ UNCHANGED fsVars
      /\ client.pc = "walk" => client.at \in 1 .. Len(Walk)
  BY DEF LookupRemote, Request, DataIInv, AskerIInv, RequestsIInv, ClientWaits, WalkIInv
<1>2. PICK op, p, name, ino, data :
        SendRequest(op, p, name, ino, data) /\ p \in Path /\ Plain(p)
  BY <1>1, WalkIs DEF LookupRemote, Request
<1> DEFINE arg == MClientRequest(op, p, name, ino, data)
<1>0. PICK to : to = IF FindRoute(p) = NoRank THEN 0 ELSE FindRoute(p)
  OBVIOUS
<1>3. RouteGood(p, to)
  BY <1>0, <1>2, RouteIsGood DEF DataIInv
<1>4. strategy # "subtree" => Mine(to, p)
  BY <1>0 DEF FindRoute, Mine
<1>5. arg.fullpath = p
  BY DEF MClientRequest
<1>6. stack' = <<>> \/ Starts(arg, to)
  BY <1>0, <1>1, <1>2, ClientSends
<1> HIDE DEF arg
<1>7. CASE stack' = <<>>
  BY <1>7 DEF TopIsMine
<1>8. CASE Starts(arg, to)
  <2>1. /\ DOMAIN stack' = 1 .. 1 /\ Len(stack') = 1 /\ Top' = stack'[1]
        /\ stack'[1].type = "CLIENTREQ" /\ stack'[1].arg = arg /\ stack'[1].to = to
    BY <1>8 DEF Starts, Top
  <2>2. RequestIn(stack'[1]) = arg /\ Req' = arg
    BY <2>1 DEF RequestIn, Req
  <2>3. FrameChain(stack', 1)
    BY <1>2, <1>3, <1>5, <2>1, <2>2 DEF FrameChain
  <2>4. strategy' = strategy /\ OwnerOf(p)' = OwnerOf(p)
    BY <1>1, OwnersStay DEF fsVars
  <2>5. strategy # "subtree" => Mine(to, p)'
    BY <1>4, <2>4 DEF Mine
  <2>6. TopIsMine'
    BY <1>5, <2>1, <2>2, <2>4, <2>5 DEF TopIsMine
  <2> QED
    BY <2>1, <2>3, <2>6
<1> QED
  BY <1>6, <1>7, <1>8

\* The invariant is inductive.
LEMMA NextKeepsChain ==
  ASSUME HashIsNat, DataIInv, ChainIInv, [Next]_vars
  PROVE  ChainIInv'
<1>1. strategy' = strategy /\ RevIInv /\ ShapeIInv
  BY StrategyStays DEF DataIInv, AskerIInv, RequestsIInv
<1>2. (\A k \in DOMAIN stack' : FrameChain(stack', k)) /\ TopIsMine'
  <2>1. CASE UNCHANGED <<stack, fsVars>>
    <3>1. strategy' = strategy /\ \A p, r : Mine(r, p)' = Mine(r, p)
      BY <2>1, OwnersStay DEF Mine, fsVars
    <3> QED
      BY <2>1, <3>1 DEF ChainIInv, TopIsMine, Top, Req
  <2>2. CASE stack = <<>> /\ UNCHANGED stack
    BY <2>2 DEF TopIsMine
  <2>3. CASE LookupRemote \/ Request
    BY <2>3, ClientStartsChain
  <2>4. CASE stack # <<>> /\ \E b : Return(b)
    BY <1>1, <2>4, ReturnKeepsChain
  <2>5. CASE stack # <<>> /\ \E r \in Ranks : MdsStep(r) /\ Top.to = r /\ StackStep(r)
    BY <2>5, StackStepKeepsChain
  <2> QED
    BY <2>1, <2>2, <2>3, <2>4, <2>5, NextStackStep
<1>3. \A k \in DOMAIN stack' : FrameChain(stack, k)'
  BY <1>1, <1>2 DEF FrameChain, RouteGood
<1>4. \A p \in DOMAIN routetable' : RouteGood(p, routetable'[p])
  <2>1. CASE HandleReply
    <3>1. /\ stack # <<>> /\ Top.type = "REPLY"
          /\ routetable' = RoutesWith(Top.arg.fullpath, Top.arg.from)
      BY <2>1 DEF HandleReply, Called
    <3>2. RouteGood(Top.arg.fullpath, Top.arg.from)
      BY <1>1, <3>1, TopShape DEF ChainIInv, FrameChain
    <3> QED
      BY <3>1, <3>2 DEF ChainIInv, RoutesWith
  <2>2. CASE UNCHANGED routetable
    BY <2>2 DEF ChainIInv
  <2> QED
    BY <2>1, <2>2, OthersKeepClient
<1>5. \A p \in DOMAIN routetable' : RouteGood(p, routetable[p])'
  BY <1>1, <1>4 DEF RouteGood
<1> QED
  BY <1>2, <1>3, <1>5 DEF ChainIInv

\* At first nothing is asked and no route known.
LEMMA InitChain == Init => ChainIInv
<1> SUFFICES ASSUME Init PROVE ChainIInv
  OBVIOUS
<1>1. stack = <<>> /\ routetable = <<>>
  BY DEF Init, MessagingInit
<1>2. DOMAIN stack = {} /\ DOMAIN routetable = {}
  BY <1>1
<1> QED
  BY <1>1, <1>2 DEF ChainIInv, TopIsMine

\* A request is forwarded at most once, and only where a client may be sent a
\* wrong way by a route it has learned.
THEOREM RequestsForwardedOnce ==
  ASSUME HashIsNat
  PROVE  Spec => []ForwardedAtMostOnce
<1>1. DataIInv /\ ChainIInv => ForwardedAtMostOnce
  <2> SUFFICES ASSUME ChainIInv PROVE ForwardedAtMostOnce
    OBVIOUS
  <2> DEFINE forwards == {k \in DOMAIN stack : stack[k].type = "FORWARD"}
  <2>1. \A k \in forwards : k = 2 /\ strategy = "subtree"
    BY DEF ChainIInv, FrameChain
  <2>2. forwards \in SUBSET {2}
    BY <2>1
  <2>3. forwards = {} \/ forwards = {2}
    BY <2>2
  <2>4. Cardinality(forwards) <= 1
    BY <2>3, FS_EmptySet, FS_Singleton
  <2> QED
    BY <2>1, <2>4 DEF ForwardedAtMostOnce
<1>2. Init => DataIInv /\ ChainIInv
  BY InitData, InitChain
<1>3. (DataIInv /\ ChainIInv) /\ [Next]_vars => (DataIInv /\ ChainIInv)'
  BY NextKeepsData, NextKeepsChain
<1> QED
  BY <1>1, <1>2, <1>3, PTL DEF Spec
-----------------------------------------------------------------------------
(***************************************************************************)
(* If the cache is right, an inode a request names is the one its path leads *)
(* to: a call changes the file system only at its end, and then nobody who   *)
(* has an inode of it is left.                                              *)
(***************************************************************************)
\* The path that is looked up for a request, and that which is being looked up.
LookedUp(m) == IF m.op \in {"CREATE", "MKDIR"} THEN DirName(m.fullpath) ELSE m.fullpath

Looking == IF client.pc = "looking" THEN {Walk[client.at]} ELSE {}

\* What is asked for is the inode of its path, until it is answered for.
FrameFound(h, W, f) ==
  /\ f.type \in {"CLIENTREQ", "FORWARD"} =>
       /\ \A w \in W : RequestIn(f).op = "LOOKUP" /\ RequestIn(f).fullpath = w
       /\ f.pc # "tail" /\ RequestIn(f).op # "LOOKUP" =>
            RequestIn(f).ino = Lookup(h, LookedUp(RequestIn(f)))
       /\ f.pc \in {"scan", "slave"} => RequestIn(f).op \in {"RMDIR", "LISTDIR"}
  /\ f.type = "SLAVEREQ" /\ f.pc = "call" => f.arg.ino = Lookup(h, f.arg.fullpath)
  /\ f.type = "REPLY" => \A w \in W : f.arg.ino = Lookup(h, w)

FramesFound(h, W, s) == \A k \in DOMAIN s : FrameFound(h, W, s[k])

\* On the way of a call the cache has what the paths lead to.
WalkIsCached == EnableCache /\ client.pc \in {"walk", "looking"} => RightlyCached(call)

\* Where the client is: what it has found is the inode of the path it wanted,
\* and what it was answered is, or will be, that of the path it has asked for.
ClientFound ==
  /\ client.pc = "found" => client.at = Len(Walk) /\ client.ino = Lookup(heap, Walk[client.at])
  /\ client.pc = "looking" => callback.ino \in {Null, Lookup(heap, Walk[client.at])}

FoundIInv == ~ub /\ ClientFound /\ FramesFound(heap, Looking, stack)

\* An inode that a path leads to may be followed and deleted.
LEMMA FoundIsAlive ==
  ASSUME HeapIInv(heap), NEW p \in Path, Lookup(heap, p) \in DOMAIN heap
  PROVE  MayFollow(heap, Lookup(heap, p)) /\ MayDelete(heap, Lookup(heap, p))
<1>1. Len(p) \in Nat
  BY PathParts
<1>2. Lookup(heap, p) \in Sound(heap) \cup {Null} /\ Null \notin DOMAIN heap
  BY <1>1, LookupIsSound DEF HeapIInv, IsHeap, Null
<1>3. Lookup(heap, p) \in Sound(heap)
  BY <1>2
<1>4. heap[Root].parent = Null
  BY DEF HeapIInv, IsHeap
<1> QED
  BY <1>3, <1>4 DEF Sound, MayFollow, MayDelete

\* So may that of a request that has not been answered.
LEMMA RequestIsAlive ==
  ASSUME DataIInv, FoundIInv, stack # <<>>, Top.pc \in {"call", "scan"}
  PROVE  /\ Top.type \in {"CLIENTREQ", "FORWARD"} /\ Req.op # "LOOKUP" =>
              MayFollow(heap, Req.ino) /\ MayDelete(heap, Req.ino)
         /\ Top.type = "SLAVEREQ" /\ Top.pc = "call" => MayFollow(heap, Top.arg.ino)
<1>1. /\ FrameFound(heap, Looking, Top) /\ FrameOK(DOMAIN heap, Serving, Top) /\ HeapIInv(heap)
      /\ Top.type \in {"CLIENTREQ", "FORWARD"} => RequestOK(DOMAIN heap, Req)
  BY TopFrame, TopShape DEF FoundIInv, FramesFound, DataIInv, TreeIInv
<1>2. ASSUME Top.type \in {"CLIENTREQ", "FORWARD"}, Req.op # "LOOKUP"
      PROVE  MayFollow(heap, Req.ino) /\ MayDelete(heap, Req.ino)
  <2>1. Req.ino = Lookup(heap, LookedUp(Req)) /\ Req.ino \in DOMAIN heap /\ Req.fullpath \in Path
    BY <1>1, <1>2 DEF FrameFound, Req, RequestOK
  <2>2. LookedUp(Req) \in Path
    BY <2>1, PathParts DEF LookedUp
  <2> QED
    BY <1>1, <2>1, <2>2, FoundIsAlive
<1>3. ASSUME Top.type = "SLAVEREQ", Top.pc = "call" PROVE MayFollow(heap, Top.arg.ino)
  <2>1. /\ Top.arg.ino = Lookup(heap, Top.arg.fullpath) /\ Top.arg.ino \in DOMAIN heap
        /\ Top.arg.fullpath \in Path
    BY <1>1, <1>3 DEF FrameFound, FrameOK
  <2> QED
    BY <1>1, <2>1, FoundIsAlive
<1> QED
  BY <1>2, <1>3

\* So no MDS follows a deleted inode,
LEMMA NoneIsFollowed ==
  ASSUME DataIInv, FoundIInv, NEW r \in Ranks
  PROVE  ~FollowsDeleted(r)
<1>1. ASSUME NEW op, Executes(r, op), op # "LOOKUP"
      PROVE  MayFollow(heap, Req.ino) /\ MayDelete(heap, Req.ino)
  BY <1>1, RequestAtTop, RequestIsAlive
<1>2. ScanDone(r, "RMDIR") => MayDelete(heap, Req.ino)
  BY RequestAtTop, RequestIsAlive
<1>3. Called(r, "SLAVEREQ") => MayFollow(heap, Top.arg.ino)
  BY RequestIsAlive DEF Called
<1>4. \A op \in {"CREATE", "MKDIR", "READ", "WRITE", "RM", "RMDIR", "LISTDIR"} : op # "LOOKUP"
  OBVIOUS
<1> QED
  BY <1>1, <1>2, <1>3, <1>4 DEF FollowsDeleted, ScansDirectory

\* and nor does the client.
LEMMA ClientFollowsNone ==
  ASSUME DataIInv, FoundIInv
  PROVE  ~LooksAtDeleted
<1> SUFFICES ASSUME client.pc = "found" PROVE MayFollow(heap, client.ino)
  BY DEF LooksAtDeleted
<1>1. /\ call \in Calls /\ client.ino \in DOMAIN heap /\ HeapIInv(heap)
      /\ client.ino = Lookup(heap, Walk[Len(Walk)])
  BY DEF DataIInv, WalkIInv, FoundIInv, ClientFound, TreeIInv
<1>2. Walk[Len(Walk)] \in Path
  BY <1>1, WalkIs
<1> QED
  BY <1>1, <1>2, FoundIsAlive

\* So nothing is undefined.
LEMMA NothingIsUndefined ==
  ASSUME DataIInv, FoundIInv, [Next]_vars
  PROVE  ~ub'
<1>1. ~LooksAtDeleted /\ \A r \in Ranks : ~FollowsDeleted(r)
  BY ClientFollowsNone, NoneIsFollowed
<1>2. UNCHANGED ub
  BY <1>1 DEF Next, Step, vars, Begin, Register, ClientStep, LookupCached, LookupRemote, LookupReturns,
         Answered, Request, RequestReturns, HandleReply, HandleReturn,
         MdsStep, Forward, OpLookup, OpCreate, OpMkdir, OpRead, OpWrite, OpRm, OpScan,
         AskSlave, SlaveReturns, EndListdir, EndRmdir, HandleSlaveRequest, HandleSlaveReply
<1> QED
  BY <1>2, Zenon DEF FoundIInv

\* Only the answer to a request for that changes the file system: not while a
\* directory is being scanned or the client looks something up.
LEMMA MutatesAtEnd ==
  ASSUME DataIInv, FoundIInv, NEW r \in Ranks, MdsStep(r)
  PROVE  \/ UNCHANGED heap
         \/ /\ Looking = {} /\ Top.type \in {"CLIENTREQ", "FORWARD"}
            /\ ~OpScan(r) /\ ~SlaveReturns(r) /\ ~AskSlave(r)
<1> SUFFICES ASSUME heap' # heap
             PROVE  Looking = {} /\ Top.type \in {"CLIENTREQ", "FORWARD"}
  BY DEF OpScan, SlaveReturns, AskSlave, fsVars
<1>1. \/ \E op \in {"CREATE", "MKDIR", "WRITE", "RM"} : Executes(r, op)
      \/ ScanDone(r, "RMDIR")
  BY NoneIsFollowed DEF MdsStep, Forward, OpLookup, OpCreate, OpMkdir, OpRead, OpWrite, OpRm, OpScan,
     AskSlave, SlaveReturns, EndListdir, EndRmdir, HandleSlaveRequest, HandleSlaveReply, fsVars
<1>2. /\ stack # <<>> /\ Top.type \in {"CLIENTREQ", "FORWARD"}
      /\ Req.op \in {"CREATE", "MKDIR", "WRITE", "RM", "RMDIR"}
  BY <1>1, RequestAtTop
<1>3. FrameFound(heap, Looking, Top)
  BY <1>2, TopFrame, TopShape DEF FoundIInv, FramesFound
<1>4. \A w \in Looking : Req.op = "LOOKUP"
  BY <1>2, <1>3 DEF FrameFound, Req
<1> QED
  BY <1>2, <1>4

\* What the client has found stays what it wanted.
LEMMA NextKeepsClientFound ==
  ASSUME WalkIsCached, DataIInv, FoundIInv, [Next]_vars
  PROVE  ClientFound'
<1>0. /\ ClientFound /\ {"pc", "at", "ino"} \subseteq DOMAIN client
      /\ client.pc \in {"walk", "looking"} => client.at \in 1 .. Len(Walk) /\ Len(Walk) \in Nat \ {0}
      /\ stack # <<>> => client.pc \in {"looking", "asked"}
      /\ CallbackOK(DOMAIN heap, callback)
  BY WalkIs DEF FoundIInv, DataIInv, WalkIInv, AskerIInv, RequestsIInv, ClientWaits
<1>1. ASSUME UNCHANGED <<callVars, callback, heap>> PROVE ClientFound'
  <2>1. Walk' = Walk
    BY <1>1 DEF callVars, Walk
  <2> QED
    BY <1>0, <1>1, <2>1 DEF ClientFound, callVars
<1>2. ASSUME NEW r \in Ranks, MdsStep(r) PROVE ClientFound'
  <2>1. UNCHANGED callVars /\ UNCHANGED callback
    BY <1>2 DEF MdsStep, Forward, OpLookup, OpCreate, OpMkdir, OpRead, OpWrite, OpRm, OpScan,
                AskSlave, SlaveReturns, EndListdir, EndRmdir, HandleSlaveRequest, SlaveOp, HandleSlaveReply,
                FollowsDeleted, Undefined, Reply, Fail
  <2>2. stack # <<>>
    BY <1>2, MdsStepIsAtTop
  <2>3. CASE UNCHANGED heap
    BY <1>1, <2>1, <2>3
  <2>4. CASE Looking = {}
    <3>1. client.pc = "asked"
      BY <1>0, <2>2, <2>4 DEF Looking
    <3> QED
      BY <2>1, <3>1 DEF callVars, ClientFound
  <2> QED
    BY <1>2, <2>3, <2>4, MutatesAtEnd
<1>3. ASSUME client'.pc \notin {"found", "looking"} PROVE ClientFound'
  BY <1>3 DEF ClientFound
<1>4. ASSUME NEW c \in Calls, Begin(c) PROVE ClientFound'
  <2>1. client'.pc = "walk"
    BY <1>0, <1>4 DEF Begin
  <2> QED
    BY <1>3, <2>1
<1>5. CASE LookupCached
  <2>1. /\ EnableCache /\ client.pc = "walk" /\ Cached(cache, Walk[client.at])
        /\ Found(CachedValue(cache, Walk[client.at])) /\ UNCHANGED heap
    BY <1>5 DEF LookupCached, fsVars
  <2>2. PICK w, v : w = Walk[client.at] /\ v = CachedValue(cache, w)
    OBVIOUS
  <2>3. \E i \in DOMAIN cache : cache[i].key = w /\ cache[i].value = v
    BY <2>1, <2>2 DEF Cached, CachedValue, PlaceOf
  <2>4. Walk = WalkOf(call) /\ client.at \in 1 .. Len(Walk)
    BY <1>0, <2>1 DEF Walk, WalkOf, WalkTo
  <2>5. v = Lookup(heap, w)
    BY <2>1, <2>2, <2>3, <2>4 DEF WalkIsCached, RightlyCached
  <2>6. Walk' = Walk
    BY <2>1 DEF Found, Walk
  <2>7. CASE client.at < Len(Walk)
    BY <1>3, <2>1, <2>7 DEF Found
  <2>8. CASE ~(client.at < Len(Walk))
    <3>1. client.at = Len(Walk)
      BY <1>0, <2>1, <2>8
    <3>2. client'.pc = "found" /\ client'.at = client.at /\ client'.ino = v
      BY <2>1, <2>2, <2>8 DEF Found
    <3> QED
      BY <2>1, <2>2, <2>5, <2>6, <3>1, <3>2 DEF ClientFound
  <2> QED
    BY <2>7, <2>8
<1>6. CASE LookupRemote
  <2>1. client'.pc = "looking" /\ callback'.ino = Null
    BY <1>0, <1>6 DEF LookupRemote, SendRequest, CallbackOK
  <2> QED
    BY <2>1 DEF ClientFound
<1>7. ASSUME NEW b, Finish(b) PROVE ClientFound'
  BY <1>3, <1>7 DEF Finish, NotWalking
<1>8. CASE LookupReturns
  <2>1. CASE callback.ino = Null
    BY <1>7, <1>8, <2>1 DEF LookupReturns
  <2>2. CASE callback.ino # Null
    <3>1. Found(callback.ino) /\ client.pc = "looking" /\ UNCHANGED <<heap, call>>
      BY <1>8, <2>2 DEF LookupReturns, Found, fsVars
    <3>2. callback.ino = Lookup(heap, Walk[client.at]) /\ Walk' = Walk
      BY <1>0, <2>2, <3>1 DEF ClientFound, Walk
    <3>3. CASE client.at < Len(Walk)
      BY <1>3, <3>1, <3>3 DEF Found
    <3>4. CASE ~(client.at < Len(Walk))
      <4>1. client.at = Len(Walk)
        BY <1>0, <3>1, <3>4
      <4>2. client'.pc = "found" /\ client'.at = client.at /\ client'.ino = callback.ino
        BY <3>1, <3>4 DEF Found
      <4> QED
        BY <3>1, <3>2, <4>1, <4>2 DEF ClientFound
    <3> QED
      BY <3>3, <3>4
  <2> QED
    BY <2>1, <2>2
<1>9. CASE LooksAtDeleted
  BY <1>9, ClientFollowsNone
<1>10. CASE Answered \/ RequestReturns
  BY <1>7, <1>10 DEF Answered, RequestReturns
<1>11. CASE Request
  <2>1. client'.pc = "asked"
    BY <1>0, <1>11 DEF Request
  <2> QED
    BY <1>3, <2>1
<1>12. CASE HandleReply
  <2>1. /\ UNCHANGED <<callVars, heap>> /\ callback'.ino = Top.arg.ino
        /\ stack # <<>> /\ Top.type = "REPLY"
    BY <1>12 DEF HandleReply, Called, fsVars
  <2>2. FrameFound(heap, Looking, Top)
    BY <2>1, TopFrame, TopShape DEF FoundIInv, FramesFound
  <2>3. client.pc = "looking" => callback'.ino = Lookup(heap, Walk[client.at])
    BY <2>1, <2>2 DEF FrameFound, Looking
  <2>4. Walk' = Walk
    BY <2>1 DEF callVars, Walk
  <2> QED
    BY <1>0, <2>1, <2>3, <2>4 DEF ClientFound, callVars
<1>13. CASE HandleReturn \/ Register \/ UNCHANGED vars
  BY <1>1, <1>13 DEF HandleReturn, Register, vars, fsVars
<1> QED
  BY <1>2, <1>4, <1>5, <1>6, <1>8, <1>9, <1>10, <1>11, <1>12, <1>13 DEF Next, Step, ClientStep

\* The handler at the top goes on with the inode it had.
LEMMA MovedIsFound ==
  ASSUME NEW h, NEW W, FrameFound(h, W, Top), NEW f, Moved(f, f.pc),
         \/ f.pc = "tail"
         \/ /\ f.pc \in {"scan", "slave"} /\ Top.pc # "tail"
            /\ Top.type \in {"CLIENTREQ", "FORWARD"} => Req.op \in {"RMDIR", "LISTDIR"}
  PROVE  FrameFound(h, W, f)
<1>1. RequestIn(f) = Req /\ f.type = Top.type /\ f.arg = Top.arg
  BY DEF Moved, Req, RequestIn
<1>2. f.pc # "call" /\ (f.pc # "tail" => Top.pc # "tail")
  OBVIOUS
<1> QED
  BY <1>1, <1>2 DEF FrameFound, Req

\* Nor does a handler that goes on.
LEMMA GoesOnFound ==
  ASSUME DataIInv, FoundIInv, stack # <<>>, NEW r \in Ranks, NEW f, GoesOn(r, f)
  PROVE  FrameFound(heap, Looking, f)
<1>1. FrameFound(heap, Looking, Top) /\ FrameType(Top)
  BY TopFrame, TopShape DEF FoundIInv, FramesFound
<1>2. Moved(f, f.pc)
  BY DEF GoesOn
<1>3. CASE f.pc = "tail"
  BY <1>1, <1>2, <1>3, MovedIsFound
<1>4. CASE f.pc = "scan" /\ OpScan(r)
  <2>1. Top.pc = "call" /\ Req.op \in {"RMDIR", "LISTDIR"}
    BY <1>4, RequestAtTop DEF OpScan, ScansDirectory
  <2> QED
    BY <1>1, <1>2, <1>4, <2>1, MovedIsFound
<1>5. CASE (f.pc = "scan" /\ SlaveReturns(r)) \/ (f.pc = "slave" /\ AskSlave(r))
  <2>1. Top.pc \in {"scan", "slave"} /\ Top.type \in {"CLIENTREQ", "FORWARD"}
    BY <1>1, <1>5 DEF SlaveReturns, AskSlave, Resumed, FrameType
  <2>2. Req.op \in {"RMDIR", "LISTDIR"}
    BY <1>1, <2>1 DEF FrameFound, Req
  <2> QED
    BY <1>1, <1>2, <1>5, <2>1, <2>2, MovedIsFound
<1> QED
  BY <1>3, <1>4, <1>5 DEF GoesOn

\* What it sends names that inode too, or the one it has looked up.
LEMMA SentIsFound ==
  ASSUME DataIInv, FoundIInv, stack # <<>>, NEW r \in Ranks, NEW g, SentBy(r, g)
  PROVE  FrameFound(heap, Looking, g)
<1>1. /\ FrameFound(heap, Looking, Top) /\ FrameType(Top) /\ FrameOK(DOMAIN heap, Serving, Top)
      /\ g.pc = "call"
  BY TopFrame, TopShape DEF FoundIInv, FramesFound, SentBy
<1>2. CASE Forward(r) /\ g.type = "FORWARD" /\ g.arg.req = Req
  <2>1. Top.type \in {"CLIENTREQ", "FORWARD"} /\ Top.pc = "call" /\ RequestIn(g) = Req
    BY <1>2 DEF Forward, Asked, Called, RequestIn
  <2> QED
    BY <1>1, <1>2, <2>1 DEF FrameFound, Req
<1>3. CASE /\ AskSlave(r) /\ g.type = "SLAVEREQ"
           /\ g.arg.fullpath = Req.fullpath /\ g.arg.ino = Req.ino
  <2>1. Top.pc = "scan" /\ Top.type \in {"CLIENTREQ", "FORWARD"}
    BY <1>1, <1>3 DEF AskSlave, Resumed, FrameType
  <2>2. Req.ino = Lookup(heap, LookedUp(Req)) /\ Req.op \in {"RMDIR", "LISTDIR"}
    BY <1>1, <2>1 DEF FrameFound, Req
  <2>3. LookedUp(Req) = Req.fullpath
    BY <2>2 DEF LookedUp
  <2> QED
    BY <1>3, <2>2, <2>3 DEF FrameFound
<1>4. CASE HandleSlaveRequest(r) /\ g.type = "SLAVEREPLY"
  BY <1>4 DEF FrameFound
<1>5. CASE /\ g.type = "REPLY" /\ Top.type \in {"CLIENTREQ", "FORWARD"}
           /\ Req.op = "LOOKUP" => g.arg.ino = Lookup(heap, Req.fullpath)
  BY <1>1, <1>5 DEF FrameFound, Req
<1> QED
  BY <1>2, <1>3, <1>4, <1>5 DEF SentBy

\* A step of an MDS that leaves the file system alone, and
LEMMA AskingKeepsFound ==
  ASSUME DataIInv, FoundIInv, stack # <<>>, NEW r \in Ranks, StackStep(r)
  PROVE  FramesFound(heap, Looking, stack')
<1> DEFINE n == Len(stack)
<1>1. /\ n \in Nat \ {0} /\ DOMAIN stack = 1 .. n /\ RevIInv /\ ShapeIInv
      /\ \A k \in DOMAIN stack : FrameFound(heap, Looking, stack[k])
  BY TopShape DEF FoundIInv, FramesFound, DataIInv, AskerIInv, RequestsIInv
<1> HIDE DEF n
<1>2. CASE \E b : Return(b)
  BY <1>1, <1>2, ReturnLeaves DEF FramesFound
<1>3. ASSUME NEW f, TopReplaced(stack', f), GoesOn(r, f)
      PROVE  FramesFound(heap, Looking, stack')
  <2>1. FrameFound(heap, Looking, f)
    BY <1>3, GoesOnFound
  <2>2. /\ DOMAIN stack' = 1 .. n /\ stack'[n] = f
        /\ \A k \in 1 .. n - 1 : stack'[k] = stack[k]
    BY <1>1, <1>3 DEF TopReplaced, n
  <2>3. ASSUME NEW k \in 1 .. n PROVE FrameFound(heap, Looking, stack'[k])
    <3>1. k = n \/ k \in 1 .. n - 1
      BY <1>1
    <3> QED
      BY <1>1, <2>1, <2>2, <3>1
  <2> QED
    BY <2>2, <2>3 DEF FramesFound
<1>4. ASSUME NEW f, NEW g, Nests(f, g), GoesOn(r, f), SentBy(r, g)
      PROVE  FramesFound(heap, Looking, stack')
  <2>1. FrameFound(heap, Looking, f) /\ FrameFound(heap, Looking, g)
    BY <1>4, GoesOnFound, SentIsFound
  <2>2. /\ DOMAIN stack' = 1 .. n + 1 /\ stack'[n] = f /\ stack'[n + 1] = g
        /\ \A k \in 1 .. n - 1 : stack'[k] = stack[k]
    BY <1>4 DEF Nests, n
  <2>3. ASSUME NEW k \in 1 .. n + 1 PROVE FrameFound(heap, Looking, stack'[k])
    <3>1. k = n + 1 \/ k = n \/ k \in 1 .. n - 1
      BY <1>1
    <3> QED
      BY <1>1, <2>1, <2>2, <3>1
  <2> QED
    BY <2>2, <2>3 DEF FramesFound
<1> QED
  BY <1>2, <1>3, <1>4 DEF StackStep

\* one that changes it: nobody but the client is left to hear of it.
LEMMA MutatingKeepsFound ==
  ASSUME DataIInv, ChainIInv, stack # <<>>, NEW r \in Ranks, StackStep(r), heap' # heap,
         Top.type \in {"CLIENTREQ", "FORWARD"}, ~OpScan(r), ~SlaveReturns(r), ~AskSlave(r)
  PROVE  FramesFound(heap', {}, stack')
<1> DEFINE n == Len(stack)
           Done(f) == f.type = "REPLY" \/ (f.type \in {"CLIENTREQ", "FORWARD"} /\ f.pc = "tail")
<1>1. /\ n \in Nat \ {0} /\ DOMAIN stack = 1 .. n /\ RevIInv /\ ShapeIInv
      /\ Top = stack[n] /\ FrameShape(stack, n) /\ FrameShape(stack, 1) /\ FrameChain(stack, n)
  BY TopShape DEF ChainIInv, DataIInv, AskerIInv, RequestsIInv, ShapeIInv
<1> HIDE DEF n
<1>2. ASSUME NEW k \in 1 .. n - 1 PROVE Done(stack[k])
  <2>1. n # 1
    BY <1>1, <1>2
  <2>2. Top.type = "FORWARD"
    BY <1>1, <2>1 DEF FrameShape
  <2>3. n = 2 /\ stack[1].pc = "tail" /\ stack[1].type = "CLIENTREQ"
    BY <1>1, <2>2 DEF FrameChain, FrameShape
  <2>4. k = 1
    BY <1>2, <2>3
  <2> QED
    BY <2>3, <2>4
<1>3. ASSUME NEW f, GoesOn(r, f) PROVE Done(f)
  BY <1>3 DEF GoesOn, Moved
<1>4. ASSUME NEW g, SentBy(r, g) PROVE Done(g)
  <2>1. ~Forward(r) /\ ~HandleSlaveRequest(r)
    BY DEF Forward, HandleSlaveRequest, fsVars
  <2> QED
    BY <1>4, <2>1 DEF SentBy
<1>5. \A f : Done(f) => FrameFound(heap', {}, f)
  BY DEF FrameFound
<1> HIDE DEF Done
<1> SUFFICES \A k \in DOMAIN stack' : Done(stack'[k])
  BY <1>5 DEF FramesFound
<1>6. CASE \E b : Return(b)
  <2>1. DOMAIN stack' = 1 .. n - 1 /\ \A k \in DOMAIN stack' : stack'[k] = stack[k]
    BY <1>1, <1>6, ReturnLeaves DEF n
  <2> QED
    BY <1>2, <2>1
<1>7. ASSUME NEW f, TopReplaced(stack', f), GoesOn(r, f)
      PROVE  \A k \in DOMAIN stack' : Done(stack'[k])
  <2>1. /\ DOMAIN stack' = 1 .. n /\ stack'[n] = f
        /\ \A k \in 1 .. n - 1 : stack'[k] = stack[k]
    BY <1>7 DEF TopReplaced, n
  <2>2. \A k \in 1 .. n : k = n \/ k \in 1 .. n - 1
    BY <1>1
  <2> QED
    BY <1>2, <1>3, <1>7, <2>1, <2>2
<1>8. ASSUME NEW f, NEW g, Nests(f, g), GoesOn(r, f), SentBy(r, g)
      PROVE  \A k \in DOMAIN stack' : Done(stack'[k])
  <2>1. /\ DOMAIN stack' = 1 .. n + 1 /\ stack'[n] = f /\ stack'[n + 1] = g
        /\ \A k \in 1 .. n - 1 : stack'[k] = stack[k]
    BY <1>8 DEF Nests, n
  <2>2. \A k \in 1 .. n + 1 : k = n + 1 \/ k = n \/ k \in 1 .. n - 1
    BY <1>1
  <2> QED
    BY <1>2, <1>3, <1>4, <1>8, <2>1, <2>2
<1> QED
  BY <1>6, <1>7, <1>8 DEF StackStep

\* Either way it keeps what was found.
LEMMA MdsStepKeepsFound ==
  ASSUME HashIsNat, DataIInv, ChainIInv, FoundIInv, NEW r \in Ranks, MdsStep(r)
  PROVE  FramesFound(heap', Looking', stack')
<1>1. UNCHANGED callVars
  BY DEF MdsStep, Forward, OpLookup, OpCreate, OpMkdir, OpRead, OpWrite, OpRm, OpScan,
         AskSlave, SlaveReturns, EndListdir, EndRmdir, HandleSlaveRequest, SlaveOp, HandleSlaveReply,
         FollowsDeleted, Undefined, Reply, Fail
<1>2. Looking' = Looking
  BY <1>1 DEF callVars, Looking, Walk
<1>3. stack # <<>> /\ StackStep(r)
  BY MdsStepIsAtTop, MdsStackStep, NoneIsFollowed
<1>4. CASE UNCHANGED heap
  BY <1>2, <1>3, <1>4, AskingKeepsFound
<1>5. CASE heap' # heap
  BY <1>2, <1>3, <1>5, MutatesAtEnd, MutatingKeepsFound
<1> QED
  BY <1>4, <1>5

\* The client's request does.
LEMMA ClientStartsFound ==
  ASSUME HashIsNat, DataIInv, FoundIInv, LookupRemote \/ Request
  PROVE  FramesFound(heap', Looking', stack')
<1>1. /\ stack = <<>> /\ call \in Calls /\ UNCHANGED <<heap, call>>
      /\ {"pc", "at", "ino"} \subseteq DOMAIN client
      /\ client.pc = "walk" => client.at \in 1 .. Len(Walk)
  BY DEF LookupRemote, Request, DataIInv, AskerIInv, RequestsIInv, ClientWaits, WalkIInv, fsVars
<1>2. Walk' = Walk
  BY <1>1 DEF Walk
<1>3. ASSUME NEW arg, NEW to, Starts(arg, to),
             \A w \in Looking' : arg.op = "LOOKUP" /\ arg.fullpath = w,
             arg.op # "LOOKUP" => arg.ino = Lookup(heap, LookedUp(arg))
      PROVE  FramesFound(heap', Looking', stack')
  <2>1. /\ DOMAIN stack' = 1 .. 1 /\ stack'[1].type = "CLIENTREQ" /\ stack'[1].arg = arg
        /\ stack'[1].pc = "call"
    BY <1>3 DEF Starts
  <2>2. RequestIn(stack'[1]) = arg
    BY <2>1 DEF RequestIn
  <2>3. FrameFound(heap', Looking', stack'[1])
    BY <1>1, <1>3, <2>1, <2>2 DEF FrameFound
  <2> QED
    BY <2>1, <2>3 DEF FramesFound
<1>4. ASSUME stack' = <<>> PROVE FramesFound(heap', Looking', stack')
  BY <1>4 DEF FramesFound
<1>5. CASE LookupRemote
  <2> DEFINE arg == MClientRequest("LOOKUP", Walk[client.at], "", Null, NoData)
  <2>1. client.pc = "walk" /\ SendRequest("LOOKUP", Walk[client.at], "", Null, NoData)
        /\ client' = [client EXCEPT !.pc = "looking"]
    BY <1>5 DEF LookupRemote
  <2>2. Looking' = {Walk[client.at]}
    BY <1>1, <1>2, <2>1 DEF Looking
  <2>3. Walk[client.at] \in Path
    BY <1>1, <2>1, WalkIs
  <2>4. stack' = <<>> \/ \E to : Starts(arg, to)
    BY <1>1, <2>1, <2>3, ClientSends
  <2>5. arg.op = "LOOKUP" /\ arg.fullpath = Walk[client.at]
    BY DEF MClientRequest
  <2> HIDE DEF arg
  <2> QED
    BY <1>3, <1>4, <2>2, <2>4, <2>5
<1>6. CASE Request
  <2>1. PICK name, data :
          /\ SendRequest(RequestOp[call.op], call.path, name, client.ino, data)
          /\ client.pc = "found" /\ client' = [client EXCEPT !.pc = "asked"]
          /\ call.op \in DOMAIN RequestOp
    BY <1>6 DEF Request
  <2> DEFINE arg == MClientRequest(RequestOp[call.op], call.path, name, client.ino, data)
  <2>2. Looking' = {}
    BY <1>1, <2>1 DEF Looking
  <2>3. call.path \in Path /\ Walk[Len(Walk)] = WalkTo(call)
    BY <1>1, WalkIs
  <2>4. stack' = <<>> \/ \E to : Starts(arg, to)
    BY <1>1, <2>1, <2>3, ClientSends
  <2>5. arg.op = RequestOp[call.op] /\ arg.fullpath = call.path /\ arg.ino = client.ino
    BY DEF MClientRequest
  <2>6. client.ino = Lookup(heap, WalkTo(call))
    BY <2>1, <2>3 DEF FoundIInv, ClientFound
  <2>7. RequestOp[call.op] \in {"CREATE", "MKDIR"} <=> CreatesEntry(call.op)
    BY <2>1 DEF RequestOp, CreatesEntry
  <2> HIDE DEF arg
  <2>8. LookedUp(arg) = WalkTo(call)
    BY <2>5, <2>7 DEF LookedUp, WalkTo
  <2> QED
    BY <1>3, <1>4, <2>2, <2>4, <2>5, <2>6, <2>8
<1> QED
  BY <1>5, <1>6

\* So does every step.
LEMMA NextKeepsFound ==
  ASSUME HashIsNat, WalkIsCached, DataIInv, ChainIInv, FoundIInv, [Next]_vars
  PROVE  FoundIInv'
<1>0. /\ FramesFound(heap, Looking, stack) /\ RevIInv /\ ShapeIInv
      /\ stack # <<>> => client.pc \in {"looking", "asked"}
  BY DEF FoundIInv, DataIInv, AskerIInv, RequestsIInv, ClientWaits
<1>1. FramesFound(heap', Looking', stack')
  <2>1. CASE stack = <<>> /\ UNCHANGED stack
    BY <2>1 DEF FramesFound
  <2>2. ASSUME stack # <<>>, NEW b, Return(b), UNCHANGED <<heap, callVars>>
        PROVE  FramesFound(heap', Looking', stack')
    <3>1. Looking' = Looking
      BY <2>2 DEF callVars, Looking, Walk
    <3>2. \A k \in DOMAIN stack' : k \in DOMAIN stack /\ stack'[k] = stack[k]
      BY <1>0, <2>2, ReturnLeaves
    <3> QED
      BY <1>0, <2>2, <3>1, <3>2 DEF FramesFound
  <2>3. CASE UNCHANGED vars
    <3>1. UNCHANGED <<heap, stack, call, client>>
      BY <2>3 DEF vars, fsVars, msgVars, callVars
    <3>2. Looking' = Looking
      BY <3>1 DEF Looking, Walk
    <3> QED
      BY <1>0, <3>1, <3>2
  <2>4. ASSUME NEW c \in Calls, Begin(c) PROVE stack = <<>> /\ UNCHANGED stack
    BY <1>0, <2>4 DEF Begin, msgVars
  <2>5. CASE Register
    <3>1. call = Nil /\ UNCHANGED stack
      BY <2>5 DEF Register
    <3>2. stack = <<>>
      BY <1>0, <3>1, CallsAssumption DEF DataIInv, WalkIInv
    <3> QED
      BY <2>1, <3>1, <3>2
  <2>6. CASE LookupRemote \/ Request
    BY <2>6, ClientStartsFound
  <2>7. CASE LookupCached \/ LookupReturns \/ LooksAtDeleted \/ Answered \/ RequestReturns
    <3>1. stack = <<>> /\ UNCHANGED stack
      BY <1>0, <2>7 DEF LookupCached, LookupReturns, LooksAtDeleted, Answered, RequestReturns,
                        Undefined, msgVars
    <3> QED
      BY <2>1, <3>1
  <2>8. CASE HandleReply \/ HandleReturn
    <3>1. stack # <<>> /\ (\E b : Return(b)) /\ UNCHANGED <<heap, callVars>>
      BY <2>8 DEF HandleReply, HandleReturn, ReturnTail, Resumed, Called, fsVars
    <3> QED
      BY <2>2, <3>1
  <2> QED
    BY <2>1, <2>3, <2>4, <2>5, <2>6, <2>7, <2>8, MdsStepKeepsFound DEF Next, Step, ClientStep
<1> QED
  BY <1>1, NothingIsUndefined, NextKeepsClientFound, Zenon DEF FoundIInv

\* At first the client has looked nothing up.
LEMMA InitFound == Init => FoundIInv
<1> SUFFICES ASSUME Init PROVE FoundIInv
  OBVIOUS
<1>1. stack = <<>> /\ client.pc = "idle" /\ ub = FALSE
  BY DEF Init, MessagingInit, NotWalking
<1>2. ClientFound
  BY <1>1 DEF ClientFound
<1>3. FramesFound(heap, Looking, stack)
  BY <1>1 DEF FramesFound
<1>4. ~ub
  BY <1>1, Zenon
<1> QED
  BY <1>2, <1>3, <1>4 DEF FoundIInv
-----------------------------------------------------------------------------
(***************************************************************************)
(* Who has forwarded a request is not asked for entries of its directory:    *)
(* it has sent the request where the directory belongs, and what is below it *)
(* belongs there too, or to another than the first MDS of a host.            *)
(***************************************************************************)
\* A path is one longer with a name behind it, and starts as it did.
LEMMA LongerPath ==
  ASSUME NEW p \in Path, NEW x \in Name
  PROVE  /\ Append(p, x) \in Path /\ Len(Append(p, x)) = Len(p) + 1
         /\ \A k \in 0 .. Len(p) : Prefix(Append(p, x), k) = Prefix(p, k)
         /\ Prefix(p, Len(p)) = p /\ Prefix(Append(p, x), Len(p) + 1) = Append(p, x)
<1> DEFINE q == Append(p, x)
<1>1. q \in Path /\ Len(q) = Len(p) + 1 /\ \A i \in 1 .. Len(p) : q[i] = p[i]
  BY AppendProperties DEF Path
<1>2. Len(p) \in Nat /\ Prefix(p, Len(p)) = p /\ Prefix(q, Len(q)) = q
  BY <1>1, PathParts, SubSeqFull DEF Prefix, Path
<1> HIDE DEF q
<1>3. ASSUME NEW k \in 0 .. Len(p) PROVE Prefix(q, k) = Prefix(p, k)
  <2>1. k \in 0 .. Len(q) /\ \A i \in 1 .. k : i \in 1 .. Len(p)
    BY <1>1, <1>2
  <2>2. /\ Prefix(q, k) \in Path /\ Len(Prefix(q, k)) = k
        /\ \A i \in 1 .. k : Prefix(q, k)[i] = q[i]
    BY <1>1, <2>1, PathParts
  <2>3. /\ Prefix(p, k) \in Path /\ Len(Prefix(p, k)) = k
        /\ \A i \in 1 .. k : Prefix(p, k)[i] = p[i]
    BY PathParts
  <2>4. \A i \in 1 .. k : Prefix(q, k)[i] = Prefix(p, k)[i]
    BY <1>1, <2>1, <2>2, <2>3
  <2> QED
    BY <2>2, <2>3, <2>4, SeqEqual DEF Path
<1> QED
  BY <1>1, <1>2, <1>3 DEF q

\* A directory is the nearest to itself; to an entry it is the directory or
\* the entry.
LEMMA DirIsNearest ==
  ASSUME NEW h, HeapIInv(h), NEW p \in Path, IsDirPath(h, p), NEW x \in Name
  PROVE  NearestDir(h, p) = p /\ NearestDir(h, Append(p, x)) \in {p, Append(p, x)}
<1> DEFINE q == Append(p, x)
<1>0. PICK n \in Nat : n = Len(p)
  BY PathParts
<1>1. /\ q \in Path /\ Len(q) = n + 1 /\ Prefix(p, n) = p /\ Prefix(q, n) = p /\ Prefix(q, n + 1) = q
  BY <1>0, LongerPath
<1> HIDE DEF q
<1>2. PICK k \in 0 .. n : /\ NearestDir(h, p) = Prefix(p, k)
                          /\ \A l \in 0 .. n : IsDirPath(h, Prefix(p, l)) => l <= k
  BY <1>0, NearestIs
<1>3. k = n
  BY <1>0, <1>1, <1>2
<1>4. PICK m \in 0 .. n + 1 : /\ NearestDir(h, q) = Prefix(q, m)
                              /\ \A l \in 0 .. n + 1 : IsDirPath(h, Prefix(q, l)) => l <= m
  BY <1>1, NearestIs
<1>5. n <= m
  BY <1>1, <1>4
<1>6. m = n \/ m = n + 1
  BY <1>4, <1>5
<1> QED
  BY <1>1, <1>2, <1>3, <1>4, <1>6 DEF q

\* The owner of a directory below the first level owns what is in it, and
\* that of one of the first level is the first MDS of the host that does.
LEMMA EntryOwnerIs ==
  ASSUME TreeIInv, strategy = "subtree", NEW p \in Path, Plain(p), IsDirPath(heap, p), NEW x \in Name,
         OwnerOf(Join(p, x)) \notin {OwnerOf(p), NoRank}
  PROVE  \/ Len(p) = 0 /\ OwnerOf(p) = 0
         \/ /\ Len(p) = 1
            /\ \E i \in DOMAIN Table : OwnerOf(p) = Table[i][1]
                                       /\ OwnerOf(Join(p, x)) \in {Table[i][m] : m \in 1 .. Len(Table[i])}
<1> DEFINE q == Append(p, x)
<1>0. PICK n \in Nat : n = Len(p)
  BY PathParts
<1>1. /\ \A u : OwnerOf(u) = SubtreeDispatch(heap, u)
      /\ HeapIInv(heap) /\ lut = Table /\ NearestDir(heap, p) = p /\ NearestDir(heap, q) \in {p, q}
  BY DirIsNearest DEF OwnerOf, RankOf, TreeIInv
<1>2. /\ q \in Path /\ Len(q) = n + 1 /\ q # <<>>
      /\ \A k \in 0 .. n : Prefix(q, k) = Prefix(p, k)
  <2>1. q \in Path /\ Len(q) = n + 1 /\ \A k \in 0 .. n : Prefix(q, k) = Prefix(p, k)
    BY <1>0, LongerPath
  <2>2. Len(<<>>) = 0 /\ n + 1 # 0
    BY <1>0, EmptySeq
  <2> QED
    BY <2>1, <2>2
<1>3. CASE n = 0
  <2>1. p = <<>>
    BY <1>0, <1>3, EmptySeq DEF Path
  <2>2. SplitPath(p) = <<>>
    BY <2>1 DEF SplitPath, RootPath
  <2>3. OwnerOf(p) = 0
    BY <1>1, <2>2 DEF SubtreeDispatch
  <2> QED
    BY <1>0, <1>3, <2>3
<1>4. CASE n # 0
  <2>1. p # <<>> /\ p # RootPath /\ p[1] # "" /\ q[1] = p[1]
    <3>1. Len(<<>>) = 0 /\ 1 \in 1 .. n /\ DOMAIN p = 1 .. n
      BY <1>0, <1>4, EmptySeq, PathParts
    <3>2. p[1] # ""
      BY <3>1 DEF Plain
    <3>3. q[1] = p[1]
      BY <1>0, <3>1, AppendProperties DEF Path
    <3> QED
      BY <1>0, <1>4, <3>1, <3>2, <3>3 DEF RootPath
  <2>2. SplitPath(p) = p /\ SplitPath(q) = q /\ Join(p, x) = q
    BY <1>2, <2>1 DEF SplitPath, Join
  <2>3. OwnerOf(q) \notin {OwnerOf(p), NoRank}
    BY <2>2
  <2> HIDE DEF q
  <2>4. NearestDir(heap, q) = q
    <3>1. NearestDir(heap, q) = p => SubtreeDispatch(heap, q) = SubtreeDispatch(heap, p)
      BY <1>1 DEF SubtreeDispatch
    <3> QED
      BY <1>1, <2>3, <3>1
  <2> DEFINE c1 == WhichChild(heap, Prefix(p, 1))
             c2 == WhichChild(heap, Prefix(q, 2))
  <2>5. OwnerOf(q) = IF c1 = NoRank \/ c2 = NoRank THEN NoRank
                     ELSE HostOfChild(c1)[(c2 % Len(HostOfChild(c1))) + 1]
    <3>1. Len(q) # 1 /\ Prefix(q, 1) = Prefix(p, 1)
      BY <1>0, <1>2, <1>4
    <3> QED
      BY <1>1, <1>2, <2>2, <2>4, <3>1 DEF SubtreeDispatch
  <2>6. Prefix(p, 1) \in Path /\ Prefix(q, 2) \in Path
    <3>1. 1 \in 0 .. n /\ 2 \in 0 .. n + 1
      BY <1>0, <1>4
    <3> QED
      BY <1>0, <1>2, <3>1, PathParts
  <2>7. /\ c1 # NoRank /\ c2 # NoRank /\ c1 \in Nat /\ c2 \in Nat
        /\ OwnerOf(q) = HostOfChild(c1)[(c2 % Len(HostOfChild(c1))) + 1]
    BY <1>1, <2>3, <2>5, <2>6, ChildIs
  <2>8. CASE n = 1
    <3>1. Prefix(p, 1) = p
      BY <1>0, <2>8, LongerPath
    <3>2. OwnerOf(p) = HostOfChild(c1)[1]
      BY <1>0, <1>1, <2>1, <2>2, <2>7, <2>8, <3>1 DEF SubtreeDispatch, DispatchLevel1
    <3>3. PICK i \in DOMAIN Table : HostOfChild(c1) = Table[i]
      <4> HIDE DEF c1
      <4>1. Len(Table) \in Nat \ {0} /\ DOMAIN Table = 1 .. Len(Table)
        BY TableLists DEF IsTable
      <4>2. PICK m \in Nat \ {0} : m = Len(Table)
        BY <4>1
      <4>3. (c1 % m) + 1 \in 1 .. m
        BY <2>7, <4>2
      <4> QED
        BY <1>1, <4>1, <4>2, <4>3 DEF HostOfChild
    <3>4. Len(Table[i]) \in Nat \ {0}
      BY TableLists DEF IsTable
    <3> HIDE DEF c1, c2
    <3>5. (c2 % Len(Table[i])) + 1 \in 1 .. Len(Table[i])
      <4>1. PICK m \in Nat \ {0} : m = Len(Table[i])
        BY <3>4
      <4>2. (c2 % m) + 1 \in 1 .. m
        BY <2>7, <4>1
      <4> QED
        BY <4>1, <4>2
    <3> QED
      BY <1>0, <2>2, <2>7, <2>8, <3>2, <3>3, <3>5
  <2>9. CASE n # 1
    <3>1. Prefix(q, 2) = Prefix(p, 2)
      BY <1>0, <1>2, <1>4, <2>9
    <3>2. OwnerOf(p) = IF c1 = NoRank \/ c2 = NoRank THEN NoRank
                       ELSE HostOfChild(c1)[(c2 % Len(HostOfChild(c1))) + 1]
      BY <1>0, <1>1, <2>1, <2>2, <2>9, <3>1 DEF SubtreeDispatch
    <3> QED
      BY <2>3, <2>5, <3>2
  <2> QED
    BY <2>8, <2>9
<1> QED
  BY <1>3, <1>4

\* Whoever else an MDS asks has an entry that is not its own.
LEMMA OthersOwn ==
  ASSUME TreeIInv, NEW r, NEW f, f.ino \in DOMAIN heap, NEW k \in DOMAIN Others(r, f)
  PROVE  \E i \in heap[f.ino].entries :
           /\ i \in DOMAIN heap /\ Others(r, f)[k] = EntryOwner(f.fullpath, i)
           /\ EntryOwner(f.fullpath, i) \notin {r, NoRank}
<1> DEFINE others == heap[f.ino].entries \ OwnEntries(r, f)
           Owner(i) == EntryOwner(f.fullpath, i)
           once == {i \in others : \A j \in others : Owner(i) = Owner(j) => i <= j}
           firsts == InOrder(once)
<1>1. /\ heap[f.ino].entries \in SUBSET (DOMAIN heap) /\ IsFiniteSet(heap[f.ino].entries)
      /\ DOMAIN heap \subseteq Nat
  <2>1. /\ DOMAIN heap = 1 .. Len(heap) /\ Len(heap) \in Nat /\ f.ino \in Nat
        /\ heap[f.ino].entries \subseteq f.ino + 1 .. Len(heap)
    BY DEF TreeIInv, HeapIInv, IsHeap
  <2>2. IsFiniteSet(f.ino + 1 .. Len(heap))
    BY <2>1, FS_Interval
  <2> QED
    BY <2>1, <2>2, FS_Subset
<1>2. \A i \in once : i \in heap[f.ino].entries /\ Owner(i) \notin {r, NoRank}
  BY DEF OwnEntries
<1>3. once \in SUBSET Nat /\ IsFiniteSet(once)
  BY <1>1, <1>2, FS_Subset
<1>4. Others(r, f) = [j \in DOMAIN firsts |-> Owner(firsts[j])]
  BY DEF Others
<1> HIDE DEF once
<1>5. firsts \in [1 .. Cardinality(once) -> once]
  BY <1>3, InOrderIs
<1> HIDE DEF firsts
<1>6. k \in DOMAIN firsts /\ firsts[k] \in once /\ Others(r, f)[k] = Owner(firsts[k])
  BY <1>4, <1>5
<1> QED
  BY <1>1, <1>2, <1>6

\* None of these has forwarded the request.
LEMMA ForwarderHasNoEntry ==
  ASSUME TreeIInv, strategy = "subtree", NEW m, m.fullpath \in Path, Plain(m.fullpath),
         m.ino = Lookup(heap, m.fullpath), m.ino \in DOMAIN heap, heap[m.ino].isDir,
         NEW r, OwnerOf(m.fullpath) \in {r, NoRank}, NEW F, RouteGood(m.fullpath, F), F # r,
         NEW k \in DOMAIN Others(r, m)
  PROVE  Others(r, m)[k] # F
<1> DEFINE p == m.fullpath
<1>1. PICK i \in DOMAIN heap : /\ Others(r, m)[k] = EntryOwner(p, i)
                               /\ EntryOwner(p, i) \notin {r, NoRank}
  BY OthersOwn
<1>2. heap[i].name \in Name /\ IsDirPath(heap, p)
  BY DEF TreeIInv, HeapIInv, IsHeap, IsDirPath, Null
<1> DEFINE o == OwnerOf(Join(p, heap[i].name))
<1>3. EntryOwner(p, i) = o
  BY DEF EntryOwner
<1>4. o \notin {OwnerOf(p), NoRank}
  BY <1>1, <1>3
<1>5. \/ Len(p) = 0 /\ OwnerOf(p) = 0
      \/ /\ Len(p) = 1
         /\ \E j \in DOMAIN Table : OwnerOf(p) = Table[j][1] /\ o \in {Table[j][n] : n \in 1 .. Len(Table[j])}
  BY <1>2, <1>4, EntryOwnerIs
<1> HIDE DEF p, o
<1>6. CASE Len(p) = 0 /\ OwnerOf(p) = 0
  <2>1. F = 0
    BY <1>6 DEF RouteGood, p
  <2>2. OwnerOf(p) = r
    <3>1. 0 # NoRank
      BY DEF NoRank
    <3> QED
      BY <1>6, <3>1 DEF p
  <2> QED
    BY <1>6, <2>1, <2>2
<1>7. ASSUME Len(p) = 1, NEW j \in DOMAIN Table, OwnerOf(p) = Table[j][1],
             o \in {Table[j][n] : n \in 1 .. Len(Table[j])}
      PROVE  o # F
  <2>1. PICK l \in DOMAIN Table : F = Table[l][1]
    BY <1>7 DEF RouteGood, Firsts, p
  <2>2. F = o => F = OwnerOf(p)
    BY <1>7, <2>1, FirstsAreFirst
  <2>3. OwnerOf(p) = r
    <3>1. Table[j][1] \in Initial
      <4>1. Table[j] \in Seq(Initial) /\ Len(Table[j]) \in Nat \ {0}
        BY TableLists DEF IsTable
      <4> QED
        BY <4>1, ElementOfSeq
    <3>2. Table[j][1] # NoRank
      BY <3>1 DEF Initial, NoRank
    <3> QED
      BY <1>7, <3>2 DEF p
  <2> QED
    BY <2>2, <2>3
<1> QED
  BY <1>1, <1>3, <1>5, <1>6, <1>7

\* Whoever has forwarded a request, as the client may have asked the wrong
\* MDS, is none of those that are asked for it: c is the one the client has
\* asked.
FrameAlone(c, f) ==
  /\ f.type = "SLAVEREQ" => f.to # c
  /\ f.pc \in {"scan", "slave"} => \A i \in DOMAIN f.local.others : f.local.others[i] # c

AloneIInv == \A k \in DOMAIN stack : FrameAlone(stack[1].to, stack[k])

\* The MDSs that a handler finds it has to ask are none of the others in it.
LEMMA ScanIsAlone ==
  ASSUME DataIInv, ChainIInv, FoundIInv, NEW r \in Ranks, OpScan(r), NEW local,
         ~Fail, local.others = Others(r, Req)
  PROVE  \A i \in DOMAIN local.others : local.others[i] # stack[1].to
<1>1. /\ stack # <<>> /\ Top.to = r /\ Top.pc = "call" /\ Req.op \in {"RMDIR", "LISTDIR"}
      /\ Top.type \in {"CLIENTREQ", "FORWARD"} /\ RequestOK(DOMAIN heap, Req)
      /\ Mine(r, Req.fullpath) /\ heap[Req.ino].isDir
  BY RequestAtTop DEF OpScan, ScansDirectory, Executes
<1>2. /\ Len(stack) \in DOMAIN stack /\ 1 \in DOMAIN stack
      /\ Top = stack[Len(stack)] /\ FrameShape(stack, Len(stack)) /\ FrameShape(stack, 1)
      /\ FrameChain(stack, Len(stack)) /\ FrameChain(stack, 1)
      /\ FrameFound(heap, Looking, Top) /\ TreeIInv
  BY <1>1, TopShape DEF DataIInv, AskerIInv, RequestsIInv, ShapeIInv, ChainIInv, FoundIInv, FramesFound
<1>3. Req.ino \in DOMAIN heap /\ Req.fullpath \in Path /\ Plain(Req.fullpath)
  BY <1>1, <1>2 DEF RequestOK, FrameChain, Req
<1>4. CASE Top.type = "CLIENTREQ"
  <2>1. stack[1].to = r
    BY <1>1, <1>2, <1>4 DEF FrameShape
  <2>2. ASSUME NEW i \in DOMAIN Others(r, Req) PROVE Others(r, Req)[i] # r
    BY <1>2, <1>3, OthersOwn
  <2> QED
    BY <2>1, <2>2
<1>5. CASE Top.type = "FORWARD"
  <2>1. /\ Len(stack) = 2 /\ strategy = "subtree" /\ Top.to # Top.by /\ Req = stack[1].arg
        /\ Top.by = stack[1].to
    <3>1. Req = Top.arg.req /\ stack[Len(stack)].type = "FORWARD" /\ stack[Len(stack)] = Top
      BY <1>2, <1>5 DEF Req, RequestIn
    <3>2. /\ Len(stack) = 2 /\ strategy = "subtree" /\ Top.to # Top.by
          /\ Top.arg.req = stack[1].arg
          /\ Len(stack) > 1 => Top.by = stack[Len(stack) - 1].to
      BY <1>2, <3>1, Zenon DEF FrameChain
    <3>3. 2 > 1 /\ 2 - 1 = 1
      OBVIOUS
    <3> QED
      BY <3>1, <3>2, <3>3
  <2>2. RequestIn(stack[1]) = Req /\ stack[1].type = "CLIENTREQ"
    BY <1>2, <2>1 DEF FrameShape, RequestIn
  <2>3. RouteGood(Req.fullpath, stack[1].to)
    BY <1>2, <2>2 DEF FrameChain
  <2>4. Req.ino = Lookup(heap, Req.fullpath)
    BY <1>1, <1>2 DEF FrameFound, LookedUp, Req
  <2>5. OwnerOf(Req.fullpath) \in {r, NoRank}
    BY <1>1 DEF Mine
  <2>6. stack[1].to # r
    BY <1>1, <2>1
  <2>7. ASSUME NEW i \in DOMAIN Others(r, Req) PROVE Others(r, Req)[i] # stack[1].to
    <3> DEFINE m == Req
               F == stack[1].to
    <3>1. /\ TreeIInv /\ strategy = "subtree" /\ m.fullpath \in Path /\ Plain(m.fullpath)
          /\ m.ino = Lookup(heap, m.fullpath) /\ m.ino \in DOMAIN heap /\ heap[m.ino].isDir
          /\ OwnerOf(m.fullpath) \in {r, NoRank} /\ RouteGood(m.fullpath, F) /\ F # r
          /\ i \in DOMAIN Others(r, m)
      BY <1>1, <1>2, <1>3, <2>1, <2>3, <2>4, <2>5, <2>6, <2>7
    <3> HIDE DEF m, F
    <3>2. Others(r, m)[i] # F
      BY <3>1, ForwarderHasNoEntry
    <3> QED
      BY <3>2 DEF m, F
  <2> QED
    BY <2>7
<1> QED
  BY <1>1, <1>4, <1>5

\* The handler at the top stays like that when it goes on,
LEMMA GoesOnAlone ==
  ASSUME DataIInv, ChainIInv, FoundIInv, AloneIInv, stack # <<>>, NEW r \in Ranks, Top.to = r,
         NEW f, GoesOn(r, f), f.pc = "scan" => TopReplaced(stack', f)
  PROVE  FrameAlone(stack[1].to, f)
<1>1. /\ FrameAlone(stack[1].to, Top) /\ FrameOK(DOMAIN heap, Serving, Top) /\ FrameType(Top)
      /\ RevIInv /\ ShapeIInv /\ Len(stack) \in Nat \ {0}
  BY TopFrame, TopShape DEF AloneIInv
<1>2. f.type = Top.type /\ f.to = Top.to
  BY DEF GoesOn, Moved
<1>3. f.type = "SLAVEREQ" => f.to # stack[1].to
  BY <1>1, <1>2 DEF FrameAlone
<1>4. CASE f.pc = "tail"
  BY <1>3, <1>4 DEF FrameAlone
<1>5. CASE f.pc = "scan" /\ OpScan(r) /\ f.local.others = Others(r, Req)
  <2>1. ~Fail
    <3>1. Fail => Len(stack') = Len(stack) - 1
      BY <1>1, ReturnLeaves DEF Fail
    <3>2. Len(stack') = Len(stack)
      BY <1>5 DEF TopReplaced
    <3> QED
      BY <1>1, <3>1, <3>2
  <2> QED
    BY <1>3, <1>5, <2>1, ScanIsAlone DEF FrameAlone
<1>6. CASE f.pc = "scan" /\ SlaveReturns(r) /\ f.local.others = Top.local.others
  <2>1. Top.pc = "slave"
    BY <1>6 DEF SlaveReturns, Resumed
  <2> QED
    BY <1>1, <1>3, <1>6, <2>1 DEF FrameAlone
<1>7. CASE f.pc = "slave" /\ AskSlave(r) /\ f.local.others = Tail(Top.local.others)
  <2> DEFINE others == Top.local.others
  <2>1. Top.pc = "scan" /\ others # <<>>
    BY <1>7 DEF AskSlave, Resumed
  <2>2. others \in Seq(Serving \ {r}) /\ \A i \in DOMAIN others : others[i] # stack[1].to
    BY <1>1, <2>1 DEF FrameAlone, FrameOK, LocalOK
  <2> HIDE DEF others
  <2>3. /\ Len(others) \in Nat \ {0} /\ DOMAIN others = 1 .. Len(others)
        /\ Tail(others) \in Seq(Serving \ {r}) /\ Len(Tail(others)) = Len(others) - 1
        /\ \A i \in 1 .. Len(Tail(others)) : Tail(others)[i] = others[i + 1]
    BY <2>1, <2>2, HeadTailProperties, LenProperties, EmptySeq
  <2>4. DOMAIN Tail(others) = 1 .. Len(Tail(others))
    BY <2>3, LenProperties
  <2>5. \A i \in DOMAIN Tail(others) : i + 1 \in DOMAIN others /\ Tail(others)[i] = others[i + 1]
    BY <2>3, <2>4
  <2>6. \A i \in DOMAIN Tail(others) : Tail(others)[i] # stack[1].to
    BY <2>2, <2>5
  <2>7. f.local.others = Tail(others)
    BY <1>7 DEF others
  <2> QED
    BY <1>3, <2>6, <2>7 DEF FrameAlone
<1> QED
  BY <1>4, <1>5, <1>6, <1>7 DEF GoesOn

\* and so is the handler it starts.
LEMMA SentAlone ==
  ASSUME DataIInv, AloneIInv, stack # <<>>, NEW r \in Ranks, Top.to = r, NEW g, SentBy(r, g)
  PROVE  FrameAlone(stack[1].to, g)
<1>1. FrameAlone(stack[1].to, Top) /\ FrameOK(DOMAIN heap, Serving, Top)
  BY TopFrame, TopShape DEF AloneIInv
<1>2. g.pc = "call"
  BY DEF SentBy
<1>3. ASSUME g.type = "SLAVEREQ" PROVE g.to # stack[1].to
  <2> DEFINE others == Top.local.others
  <2>1. AskSlave(r) /\ g.to = Head(others)
    BY <1>3 DEF SentBy
  <2>2. Top.pc = "scan" /\ others # <<>>
    BY <2>1 DEF AskSlave, Resumed
  <2>3. others \in Seq(Serving \ {r}) /\ \A i \in DOMAIN others : others[i] # stack[1].to
    BY <1>1, <2>2 DEF FrameAlone, FrameOK, LocalOK
  <2> HIDE DEF others
  <2>4. Len(others) \in Nat \ {0} /\ DOMAIN others = 1 .. Len(others) /\ Head(others) = others[1]
    BY <2>2, <2>3, LenProperties, EmptySeq
  <2> QED
    BY <2>1, <2>3, <2>4
<1> QED
  BY <1>2, <1>3 DEF FrameAlone

\* Every step of an MDS keeps it.
LEMMA StackStepKeepsAlone ==
  ASSUME DataIInv, ChainIInv, FoundIInv, AloneIInv, stack # <<>>,
         NEW r \in Ranks, Top.to = r, StackStep(r)
  PROVE  AloneIInv'
<1> DEFINE n == Len(stack)
<1>0. PICK c : c = stack[1].to
  OBVIOUS
<1>1. /\ n \in Nat \ {0} /\ DOMAIN stack = 1 .. n /\ Top = stack[n] /\ RevIInv /\ ShapeIInv
      /\ \A k \in DOMAIN stack : FrameAlone(c, stack[k])
  BY <1>0, TopShape DEF AloneIInv, DataIInv, AskerIInv, RequestsIInv
<1> HIDE DEF n
<1> SUFFICES \A k \in DOMAIN stack' : stack'[1].to = c /\ FrameAlone(c, stack'[k])
  BY DEF AloneIInv
<1>2. CASE \E b : Return(b)
  <2>1. DOMAIN stack' = 1 .. n - 1 /\ \A k \in DOMAIN stack' : k \in DOMAIN stack /\ stack'[k] = stack[k]
    BY <1>1, <1>2, ReturnLeaves DEF n
  <2>2. \A k \in DOMAIN stack' : 1 \in DOMAIN stack'
    BY <1>1, <2>1
  <2> QED
    BY <1>0, <1>1, <2>1, <2>2
<1>3. ASSUME NEW f, TopReplaced(stack', f), GoesOn(r, f)
      PROVE  \A k \in DOMAIN stack' : stack'[1].to = c /\ FrameAlone(c, stack'[k])
  <2>1. FrameAlone(c, f)
    BY <1>0, <1>3, GoesOnAlone
  <2>2. /\ DOMAIN stack' = 1 .. n /\ stack'[n] = f /\ f.to = Top.to
        /\ \A k \in 1 .. n - 1 : stack'[k] = stack[k]
    BY <1>3 DEF TopReplaced, GoesOn, Moved, n
  <2>3. \A k \in 1 .. n : k = n \/ k \in 1 .. n - 1
    BY <1>1
  <2>4. 1 \in 1 .. n
    BY <1>1
  <2>5. stack'[1].to = c
    BY <1>0, <1>1, <2>2, <2>3, <2>4
  <2> QED
    BY <1>1, <2>1, <2>2, <2>3, <2>5
<1>4. ASSUME NEW f, NEW g, Nests(f, g), GoesOn(r, f), f.pc # "scan", SentBy(r, g)
      PROVE  \A k \in DOMAIN stack' : stack'[1].to = c /\ FrameAlone(c, stack'[k])
  <2>1. FrameAlone(c, f) /\ FrameAlone(c, g)
    BY <1>0, <1>4, GoesOnAlone, SentAlone
  <2>2. /\ DOMAIN stack' = 1 .. n + 1 /\ stack'[n] = f /\ stack'[n + 1] = g /\ f.to = Top.to
        /\ \A k \in 1 .. n - 1 : stack'[k] = stack[k]
    BY <1>4 DEF Nests, GoesOn, Moved, n
  <2>3. \A k \in 1 .. n + 1 : k = n + 1 \/ k = n \/ k \in 1 .. n - 1
    BY <1>1
  <2>4. 1 = n \/ 1 \in 1 .. n - 1
    BY <1>1
  <2>5. stack'[1].to = c
    BY <1>0, <1>1, <2>2, <2>4
  <2> QED
    BY <1>1, <2>1, <2>2, <2>3, <2>5
<1> QED
  BY <1>2, <1>3, <1>4 DEF StackStep

\* The client asks when no handler runs.
LEMMA ClientAsks ==
  ASSUME HashIsNat, DataIInv, LookupRemote \/ Request
  PROVE  stack' = <<>> \/ \E arg, to : Starts(arg, to)
<1>1. /\ stack = <<>> /\ call \in Calls
      /\ client.pc = "walk" => client.at \in 1 .. Len(Walk)
  BY DEF LookupRemote, Request, DataIInv, AskerIInv, RequestsIInv, ClientWaits, WalkIInv
<1>2. PICK op, p, name, ino, data :
        SendRequest(op, p, name, ino, data) /\ p \in Path /\ Plain(p)
  BY <1>1, WalkIs DEF LookupRemote, Request
<1> DEFINE arg == MClientRequest(op, p, name, ino, data)
<1>3. PICK to : to = IF FindRoute(p) = NoRank THEN 0 ELSE FindRoute(p)
  OBVIOUS
<1>4. stack' = <<>> \/ Starts(arg, to)
  BY <1>1, <1>2, <1>3, ClientSends
<1> HIDE DEF arg
<1> QED
  BY <1>4

\* So does every step.
LEMMA NextKeepsAlone ==
  ASSUME HashIsNat, DataIInv, ChainIInv, FoundIInv, AloneIInv, [Next]_vars
  PROVE  AloneIInv'
<1>1. CASE UNCHANGED stack
  BY <1>1 DEF AloneIInv
<1>2. CASE LookupRemote \/ Request
  <2>3. stack' = <<>> \/ \E arg, to : Starts(arg, to)
    BY <1>2, ClientAsks
  <2>4. CASE stack' = <<>>
    BY <2>4 DEF AloneIInv
  <2>5. CASE \E arg, to : Starts(arg, to)
    BY <2>5 DEF AloneIInv, Starts, FrameAlone
  <2> QED
    BY <2>3, <2>4, <2>5
<1>3. CASE stack # <<>> /\ \E b : Return(b)
  <2>1. /\ DOMAIN stack' = 1 .. Len(stack) - 1 /\ Len(stack) \in Nat \ {0}
        /\ \A k \in DOMAIN stack' : k \in DOMAIN stack /\ stack'[k] = stack[k]
    BY <1>3, ReturnLeaves, TopShape DEF DataIInv, AskerIInv, RequestsIInv
  <2>2. \A k \in DOMAIN stack' : 1 \in DOMAIN stack'
    BY <2>1
  <2> QED
    BY <2>1, <2>2 DEF AloneIInv
<1>4. CASE stack # <<>> /\ \E r \in Ranks : MdsStep(r) /\ Top.to = r /\ StackStep(r)
  BY <1>4, StackStepKeepsAlone
<1> QED
  BY <1>1, <1>2, <1>3, <1>4, NextStackStep

\* At first nobody is asked.
LEMMA InitAlone == Init => AloneIInv
BY DEF Init, MessagingInit, AloneIInv

\* The handlers are not nested deeper than four, and nobody is among them twice.
LEMMA EachWaitsOnce == DataIInv /\ ChainIInv /\ AloneIInv => NobodyWaitsTwice
<1> SUFFICES ASSUME DataIInv, ChainIInv, AloneIInv, NEW j \in DOMAIN stack, NEW k \in DOMAIN stack,
                    j # k
             PROVE  stack[j].by # stack[k].by
  BY DEF NobodyWaitsTwice
<1>1. stack # <<>>
  OBVIOUS
<1>2. PICK n \in Nat : n = Len(stack) /\ DOMAIN stack = 1 .. n
  BY <1>1, TopShape DEF DataIInv, AskerIInv, RequestsIInv
<1>3. /\ \A i \in 1 .. n : FrameShape(stack, i) /\ FrameChain(stack, i)
      /\ \A i \in 1 .. n : FrameOK(DOMAIN heap, Serving, stack[i])
      /\ \A i \in 1 .. n : FrameAlone(stack[1].to, stack[i])
      /\ Client \notin Ranks
  BY <1>2, RequestProcsAssumption DEF DataIInv, AskerIInv, ShapeIInv, ChainIInv, AloneIInv, FramesOK
<1>4. /\ 1 \in 1 .. n => stack[1].type = "CLIENTREQ" /\ stack[1].by = Client
      /\ \A i \in 2 .. n : /\ stack[i].by \in Ranks /\ stack[i].by = stack[i - 1].to
                           /\ stack[i].type \in {"FORWARD", "REPLY", "SLAVEREQ", "SLAVEREPLY"}
                           /\ stack[i].type = "FORWARD" => i = 2 /\ stack[2].to # stack[2].by
                           /\ stack[i].type \in {"REPLY", "SLAVEREQ"} =>
                                stack[i - 1].type \in {"CLIENTREQ", "FORWARD"}
                           /\ stack[i].type = "SLAVEREPLY" => stack[i - 1].type = "SLAVEREQ"
                           /\ stack[i].type = "SLAVEREQ" =>
                                stack[i].to # stack[i].by /\ stack[i].to # stack[1].to
  <2>1. 1 \in 1 .. n => stack[1].type = "CLIENTREQ" /\ stack[1].by = Client
    BY <1>3 DEF FrameShape
  <2>2. ASSUME NEW i \in 2 .. n
        PROVE  /\ stack[i].by \in Ranks /\ stack[i].by = stack[i - 1].to
               /\ stack[i].type \in {"FORWARD", "REPLY", "SLAVEREQ", "SLAVEREPLY"}
               /\ stack[i].type = "FORWARD" => i = 2 /\ stack[2].to # stack[2].by
               /\ stack[i].type \in {"REPLY", "SLAVEREQ"} =>
                    stack[i - 1].type \in {"CLIENTREQ", "FORWARD"}
               /\ stack[i].type = "SLAVEREPLY" => stack[i - 1].type = "SLAVEREQ"
               /\ stack[i].type = "SLAVEREQ" =>
                    stack[i].to # stack[i].by /\ stack[i].to # stack[1].to
    <3>1. i \in 1 .. n /\ i # 1 /\ i > 1
      BY <1>2
    <3>2. /\ FrameShape(stack, i) /\ FrameChain(stack, i) /\ FrameOK(DOMAIN heap, Serving, stack[i])
          /\ FrameAlone(stack[1].to, stack[i])
      BY <1>3, <3>1
    <3> QED
      BY <3>1, <3>2 DEF FrameShape, FrameChain, FrameOK, FrameAlone
  <2> QED
    BY <2>1, <2>2
<1> DEFINE ty(i) == stack[i].type
           by(i) == stack[i].by
           to(i) == stack[i].to
<1>5. 1 \in 1 .. n => ty(1) = "CLIENTREQ" /\ by(1) = Client
  BY <1>4
<1>6. ASSUME 2 \in 1 .. n
      PROVE  /\ ty(2) \in {"FORWARD", "REPLY", "SLAVEREQ"} /\ by(2) \in Ranks /\ by(2) = to(1)
             /\ ty(2) \in {"FORWARD", "SLAVEREQ"} => to(2) # by(2)
  <2>1. 2 \in 2 .. n /\ 1 \in 1 .. n /\ 2 - 1 = 1
    BY <1>6
  <2> QED
    BY <1>4, <1>5, <2>1
<1>7. ASSUME 3 \in 1 .. n
      PROVE  /\ 2 \in 1 .. n /\ by(3) \in Ranks /\ by(3) # by(2)
             /\ \/ ty(3) \in {"REPLY", "SLAVEREPLY"}
                \/ ty(3) = "SLAVEREQ" /\ to(3) \notin {by(2), by(3)}
  <2>1. 3 \in 2 .. n /\ 2 \in 1 .. n /\ 3 - 1 = 2
    BY <1>7
  <2>2. /\ ty(3) \in {"FORWARD", "REPLY", "SLAVEREQ", "SLAVEREPLY"} /\ ty(3) # "FORWARD"
        /\ by(3) \in Ranks /\ by(3) = to(2)
        /\ ty(3) \in {"REPLY", "SLAVEREQ"} => ty(2) \in {"CLIENTREQ", "FORWARD"}
        /\ ty(3) = "SLAVEREPLY" => ty(2) = "SLAVEREQ"
        /\ ty(3) = "SLAVEREQ" => to(3) # by(3) /\ to(3) # to(1)
    BY <1>4, <2>1
  <2> HIDE DEF ty, by, to
  <2> QED
    BY <1>6, <2>1, <2>2
<1>8. ASSUME 4 \in 1 .. n
      PROVE  /\ 2 \in 1 .. n /\ 3 \in 1 .. n
             /\ by(4) \in Ranks /\ by(4) \notin {by(2), by(3)} /\ ty(4) = "SLAVEREPLY"
  <2>1. 4 \in 2 .. n /\ 3 \in 1 .. n /\ 2 \in 1 .. n /\ 4 - 1 = 3
    BY <1>8
  <2>2. /\ ty(4) \in {"FORWARD", "REPLY", "SLAVEREQ", "SLAVEREPLY"} /\ ty(4) # "FORWARD"
        /\ by(4) \in Ranks /\ by(4) = to(3)
        /\ ty(4) \in {"REPLY", "SLAVEREQ"} => ty(3) \in {"CLIENTREQ", "FORWARD"}
        /\ ty(4) = "SLAVEREPLY" => ty(3) = "SLAVEREQ"
    BY <1>4, <2>1
  <2> HIDE DEF ty, by, to
  <2> QED
    BY <1>7, <2>1, <2>2
<1>9. 5 \notin 1 .. n
  <2> SUFFICES ASSUME 5 \in 1 .. n PROVE FALSE
    OBVIOUS
  <2>1. 5 \in 2 .. n /\ 4 \in 1 .. n /\ 5 - 1 = 4
    OBVIOUS
  <2>2. /\ ty(5) \in {"FORWARD", "REPLY", "SLAVEREQ", "SLAVEREPLY"} /\ ty(5) # "FORWARD"
        /\ ty(5) \in {"REPLY", "SLAVEREQ"} => ty(4) \in {"CLIENTREQ", "FORWARD"}
        /\ ty(5) = "SLAVEREPLY" => ty(4) = "SLAVEREQ"
    BY <1>4, <2>1
  <2> HIDE DEF ty, by, to
  <2> QED
    BY <1>8, <2>1, <2>2
<1>10. j \in 1 .. n /\ k \in 1 .. n /\ n <= 4
  BY <1>2, <1>9
<1>11. j \in {1, 2, 3, 4} /\ k \in {1, 2, 3, 4}
  BY <1>10
<1>12. ASSUME NEW i \in 1 .. n, NEW l \in 1 .. n, i < l PROVE by(i) # by(l)
  <2>1. l \in {2, 3, 4} /\ i \in {1, 2, 3} /\ ~(l = 2 /\ i \in {2, 3}) /\ ~(l = 3 /\ i = 3)
    BY <1>10, <1>12
  <2>2. 1 \in 1 .. n
    OBVIOUS
  <2> HIDE DEF ty, by, to
  <2> QED
    BY <1>3, <1>5, <1>6, <1>7, <1>8, <1>12, <2>1, <2>2
<1>13. CASE j < k
  BY <1>10, <1>12, <1>13
<1>14. CASE k < j
  BY <1>10, <1>12, <1>14
<1> QED
  BY <1>10, <1>13, <1>14
-----------------------------------------------------------------------------
(***************************************************************************)
(* Cache or not, an inode goes with its path: whatever a request, an answer, *)
(* the client or its cache has under a path was allocated there.  Inodes are *)
(* deleted but never moved, so that what is true of them stays true.  This   *)
(* is what the invariants need and no property of the program: the number    *)
(* of an inode is that of its allocation, while the memory of one that was   *)
(* deleted may be allocated again, and the pointer to it lead there.         *)
(***************************************************************************)
CachedUnderOwnPath ==
  \A i \in DOMAIN cache : PathOf(heap, cache[i].value) = cache[i].key

FramePath(h, W, f) ==
  /\ f.type \in {"CLIENTREQ", "FORWARD"} =>
       /\ Plain(RequestIn(f).fullpath)
       /\ \A w \in W : RequestIn(f).op = "LOOKUP" /\ RequestIn(f).fullpath = w
       /\ RequestIn(f).op # "LOOKUP" => PathOf(h, RequestIn(f).ino) = LookedUp(RequestIn(f))
       /\ RequestIn(f).op \in {"CREATE", "MKDIR"} =>
            RequestIn(f).fullpath # RootPath /\ RequestIn(f).name = BaseName(RequestIn(f).fullpath)
  /\ f.type = "REPLY" =>
       /\ \A w \in W : f.arg.fullpath = w
       /\ f.arg.ino # Null => PathOf(h, f.arg.ino) = f.arg.fullpath

FramePaths(h, W, s) == \A k \in DOMAIN s : FramePath(h, W, s[k])

ClientPath ==
  /\ client.pc = "found" => PathOf(heap, client.ino) = WalkTo(call)
  /\ client.pc = "looking" /\ callback.ino # Null => PathOf(heap, callback.ino) = Walk[client.at]

\* The inductive invariant.
PathIInv == CachedUnderOwnPath /\ ClientPath /\ FramePaths(heap, Looking, stack)

\* What had a path still has it.
LEMMA PathsStay ==
  ASSUME DataIInv, [Next]_vars
  PROVE  /\ \A i \in DOMAIN heap : PathOf(heap', i) = PathOf(heap, i)
         /\ \A W : \A f : FrameOK(DOMAIN heap, Serving, f) /\ FramePath(heap, W, f) => FramePath(heap', W, f)
<1>1. Growing
  BY NextGrows
<1>2. IsHeap(heap) /\ Kept(heap, heap') /\ HeapIInv(heap')
  BY <1>1 DEF Growing, DataIInv, TreeIInv, HeapIInv, IsHeap, IsTree, IsInode, InodeFields, Root, Null
<1>3. IsHeap(heap')
  BY <1>2 DEF HeapIInv
<1>4. \A i \in DOMAIN heap : PathOf(heap', i) = PathOf(heap, i)
  BY <1>2, <1>3, PathOfStays
<1>5. ASSUME NEW W, NEW f, FrameOK(DOMAIN heap, Serving, f), FramePath(heap, W, f)
      PROVE  FramePath(heap', W, f)
  <2>1. /\ f.type \in {"CLIENTREQ", "FORWARD"} /\ RequestIn(f).op # "LOOKUP" => RequestIn(f).ino \in DOMAIN heap
        /\ f.type = "REPLY" /\ f.arg.ino # Null => f.arg.ino \in DOMAIN heap
    BY <1>5 DEF FrameOK, RequestOK
  <2> QED
    BY <1>4, <1>5, <2>1 DEF FramePath
<1> QED
  BY <1>4, <1>5

\* The entries of a cache that was used are the old ones and what was set.
LEMMA FrontEntries ==
  ASSUME NEW D, NEW c, CacheOK(D, c), NEW i \in Nat \ {0}, i <= Len(c) + 1, NEW x,
         NEW j \in DOMAIN MovedToFront(c, i, x)
  PROVE  MovedToFront(c, i, x)[j] = x \/ \E l \in DOMAIN c : MovedToFront(c, i, x)[j] = c[l]
<1> DEFINE n == IF i <= Len(c) THEN Len(c) ELSE i
           d == MovedToFront(c, i, x)
<1>1. Len(c) \in Nat /\ DOMAIN c = 1 .. Len(c)
  BY DEF CacheOK
<1>2. d = [l \in 1 .. n |-> IF l = 1 THEN x ELSE IF l <= i THEN c[l - 1] ELSE c[l]]
  BY DEF MovedToFront
<1>3. j \in 1 .. n
  BY <1>2
<1>4. CASE j = 1
  BY <1>2, <1>3, <1>4
<1>5. CASE j # 1 /\ j <= i
  <2>1. j - 1 \in 1 .. Len(c)
    BY <1>1, <1>3, <1>5
  <2> HIDE DEF n, d
  <2>2. d[j] = c[j - 1]
    BY <1>2, <1>3, <1>5
  <2> QED
    BY <1>1, <2>1, <2>2 DEF d
<1>6. CASE j # 1 /\ ~(j <= i)
  <2>1. j \in 1 .. Len(c)
    BY <1>1, <1>3, <1>6
  <2> HIDE DEF n, d
  <2>2. d[j] = c[j]
    BY <1>2, <1>3, <1>6
  <2> QED
    BY <1>1, <2>1, <2>2 DEF d
<1> QED
  BY <1>4, <1>5, <1>6

\* So get and set keep every inode under its key.
LEMMA CacheEntries ==
  ASSUME NEW D, NEW c, CacheOK(D, c), NEW k
  PROVE  /\ \A j \in DOMAIN LRUGet(c, k) : \E l \in DOMAIN c : LRUGet(c, k)[j] = c[l]
         /\ \A v : \A j \in DOMAIN LRUSet(c, CacheSize, k, v) :
              \/ LRUSet(c, CacheSize, k, v)[j] = [key |-> k, value |-> v]
              \/ \E l \in DOMAIN c : LRUSet(c, CacheSize, k, v)[j] = c[l]
         /\ Cached(c, k) => \E l \in DOMAIN c : c[l].key = k /\ CachedValue(c, k) = c[l].value
<1>1. /\ Len(c) \in Nat /\ DOMAIN c = 1 .. Len(c) /\ CacheSize \in Nat \ {0}
  BY CacheAssumption DEF CacheOK
<1> DEFINE i == PlaceOf(c, k)
<1>2. Cached(c, k) => i \in DOMAIN c /\ c[i].key = k
  BY DEF Cached, PlaceOf
<1> HIDE DEF i
<1>3. ASSUME NEW j \in DOMAIN LRUGet(c, k) PROVE \E l \in DOMAIN c : LRUGet(c, k)[j] = c[l]
  <2>1. CASE Cached(c, k)
    <3>1. i \in DOMAIN c /\ i \in Nat \ {0} /\ i <= Len(c) + 1 /\ LRUGet(c, k) = MovedToFront(c, i, c[i])
      BY <1>1, <1>2, <2>1 DEF LRUGet, i
    <3>2. j \in DOMAIN MovedToFront(c, i, c[i])
      BY <3>1
    <3>3. MovedToFront(c, i, c[i])[j] = c[i] \/ \E l \in DOMAIN c : MovedToFront(c, i, c[i])[j] = c[l]
      BY <3>1, <3>2, FrontEntries
    <3> QED
      BY <3>1, <3>3
  <2>2. CASE ~Cached(c, k)
    BY <1>3, <2>2 DEF LRUGet
  <2> QED
    BY <2>1, <2>2
<1>4. ASSUME NEW v, NEW j \in DOMAIN LRUSet(c, CacheSize, k, v)
      PROVE  \/ LRUSet(c, CacheSize, k, v)[j] = [key |-> k, value |-> v]
             \/ \E l \in DOMAIN c : LRUSet(c, CacheSize, k, v)[j] = c[l]
  <2> DEFINE place == IF Cached(c, k) THEN i ELSE IF Len(c) = CacheSize THEN Len(c) ELSE Len(c) + 1
             x == [key |-> k, value |-> v]
  <2>1. place \in Nat \ {0} /\ place <= Len(c) + 1
    <3> DEFINE m == Len(c)
    <3>1. m \in Nat /\ CacheSize \in Nat \ {0} /\ (Cached(c, k) => i \in 1 .. m)
      BY <1>1, <1>2
    <3> HIDE DEF m
    <3>2. CASE Cached(c, k)
      BY <3>1, <3>2 DEF m
    <3>3. CASE ~Cached(c, k)
      BY <3>1, <3>3 DEF m
    <3> QED
      BY <3>2, <3>3
  <2>2. LRUSet(c, CacheSize, k, v) = MovedToFront(c, place, x)
    BY DEF LRUSet, i
  <2> HIDE DEF place, x
  <2>3. j \in DOMAIN MovedToFront(c, place, x)
    BY <1>4, <2>2
  <2>4. MovedToFront(c, place, x)[j] = x \/ \E l \in DOMAIN c : MovedToFront(c, place, x)[j] = c[l]
    BY <2>1, <2>3, FrontEntries
  <2> QED
    BY <2>2, <2>4 DEF x
<1>5. Cached(c, k) => CachedValue(c, k) = c[i].value
  BY DEF CachedValue, i
<1> QED
  BY <1>2, <1>3, <1>4, <1>5

\* The cache has what it had, and the inode of an answer under its path.
LEMMA NextKeepsCachePaths ==
  ASSUME DataIInv, PathIInv, [Next]_vars
  PROVE  CachedUnderOwnPath'
<1>1. /\ CacheOK(DOMAIN heap, cache) /\ CachedUnderOwnPath
      /\ \A i \in DOMAIN heap : PathOf(heap', i) = PathOf(heap, i)
  BY PathsStay DEF DataIInv, PathIInv
<1>2. ASSUME NEW x, \/ \E l \in DOMAIN cache : x = cache[l]
                    \/ x.value \in DOMAIN heap /\ PathOf(heap, x.value) = x.key
      PROVE  PathOf(heap', x.value) = x.key
  BY <1>1, <1>2 DEF CacheOK, CachedUnderOwnPath
<1>3. CASE UNCHANGED cache
  BY <1>2, <1>3 DEF CachedUnderOwnPath
<1>4. ASSUME NEW k, cache' = LRUGet(cache, k) PROVE CachedUnderOwnPath'
  <2>1. \A j \in DOMAIN cache' : \E l \in DOMAIN cache : cache'[j] = cache[l]
    BY <1>1, <1>4, CacheEntries
  <2> QED
    BY <1>2, <2>1 DEF CachedUnderOwnPath
<1>5. CASE LookupCached
  BY <1>4, <1>5 DEF LookupCached
<1>6. CASE HandleReply
  <2> DEFINE p == Top.arg.fullpath
             v == Top.arg.ino
             x == [key |-> p, value |-> v]
  <2>1. cache' = IF v # Null THEN LRUSet(cache, CacheSize, p, v) ELSE LRUGet(cache, p)
    BY <1>6 DEF HandleReply, CacheWith
  <2>2. v # Null => v \in DOMAIN heap /\ PathOf(heap, v) = p
    <3>1. stack # <<>> /\ Top.type = "REPLY" /\ v \in DOMAIN heap \cup {Null}
      BY <1>6, AnswerIs DEF HandleReply, Called
    <3>2. FramePath(heap, Looking, Top)
      BY <3>1, TopFrame, TopShape DEF PathIInv, FramePaths
    <3> QED
      BY <3>1, <3>2 DEF FramePath
  <2>3. CASE v = Null
    BY <1>4, <2>1, <2>3
  <2>4. CASE v # Null
    <3>1. \A j \in DOMAIN cache' : cache'[j] = x \/ \E l \in DOMAIN cache : cache'[j] = cache[l]
      <4> HIDE DEF p, v
      <4> QED
        BY <1>1, <2>1, <2>4, CacheEntries
    <3>2. x.value = v /\ x.key = p
      OBVIOUS
    <3> HIDE DEF x
    <3>3. PathOf(heap', x.value) = x.key
      BY <1>2, <2>2, <2>4, <3>2
    <3> QED
      BY <1>2, <3>1, <3>3 DEF CachedUnderOwnPath
  <2> QED
    BY <2>3, <2>4
<1> QED
  BY <1>3, <1>5, <1>6, OthersKeepClient

\* The client has the inode of the path it is at, or will have.
LEMMA NextKeepsClientPath ==
  ASSUME DataIInv, PathIInv, [Next]_vars
  PROVE  ClientPath'
<1>0. /\ ClientPath /\ {"pc", "at", "ino"} \subseteq DOMAIN client
      /\ client.pc \in {"walk", "looking"} =>
           client.at \in 1 .. Len(Walk) /\ Len(Walk) \in Nat \ {0} /\ Walk[Len(Walk)] = WalkTo(call)
      /\ CallbackOK(DOMAIN heap, callback)
      /\ client.pc = "found" => client.ino \in DOMAIN heap
      /\ \A i \in DOMAIN heap : PathOf(heap', i) = PathOf(heap, i)
  BY WalkIs, PathsStay DEF PathIInv, DataIInv, WalkIInv
<1>1. ASSUME UNCHANGED callVars, UNCHANGED callback PROVE ClientPath'
  <2>1. Walk' = Walk /\ WalkTo(call)' = WalkTo(call)
    BY <1>1 DEF callVars, Walk, WalkTo
  <2> QED
    BY <1>0, <1>1, <2>1 DEF ClientPath, callVars, CallbackOK
<1>2. ASSUME client'.pc \notin {"found", "looking"} PROVE ClientPath'
  BY <1>2 DEF ClientPath
<1>3. ASSUME NEW b, Finish(b) PROVE ClientPath'
  BY <1>2, <1>3 DEF Finish, NotWalking
<1>4. ASSUME NEW ino \in DOMAIN heap, Found(ino), client.pc \in {"walk", "looking"},
             PathOf(heap, ino) = Walk[client.at]
      PROVE  ClientPath'
  <2>1. call' = call /\ client.at \in 1 .. Len(Walk)
    BY <1>0, <1>4 DEF Found
  <2>2. CASE client.at < Len(Walk)
    BY <1>2, <1>4, <2>2 DEF Found
  <2>3. CASE ~(client.at < Len(Walk))
    <3>1. client.at = Len(Walk)
      BY <1>0, <1>4, <2>1, <2>3
    <3>2. client'.pc = "found" /\ client'.ino = ino
      BY <1>4, <2>3 DEF Found
    <3>3. WalkTo(call') = WalkTo(call)
      BY <2>1 DEF WalkTo
    <3>4. PathOf(heap', ino) = WalkTo(call)
      BY <1>0, <1>4, <3>1
    <3> QED
      BY <3>2, <3>3, <3>4 DEF ClientPath, WalkTo
  <2> QED
    BY <2>2, <2>3
<1>5. ASSUME NEW c \in Calls, Begin(c) PROVE ClientPath'
  <2>1. client'.pc = "walk"
    BY <1>0, <1>5 DEF Begin
  <2> QED
    BY <1>2, <2>1
<1>6. CASE LookupCached
  <2> DEFINE v == CachedValue(cache, Walk[client.at])
  <2>1. client.pc = "walk" /\ Found(v) /\ Cached(cache, Walk[client.at]) /\ CacheOK(DOMAIN heap, cache)
    BY <1>6 DEF LookupCached, DataIInv
  <2>2. PICK l \in DOMAIN cache : cache[l].key = Walk[client.at] /\ v = cache[l].value
    BY <2>1, CacheEntries
  <2>3. v \in DOMAIN heap /\ PathOf(heap, v) = Walk[client.at]
    BY <2>1, <2>2 DEF CacheOK, PathIInv, CachedUnderOwnPath
  <2> HIDE DEF v
  <2> QED
    BY <1>4, <2>1, <2>3
<1>7. CASE LookupRemote
  <2>1. client'.pc = "looking" /\ callback'.ino = Null
    BY <1>0, <1>7 DEF LookupRemote, SendRequest, CallbackOK
  <2> QED
    BY <2>1 DEF ClientPath
<1>8. CASE LookupReturns
  <2>1. CASE callback.ino = Null
    BY <1>3, <1>8, <2>1 DEF LookupReturns
  <2>2. CASE callback.ino # Null
    <3>1. client.pc = "looking" /\ Found(callback.ino) /\ callback.ino \in DOMAIN heap
      BY <1>0, <1>8, <2>2 DEF LookupReturns, CallbackOK
    <3>2. PathOf(heap, callback.ino) = Walk[client.at]
      BY <1>0, <2>2, <3>1 DEF ClientPath
    <3> QED
      BY <1>4, <3>1, <3>2
  <2> QED
    BY <2>1, <2>2
<1>9. CASE Answered \/ RequestReturns
  BY <1>3, <1>9 DEF Answered, RequestReturns
<1>10. CASE Request
  <2>1. client'.pc = "asked"
    BY <1>0, <1>10 DEF Request
  <2> QED
    BY <1>2, <2>1
<1>11. CASE HandleReply
  <2>1. /\ UNCHANGED callVars /\ callback'.ino = Top.arg.ino /\ stack # <<>> /\ Top.type = "REPLY"
        /\ Top.arg.ino \in DOMAIN heap \cup {Null}
    BY <1>11, AnswerIs DEF HandleReply, Called
  <2>2. FramePath(heap, Looking, Top)
    BY <2>1, TopFrame, TopShape DEF PathIInv, FramePaths
  <2>3. stack # <<>> => client.pc \in {"looking", "asked"}
    BY DEF DataIInv, AskerIInv, RequestsIInv, ClientWaits
  <2>4. client.pc = "looking" /\ Top.arg.ino # Null => PathOf(heap', Top.arg.ino) = Walk[client.at]
    <3>1. ASSUME client.pc = "looking", Top.arg.ino # Null
          PROVE  PathOf(heap', Top.arg.ino) = Walk[client.at]
      <4>1. Walk[client.at] \in Looking
        BY <3>1 DEF Looking
      <4>2. Top.arg.fullpath = Walk[client.at] /\ PathOf(heap, Top.arg.ino) = Top.arg.fullpath
        BY <2>1, <2>2, <3>1, <4>1 DEF FramePath
      <4> QED
        BY <1>0, <2>1, <3>1, <4>2
    <3> QED
      BY <3>1
  <2>5. Walk' = Walk
    BY <2>1 DEF callVars, Walk
  <2> QED
    BY <2>1, <2>3, <2>4, <2>5 DEF ClientPath, callVars
<1>12. CASE LooksAtDeleted
  BY <1>1, <1>12 DEF LooksAtDeleted, Undefined
<1>13. CASE ClientStep
  BY <1>6, <1>7, <1>8, <1>9, <1>10, <1>11, <1>12, <1>13 DEF ClientStep
<1> QED
  BY <1>1, <1>5, <1>13, OthersKeepClient

\* A message of an MDS names the inode of its path.
LEMMA SentHasPath ==
  ASSUME HashIsNat, DataIInv, PathIInv, stack # <<>>, NEW r \in Ranks, MdsStep(r), NEW g, SentBy(r, g)
  PROVE  FramePath(heap', Looking, g)
<1>1. /\ FramePath(heap, Looking, Top) /\ FrameType(Top) /\ HeapIInv(heap)
      /\ Top.type \in {"CLIENTREQ", "FORWARD"} => RequestOK(DOMAIN heap, Req)
      /\ \A i \in DOMAIN heap : PathOf(heap', i) = PathOf(heap, i)
  BY TopFrame, TopShape, PathsStay DEF PathIInv, FramePaths, DataIInv, TreeIInv, Next, Step
<1>2. ASSUME Top.type \in {"CLIENTREQ", "FORWARD"}
      PROVE  /\ Req.fullpath \in Path /\ Plain(Req.fullpath)
             /\ \A w \in Looking : Req.op = "LOOKUP" /\ Req.fullpath = w
             /\ Req.op # "LOOKUP" => Req.ino \in DOMAIN heap /\ PathOf(heap, Req.ino) = LookedUp(Req)
             /\ Req.op \in {"CREATE", "MKDIR"} =>
                  Req.fullpath # RootPath /\ Req.name = BaseName(Req.fullpath)
  BY <1>1, <1>2 DEF FramePath, Req, RequestOK
<1>3. CASE Forward(r) /\ g.type = "FORWARD" /\ g.arg.req = Req
  <2>1. Top.type \in {"CLIENTREQ", "FORWARD"} /\ RequestIn(g) = Req
    BY <1>3 DEF Forward, Asked, Called, RequestIn
  <2> QED
    BY <1>1, <1>2, <1>3, <2>1 DEF FramePath
<1>4. CASE g.type \in {"SLAVEREQ", "SLAVEREPLY"}
  BY <1>4 DEF FramePath
<1>5. CASE /\ g.type = "REPLY" /\ Top.type \in {"CLIENTREQ", "FORWARD"}
           /\ g.arg.fullpath = Req.fullpath /\ Answers(g.arg.ino)
           /\ Req.op = "LOOKUP" => g.arg.ino = Lookup(heap, Req.fullpath)
  <2> DEFINE ino == g.arg.ino
  <2>1. ASSUME Req.op = "LOOKUP", ino # Null PROVE PathOf(heap', ino) = Req.fullpath
    <3>1. ino = Lookup(heap, Req.fullpath)
      BY <1>5, <2>1
    <3>2. PathOf(heap, ino) = Req.fullpath
      BY <1>1, <1>2, <1>5, <2>1, <3>1, LookupHasPath DEF Path
    <3>3. ino \in DOMAIN heap
      <4>1. Len(Req.fullpath) \in Nat
        BY <1>2, <1>5, PathParts
      <4> QED
        BY <1>1, <2>1, <3>1, <4>1, LookupIsSound DEF Sound
    <3> QED
      BY <1>1, <3>2, <3>3
  <2>2. ASSUME Req.op \in {"CREATE", "MKDIR"}, ino = NextInode(heap), NEW dir \in BOOLEAN,
               heap' = AddSub(heap, Req.ino, Req.name, dir, NoData)
        PROVE  PathOf(heap', ino) = Req.fullpath
    <3>1. /\ Req.ino \in DOMAIN heap /\ PathOf(heap, Req.ino) = DirName(Req.fullpath)
          /\ Req.fullpath # RootPath /\ Req.name = BaseName(Req.fullpath)
      BY <1>2, <1>5, <2>2 DEF LookedUp
    <3>2. PathOf(heap', ino) = Append(PathOf(heap, Req.ino), Req.name)
      BY <1>1, <2>2, <3>1, NewHasPath
    <3>3. Append(DirName(Req.fullpath), BaseName(Req.fullpath)) = Req.fullpath
      BY <1>2, <1>5, <3>1, DirAndBase DEF Path
    <3> QED
      BY <3>1, <3>2, <3>3
  <2>3. ino # Null => PathOf(heap', ino) = Req.fullpath
    BY <1>5, <2>1, <2>2 DEF Answers
  <2> QED
    BY <1>2, <1>5, <2>3 DEF FramePath
<1> QED
  BY <1>3, <1>4, <1>5 DEF SentBy

\* A step of an MDS keeps the paths of the frames.
LEMMA MdsStepKeepsPaths ==
  ASSUME HashIsNat, DataIInv, PathIInv, NEW r \in Ranks, MdsStep(r)
  PROVE  FramePaths(heap', Looking', stack')
<1> DEFINE n == Len(stack)
<1>1. /\ n \in Nat \ {0} /\ DOMAIN stack = 1 .. n /\ RevIInv /\ ShapeIInv /\ stack # <<>> /\ Top = stack[n]
      /\ \A k \in DOMAIN stack : FramePath(heap, Looking, stack[k]) /\ FrameOK(DOMAIN heap, Serving, stack[k])
  BY MdsStepIsAtTop, TopShape DEF PathIInv, FramePaths, DataIInv, AskerIInv, RequestsIInv, FramesOK
<1> HIDE DEF n
<1>2. Looking' = Looking
  <2>1. UNCHANGED callVars
    BY DEF MdsStep, Forward, OpLookup, OpCreate, OpMkdir, OpRead, OpWrite, OpRm, OpScan,
           AskSlave, SlaveReturns, EndListdir, EndRmdir, HandleSlaveRequest, SlaveOp, HandleSlaveReply,
           FollowsDeleted, Undefined, Reply, Fail
  <2> QED
    BY <2>1 DEF callVars, Looking, Walk
<1>3. [Next]_vars
  BY DEF Next, Step
<1>4. \A k \in 1 .. n : FramePath(heap', Looking, stack[k])
  BY <1>1, <1>3, PathsStay
<1>5. ASSUME NEW f, GoesOn(r, f) PROVE FramePath(heap', Looking, f)
  <2>1. RequestIn(f) = RequestIn(Top) /\ f.type = Top.type /\ f.arg = Top.arg
    BY <1>5 DEF GoesOn, Moved, RequestIn
  <2>2. FramePath(heap', Looking, Top)
    BY <1>1, <1>4
  <2> QED
    BY <2>1, <2>2 DEF FramePath
<1>6. CASE \E b : Return(b)
  <2>1. \A k \in DOMAIN stack' : k \in DOMAIN stack /\ stack'[k] = stack[k]
    BY <1>1, <1>6, ReturnLeaves
  <2> QED
    BY <1>1, <1>2, <1>4, <2>1 DEF FramePaths
<1>7. ASSUME NEW f, TopReplaced(stack', f), GoesOn(r, f) PROVE FramePaths(heap', Looking', stack')
  <2>1. DOMAIN stack' = 1 .. n /\ stack'[n] = f /\ \A k \in 1 .. n - 1 : stack'[k] = stack[k]
    BY <1>1, <1>7 DEF TopReplaced, n
  <2>2. ASSUME NEW k \in 1 .. n PROVE FramePath(heap', Looking, stack'[k])
    <3>1. k = n \/ k \in 1 .. n - 1
      BY <1>1
    <3> QED
      BY <1>4, <1>5, <1>7, <2>1, <3>1
  <2> QED
    BY <1>2, <2>1, <2>2 DEF FramePaths
<1>8. ASSUME NEW f, NEW g, Nests(f, g), GoesOn(r, f), SentBy(r, g)
      PROVE  FramePaths(heap', Looking', stack')
  <2>1. FramePath(heap', Looking, f) /\ FramePath(heap', Looking, g)
    BY <1>1, <1>5, <1>8, SentHasPath
  <2>2. /\ DOMAIN stack' = 1 .. n + 1 /\ stack'[n] = f /\ stack'[n + 1] = g
        /\ \A k \in 1 .. n - 1 : stack'[k] = stack[k]
    BY <1>8 DEF Nests, n
  <2>3. ASSUME NEW k \in 1 .. n + 1 PROVE FramePath(heap', Looking, stack'[k])
    <3>1. k = n + 1 \/ k = n \/ k \in 1 .. n - 1
      BY <1>1
    <3>2. CASE k \in 1 .. n - 1
      <4>1. k \in 1 .. n /\ stack'[k] = stack[k]
        BY <1>1, <2>2, <3>2
      <4> QED
        BY <1>4, <4>1
    <3> QED
      BY <2>1, <2>2, <3>1, <3>2
  <2> QED
    BY <1>2, <2>2, <2>3 DEF FramePaths
<1>9. CASE UNCHANGED stack
  BY <1>1, <1>2, <1>4, <1>9 DEF FramePaths
<1> QED
  BY <1>6, <1>7, <1>8, <1>9, MdsStackStep DEF StackStep

\* So does the client's request.
LEMMA ClientStartsPaths ==
  ASSUME HashIsNat, DataIInv, PathIInv, LookupRemote \/ Request
  PROVE  FramePaths(heap', Looking', stack')
<1>1. /\ stack = <<>> /\ call \in Calls /\ UNCHANGED <<heap, call>>
      /\ {"pc", "at", "ino"} \subseteq DOMAIN client
      /\ client.pc = "walk" => client.at \in 1 .. Len(Walk)
  BY DEF LookupRemote, Request, DataIInv, AskerIInv, RequestsIInv, ClientWaits, WalkIInv, fsVars
<1>2. Walk' = Walk
  BY <1>1 DEF Walk
<1>3. ASSUME NEW arg, NEW to, Starts(arg, to), Plain(arg.fullpath),
             \A w \in Looking' : arg.op = "LOOKUP" /\ arg.fullpath = w,
             arg.op # "LOOKUP" => PathOf(heap, arg.ino) = LookedUp(arg),
             arg.op \in {"CREATE", "MKDIR"} => arg.fullpath # RootPath /\ arg.name = BaseName(arg.fullpath)
      PROVE  FramePaths(heap', Looking', stack')
  <2>1. DOMAIN stack' = 1 .. 1 /\ stack'[1].type = "CLIENTREQ" /\ stack'[1].arg = arg
    BY <1>3 DEF Starts
  <2>2. RequestIn(stack'[1]) = arg
    BY <2>1 DEF RequestIn
  <2>3. FramePath(heap', Looking', stack'[1])
    BY <1>1, <1>3, <2>1, <2>2 DEF FramePath
  <2> QED
    BY <2>1, <2>3 DEF FramePaths
<1>4. ASSUME stack' = <<>> PROVE FramePaths(heap', Looking', stack')
  BY <1>4 DEF FramePaths
<1>5. CASE LookupRemote
  <2> DEFINE arg == MClientRequest("LOOKUP", Walk[client.at], "", Null, NoData)
  <2>1. client.pc = "walk" /\ SendRequest("LOOKUP", Walk[client.at], "", Null, NoData)
        /\ client' = [client EXCEPT !.pc = "looking"]
    BY <1>5 DEF LookupRemote
  <2>2. Looking' = {Walk[client.at]}
    BY <1>1, <1>2, <2>1 DEF Looking
  <2>3. Walk[client.at] \in Path /\ Plain(Walk[client.at])
    BY <1>1, <2>1, WalkIs
  <2>4. stack' = <<>> \/ \E to : Starts(arg, to)
    BY <1>1, <2>1, <2>3, ClientSends
  <2>5. arg.op = "LOOKUP" /\ arg.fullpath = Walk[client.at]
    BY DEF MClientRequest
  <2> HIDE DEF arg
  <2> QED
    BY <1>3, <1>4, <2>2, <2>3, <2>4, <2>5
<1>6. CASE Request
  <2> DEFINE name == IF CreatesEntry(call.op) THEN BaseName(call.path) ELSE ""
             arg == MClientRequest(RequestOp[call.op], call.path, name, client.ino, call.data)
  <2>1. /\ SendRequest(RequestOp[call.op], call.path, name, client.ino, call.data)
        /\ client.pc = "found" /\ client' = [client EXCEPT !.pc = "asked"]
        /\ call.op \in DOMAIN RequestOp
    BY <1>6 DEF Request
  <2>2. Looking' = {}
    BY <1>1, <2>1 DEF Looking
  <2>3. call.path \in Path /\ Plain(call.path)
    BY <1>1, WalkIs
  <2>4. stack' = <<>> \/ \E to : Starts(arg, to)
    <3> HIDE DEF name
    <3> QED
      BY <1>1, <2>1, <2>3, ClientSends
  <2>5. /\ arg.op = RequestOp[call.op] /\ arg.fullpath = call.path /\ arg.ino = client.ino
        /\ arg.name = name
    BY DEF MClientRequest
  <2>6. PathOf(heap, client.ino) = WalkTo(call)
    BY <2>1 DEF PathIInv, ClientPath
  <2>7. RequestOp[call.op] \in {"CREATE", "MKDIR"} <=> CreatesEntry(call.op)
    <3>1. call.op \in DOMAIN RequestOp
      BY <2>1
    <3> QED
      BY <3>1 DEF RequestOp, CreatesEntry
  <2>8. CreatesEntry(call.op) => call.path # RootPath /\ name = BaseName(call.path)
    BY <1>1, RootAssumption, Zenon DEF CreatesEntry
  <2> HIDE DEF arg, name
  <2>9. LookedUp(arg) = WalkTo(call)
    BY <2>5, <2>7 DEF LookedUp, WalkTo
  <2> QED
    BY <1>3, <1>4, <2>2, <2>3, <2>4, <2>5, <2>6, <2>7, <2>8, <2>9
<1> QED
  BY <1>5, <1>6

\* So does every step.
LEMMA NextKeepsFramePaths ==
  ASSUME HashIsNat, DataIInv, PathIInv, [Next]_vars
  PROVE  FramePaths(heap', Looking', stack')
<1>0. /\ FramePaths(heap, Looking, stack) /\ RevIInv /\ ShapeIInv
      /\ stack # <<>> => client.pc \in {"looking", "asked"}
  BY DEF PathIInv, DataIInv, AskerIInv, RequestsIInv, ClientWaits
<1>1. CASE stack = <<>> /\ UNCHANGED stack
  BY <1>1 DEF FramePaths
<1>2. ASSUME stack # <<>>, NEW b, Return(b), UNCHANGED <<heap, callVars>>
      PROVE  FramePaths(heap', Looking', stack')
  <2>1. Looking' = Looking
    BY <1>2 DEF callVars, Looking, Walk
  <2>2. \A k \in DOMAIN stack' : k \in DOMAIN stack /\ stack'[k] = stack[k]
    BY <1>0, <1>2, ReturnLeaves
  <2> QED
    BY <1>0, <1>2, <2>1, <2>2 DEF FramePaths
<1>3. CASE UNCHANGED <<heap, stack, call, client>>
  <2>1. Looking' = Looking
    BY <1>3 DEF Looking, Walk
  <2> QED
    BY <1>0, <1>3, <2>1
<1>4. ASSUME NEW c \in Calls, Begin(c) PROVE stack = <<>> /\ UNCHANGED stack
  BY <1>0, <1>4 DEF Begin, msgVars
<1>5. CASE Register
  <2>1. call = Nil /\ UNCHANGED stack
    BY <1>5 DEF Register
  <2>2. stack = <<>>
    BY <1>0, <2>1, CallsAssumption DEF DataIInv, WalkIInv
  <2> QED
    BY <1>1, <2>1, <2>2
<1>6. CASE LookupRemote \/ Request
  BY <1>6, ClientStartsPaths
<1>7. CASE LookupCached \/ LookupReturns \/ Answered \/ RequestReturns
  <2>1. stack = <<>> /\ UNCHANGED stack
    BY <1>0, <1>7 DEF LookupCached, LookupReturns, Answered, RequestReturns, msgVars
  <2> QED
    BY <1>1, <2>1
<1>8. CASE HandleReply \/ HandleReturn
  <2>1. stack # <<>> /\ (\E b : Return(b)) /\ UNCHANGED <<heap, callVars>>
    BY <1>8 DEF HandleReply, HandleReturn, ReturnTail, Resumed, Called, fsVars
  <2> QED
    BY <1>2, <2>1
<1>9. CASE LooksAtDeleted \/ UNCHANGED vars
  BY <1>3, <1>9 DEF LooksAtDeleted, Undefined, vars, fsVars, msgVars, callVars
<1> QED
  BY <1>1, <1>4, <1>5, <1>6, <1>7, <1>8, <1>9, MdsStepKeepsPaths DEF Next, Step, ClientStep

\* At first there is no path to keep.
LEMMA InitPaths == Init => PathIInv
<1> SUFFICES ASSUME Init PROVE PathIInv
  OBVIOUS
<1>1. stack = <<>> /\ client.pc = "idle" /\ cache = <<>>
  BY DEF Init, MessagingInit, NotWalking
<1>2. DOMAIN cache = {} /\ DOMAIN stack = {}
  BY <1>1
<1> QED
  BY <1>1, <1>2 DEF PathIInv, ClientPath, FramePaths, CachedUnderOwnPath

-----------------------------------------------------------------------------
(***************************************************************************)
(* A call changes the file system once if it succeeds, and else not at all:  *)
(* between the change and the client's resumption there is only the answer,  *)
(* which cannot get lost.                                                   *)
(***************************************************************************)

IsRequest(f) == f.type \in {"CLIENTREQ", "FORWARD"}

\* What the client has sent, or will send next, and whether it is a change.
WantedOp == IF client.pc = "asked" THEN RequestOp[call.op] ELSE "LOOKUP"

Changes(op) == op \in {"CREATE", "MKDIR", "RM", "RMDIR", "WRITE"}

\* The change is still to be made, unless the request is failing.
ToApply ==
  /\ applied = 0
  /\ \A k \in DOMAIN stack : stack[k].type # "REPLY"
  /\ IsRequest(Top) /\ Top.pc = "tail" => ret = FALSE

\* It was made: what is left is the answer, and who waits for the end of it.
WasApplied ==
  /\ applied = 1
  /\ \A k \in DOMAIN stack :
       stack[k].type = "REPLY" \/ (IsRequest(stack[k]) /\ stack[k].pc = "tail")
  /\ Top.pc = "tail" => ret = TRUE

\* Whoever has asked a slave will go on with the scan.
SlavesAwaited == \A k \in DOMAIN stack : stack[k].type = "SLAVEREQ" => stack[k - 1].pc = "slave"

\* What has been applied is what the next return will say.
AppliedAgrees ==
  IF ~Changes(WantedOp) THEN applied = 0
  ELSE IF stack = <<>> THEN applied = IF ret THEN 1 ELSE 0
  ELSE ToApply \/ WasApplied

AppliedIInv ==
  /\ client.pc = "asked" => call.op \in DOMAIN RequestOp
  /\ stack # <<>> => stack[1].arg.op = WantedOp
  /\ SlavesAwaited /\ AppliedAgrees

\* The answer to the client never fails: the port it waits at stays bound.
LEMMA ReplyArrives ==
  ASSUME DataIInv, stack # <<>>, IsRequest(Top), NEW r \in Ranks,
         NEW ino, NEW list, NEW data, Reply(r, ino, list, data)
  PROVE  /\ ret' = TRUE
         /\ \E f, g : Nests(f, g) /\ Moved(f, "tail") /\ f.pc = "tail" /\ g.type = "REPLY" /\ g.pc = "call"
<1> DEFINE arg == MClientRequestReply(r, Req.fullpath, ino, list, data)
           e == stack[1].src
           port == FindOrFreePort(proc_revmap[HostOf[r]], RevBase, r)
           rev == [proc_revmap EXCEPT ![HostOf[r]] = Bind(@, port, r)]
<1>1. RevIInv /\ ShapeIInv /\ ServicesIInv
  BY DEF DataIInv, AskerIInv, RequestsIInv
<1>2. Send(TopAt("tail"), r, e, "REPLY", arg) /\ service_map' = service_map
  BY <1>1, TopShape DEF Reply, IsRequest
<1>3. BoundIn(proc_revmap, stack[1]) /\ FrameShape(stack, 1)
  BY <1>1, TopShape DEF ShapeIInv
<1>4. /\ e.host \in Hosts /\ e.port >= RevBase /\ stack[1].by = Client
      /\ e.port \in Nat /\ RevBase \in Nat /\ e = Entity(e.host, e.port)
      /\ e.port \in DOMAIN proc_revmap[e.host] /\ proc_revmap[e.host][e.port] = Client
  BY <1>3, ProcsType, HostsAssumption, RevBaseAssumption DEF BoundIn, FrameShape, FrameType, RevPorts
<1>5. e.port \notin DOMAIN service_map[e.host]
  BY <1>1, <1>4, ServicesLead
<1>6. e # Nil
  BY <1>4, NilIsNoEntity DEF Entity
<1>7. proc_revmap = [h \in Hosts |-> proc_revmap[h]] /\ HostOf[r] \in Hosts /\ r \in Procs
  BY <1>1, ProcsType, HostsAssumption DEF RevIInv, RevTables
<1> HIDE DEF arg, e, port
<1>8. e.port \in DOMAIN rev[e.host] /\ rev[e.host][e.port] = Client
  BY <1>4, <1>7 DEF Bind
<1> HIDE DEF rev
<1>9. Dispatch(service_map', rev, e) = Client /\ Client # Nil
  BY <1>2, <1>5, <1>8, ProcsType, NilAssumption DEF Dispatch
<1>10. ret' = TRUE
  BY <1>2, <1>6, <1>9 DEF Send, rev, port
<1>11. PICK l : l = Top.local
  OBVIOUS
<1>12. Nested(r, e, "REPLY", arg, "tail", l)
  BY <1>1, <1>2, <1>7, <1>10, <1>11, HandlerSends
<1>13. Nests(stack'[Len(stack)], stack'[Len(stack) + 1])
  BY <1>1, <1>12, TopShape DEF Nested, Nests
<1>14. /\ Moved(stack'[Len(stack)], "tail") /\ stack'[Len(stack)].pc = "tail"
       /\ stack'[Len(stack) + 1].type = "REPLY" /\ stack'[Len(stack) + 1].pc = "call"
  BY <1>12 DEF Nested, Moved
<1> QED
  BY <1>10, <1>13, <1>14

\* What a step of an MDS does to the request: it answers it, and has changed
\* the file system if that was asked for; or it fails, goes on, or sends a
\* message to another MDS.
AnswersIt ==
  /\ IsRequest(Top) /\ ret' = TRUE
  /\ applied' = IF Changes(Req.op) THEN applied + 1 ELSE applied
  /\ \E f, g : Nests(f, g) /\ Moved(f, "tail") /\ f.pc = "tail" /\ g.type = "REPLY" /\ g.pc = "call"

EndsIt ==
  /\ applied' = applied
  /\ \E b \in BOOLEAN : Return(b) /\ (b => Top.type \in {"SLAVEREQ", "SLAVEREPLY"})

GoesOnWithIt ==
  /\ applied' = applied
  /\ \E f : TopReplaced(stack', f) /\ Moved(f, f.pc) /\ (f.pc = "tail" => ret' = FALSE)

PassesItOn ==
  /\ applied' = applied
  /\ \E f, g : /\ Nests(f, g) /\ Moved(f, f.pc) /\ g.pc = "call"
               /\ g.type \in {"FORWARD", "SLAVEREQ", "SLAVEREPLY"}
               /\ g.type = "SLAVEREQ" => f.pc = "slave"

\* A send to another MDS is one of the last two.
LEMMA SendPassesOn ==
  ASSUME DataIInv, stack # <<>>, NEW pc \in {"tail", "slave"}, NEW local,
         NEW r \in Ranks, NEW e, NEW type \in {"FORWARD", "SLAVEREQ", "SLAVEREPLY"}, NEW arg,
         type = "SLAVEREQ" => pc = "slave",
         \/ Send(TopAt(pc), r, e, type, arg) /\ local = Top.local
         \/ Send(TopWith(pc, local), r, e, type, arg),
         applied' = applied
  PROVE  GoesOnWithIt \/ PassesItOn
<1>1. RevIInv /\ ShapeIInv /\ r \in Procs
  BY ProcsType DEF DataIInv, AskerIInv, RequestsIInv
<1>2. \/ /\ ret' = FALSE
         /\ \E f : TopReplaced(stack', f) /\ Moved(f, pc) /\ f.local = local
      \/ Nested(r, e, type, arg, pc, local)
  BY <1>1, HandlerSends, Zenon
<1>3. ASSUME ret' = FALSE, NEW f, TopReplaced(stack', f), Moved(f, pc)
      PROVE  GoesOnWithIt
  <2>1. Moved(f, f.pc)
    BY <1>3 DEF Moved
  <2> QED
    BY <1>3, <2>1 DEF GoesOnWithIt
<1>4. ASSUME Nested(r, e, type, arg, pc, local)
      PROVE  PassesItOn
  <2> DEFINE f == stack'[Len(stack)]
             g == stack'[Len(stack) + 1]
  <2>1. Nests(f, g)
    BY <1>1, <1>4, TopShape DEF Nested, Nests
  <2>2. Moved(f, f.pc) /\ f.pc = pc /\ g.type = type /\ g.pc = "call"
    BY <1>4 DEF Nested, Moved
  <2> HIDE DEF f, g
  <2> QED
    BY <2>1, <2>2 DEF PassesItOn
<1> QED
  BY <1>2, <1>3, <1>4

\* A handler that goes on without a send is, too.
LEMMA MovesOn ==
  ASSUME RevIInv, ShapeIInv, stack # <<>>, NEW local, stack' = TopWith("scan", local),
         applied' = applied
  PROVE  GoesOnWithIt
<1> DEFINE f == [Top EXCEPT !.pc = "scan", !.local = local]
<1>1. TopReplaced(stack', f) /\ Moved(f, "scan")
  BY TopMoves, TopIsMoved
<1> HIDE DEF f
<1>2. Moved(f, f.pc) /\ f.pc # "tail"
  BY <1>1 DEF Moved
<1> QED
  BY <1>1, <1>2 DEF GoesOnWithIt

\* Every step of an MDS is one of these, and none is taken above an answer.
LEMMA MdsStepApplies ==
  ASSUME DataIInv, NEW r \in Ranks, MdsStep(r)
  PROVE  /\ stack # <<>> /\ Top.pc # "tail" /\ Top.type # "REPLY"
         /\ \/ UNCHANGED <<stack, ret, applied>>
            \/ AnswersIt \/ EndsIt \/ GoesOnWithIt \/ PassesItOn
<1>0. stack # <<>> /\ RevIInv /\ ShapeIInv
  BY MdsStepIsAtTop DEF DataIInv, AskerIInv, RequestsIInv
<1>04. \/ Asked(r)
      \/ Called(r, "SLAVEREQ") \/ Called(r, "SLAVEREPLY")
      \/ Resumed("scan") \/ Resumed("slave")
  BY DEF MdsStep, Forward, OpLookup, OpCreate, OpMkdir, OpRead, OpWrite, OpRm, OpScan,
         AskSlave, SlaveReturns, EndListdir, EndRmdir, HandleSlaveRequest, HandleSlaveReply,
         FollowsDeleted, Executes, ScansDirectory, ScanDone
<1>05. FrameType(Top)
  BY <1>0, TopFrame
<1>06. Top.pc # "tail" /\ Top.type # "REPLY"
  BY <1>04, <1>05 DEF Asked, Called, Resumed, FrameType
<1> SUFFICES \/ UNCHANGED <<stack, ret, applied>>
             \/ AnswersIt \/ EndsIt \/ GoesOnWithIt \/ PassesItOn
  BY <1>0, <1>06
<1>01. ASSUME NEW op, Executes(r, op) \/ ScanDone(r, op)
       PROVE  IsRequest(Top) /\ Req.op = op
  BY <1>01, RequestAtTop DEF IsRequest
<1>02. ASSUME NEW op, Executes(r, op) \/ ScanDone(r, op),
              applied' = IF Changes(op) THEN applied + 1 ELSE applied,
              NEW ino, NEW list, NEW data, Reply(r, ino, list, data)
       PROVE  AnswersIt
  <2>1. IsRequest(Top) /\ Req.op = op
    BY <1>01, <1>02
  <2>2. /\ ret' = TRUE
        /\ \E f, g : Nests(f, g) /\ Moved(f, "tail") /\ f.pc = "tail" /\ g.type = "REPLY" /\ g.pc = "call"
    BY <1>0, <1>02, <2>1, ReplyArrives, Zenon
  <2> QED
    BY <1>02, <2>1, <2>2 DEF AnswersIt
<1>03. ASSUME Fail PROVE EndsIt
  BY <1>03 DEF Fail, EndsIt, historyVars
<1>1. CASE Forward(r)
  <2>1. PICK e, arg : Send(TopAt("tail"), r, e, "FORWARD", arg) /\ applied' = applied
    BY <1>1 DEF Forward, historyVars
  <2> QED
    BY <1>0, <2>1, SendPassesOn
<1>2. CASE OpLookup(r)
  <2>1. Executes(r, "LOOKUP") /\ ~Changes("LOOKUP")
    BY <1>2 DEF OpLookup, Changes
  <2>2. Fail \/ \E ino, list, data : Reply(r, ino, list, data) /\ applied' = applied
    BY <1>2 DEF OpLookup, historyVars
  <2> QED
    BY <1>02, <1>03, <2>1, <2>2
<1>3. CASE OpCreate(r)
  <2>1. /\ Executes(r, "CREATE") /\ applied' = applied + 1 /\ Changes("CREATE")
        /\ \E ino, list, data : Reply(r, ino, list, data)
    BY <1>3 DEF OpCreate, Mutate, Changes
  <2> QED
    BY <1>02, <2>1
<1>4. CASE OpMkdir(r)
  <2>1. Executes(r, "MKDIR") /\ Changes("MKDIR")
    BY <1>4 DEF OpMkdir, Changes
  <2>2. Fail \/ (applied' = applied + 1 /\ \E ino, list, data : Reply(r, ino, list, data))
    BY <1>4 DEF OpMkdir, Mutate
  <2> QED
    BY <1>02, <1>03, <2>1, <2>2
<1>5. CASE OpRead(r)
  <2>1. /\ Executes(r, "READ") /\ applied' = applied /\ ~Changes("READ")
        /\ \E ino, list, data : Reply(r, ino, list, data)
    BY <1>5 DEF OpRead, historyVars, Changes
  <2> QED
    BY <1>02, <2>1
<1>6. CASE OpWrite(r)
  <2>1. /\ Executes(r, "WRITE") /\ applied' = applied + 1 /\ Changes("WRITE")
        /\ \E ino, list, data : Reply(r, ino, list, data)
    BY <1>6 DEF OpWrite, Mutate, Changes
  <2> QED
    BY <1>02, <2>1
<1>7. CASE OpRm(r)
  <2>1. /\ Executes(r, "RM") /\ applied' = applied + 1 /\ Changes("RM")
        /\ \E ino, list, data : Reply(r, ino, list, data)
    BY <1>7 DEF OpRm, Mutate, Changes
  <2> QED
    BY <1>02, <2>1
<1>8. CASE OpScan(r)
  <2>1. Fail \/ \E local : stack' = TopWith("scan", local) /\ applied' = applied
    BY <1>8 DEF OpScan
  <2>2. ASSUME NEW local, stack' = TopWith("scan", local), applied' = applied PROVE GoesOnWithIt
    BY <1>0, <2>2, MovesOn
  <2> QED
    BY <1>03, <2>1, <2>2
<1>9. CASE AskSlave(r)
  <2>1. PICK local, e, arg : Send(TopWith("slave", local), r, e, "SLAVEREQ", arg) /\ applied' = applied
    BY <1>9 DEF AskSlave, historyVars
  <2> QED
    BY <1>0, <2>1, SendPassesOn
<1>10. CASE SlaveReturns(r)
  <2>1. \/ Return(FALSE) /\ applied' = applied
        \/ \E local : stack' = TopWith("scan", local) /\ applied' = applied
    BY <1>10 DEF SlaveReturns, historyVars
  <2>2. ASSUME NEW local, stack' = TopWith("scan", local), applied' = applied PROVE GoesOnWithIt
    BY <1>0, <2>2, MovesOn
  <2> QED
    BY <2>1, <2>2 DEF EndsIt
<1>11. CASE EndListdir(r)
  <2>1. /\ ScanDone(r, "LISTDIR") /\ applied' = applied /\ ~Changes("LISTDIR")
        /\ \E ino, list, data : Reply(r, ino, list, data)
    BY <1>11 DEF EndListdir, historyVars, Changes
  <2> QED
    BY <1>02, <2>1
<1>12. CASE EndRmdir(r)
  <2>1. /\ ScanDone(r, "RMDIR") /\ applied' = applied + 1 /\ Changes("RMDIR")
        /\ \E ino, list, data : Reply(r, ino, list, data)
    BY <1>12 DEF EndRmdir, Mutate, Changes
  <2> QED
    BY <1>02, <2>1
<1>13. CASE HandleSlaveRequest(r)
  <2>1. applied' = applied /\ Top.type = "SLAVEREQ"
    BY <1>13 DEF HandleSlaveRequest, Called
  <2>2. \/ \E b \in BOOLEAN : Return(b)
        \/ \E arg : Send(TopAt("tail"), r, Top.src, "SLAVEREPLY", arg)
    BY <1>13 DEF HandleSlaveRequest, SlaveOp
  <2>3. ASSUME NEW arg, Send(TopAt("tail"), r, Top.src, "SLAVEREPLY", arg)
        PROVE  GoesOnWithIt \/ PassesItOn
    BY <1>0, <2>1, <2>3, SendPassesOn
  <2> QED
    BY <2>1, <2>2, <2>3 DEF EndsIt
<1>14. CASE HandleSlaveReply(r)
  BY <1>14 DEF HandleSlaveReply, Called, EndsIt, historyVars
<1>15. CASE FollowsDeleted(r)
  BY <1>15 DEF FollowsDeleted, Undefined, msgVars, historyVars
<1> QED
  BY <1>1, <1>2, <1>3, <1>4, <1>5, <1>6, <1>7, <1>8, <1>9, <1>10, <1>11, <1>12, <1>13,
     <1>14, <1>15 DEF MdsStep

\* The request at the top is what the client wants, and who has passed it on
\* waits for the end of it.
LEMMA TopWants ==
  ASSUME DataIInv, ChainIInv, AppliedIInv, stack # <<>>, IsRequest(Top)
  PROVE  /\ Req.op = WantedOp
         /\ \A k \in 1 .. Len(stack) - 1 : IsRequest(stack[k]) /\ stack[k].pc = "tail"
<1>1. /\ Len(stack) \in Nat \ {0} /\ DOMAIN stack = 1 .. Len(stack) /\ Top = stack[Len(stack)]
      /\ FrameShape(stack, Len(stack)) /\ FrameShape(stack, 1)
  BY TopShape DEF DataIInv, AskerIInv, RequestsIInv, ShapeIInv
<1>2. FrameChain(stack, Len(stack))
  BY <1>1 DEF ChainIInv
<1>3. CASE Top.type = "CLIENTREQ"
  <2>1. Len(stack) = 1
    BY <1>1, <1>3 DEF FrameShape
  <2>2. Req = stack[1].arg
    BY <1>1, <1>3, <2>1 DEF Req, RequestIn
  <2> QED
    BY <2>1, <2>2 DEF AppliedIInv
<1>4. CASE Top.type = "FORWARD"
  <2>1. Len(stack) = 2 /\ Top.arg.req = stack[1].arg /\ stack[1].pc = "tail" /\ stack[1].type = "CLIENTREQ"
    BY <1>1, <1>2, <1>4 DEF FrameChain, FrameShape
  <2>2. Req = stack[1].arg
    BY <1>4, <2>1 DEF Req, RequestIn
  <2> QED
    BY <2>1, <2>2 DEF AppliedIInv, IsRequest
<1> QED
  BY <1>3, <1>4 DEF IsRequest

\* A handler that returns without having answered fails the request, or it
\* was one of a slave's; the answer itself succeeds, and what was applied
\* goes on succeeding.
LEMMA ReturnAgrees ==
  ASSUME DataIInv, ChainIInv, AppliedIInv, stack # <<>>, NEW b \in BOOLEAN, Return(b),
         UNCHANGED <<call, client, applied>>,
         Changes(WantedOp) =>
           \/ ToApply /\ (b => Top.type \in {"SLAVEREQ", "SLAVEREPLY"})
           \/ WasApplied /\ b
  PROVE  AppliedIInv'
<1> DEFINE n == Len(stack)
<1>1. /\ n \in Nat \ {0} /\ DOMAIN stack = 1 .. n /\ Top = stack[n]
      /\ RevIInv /\ ShapeIInv /\ FrameShape(stack, n)
  BY TopShape DEF DataIInv, AskerIInv, RequestsIInv
<1>2. /\ DOMAIN stack' = 1 .. n - 1 /\ Len(stack') = n - 1
      /\ \A k \in DOMAIN stack' : k \in DOMAIN stack /\ stack'[k] = stack[k]
  BY <1>1, ReturnLeaves
<1>3. ret' = b /\ WantedOp' = WantedOp
  BY DEF Return, WantedOp
<1>4. stack' # <<>> => n - 1 # 0
  <2>1. IsStack(Below) /\ stack' = Below
    BY <1>1, BelowFrames DEF RevIInv, Return
  <2>2. stack' \in Seq({stack'[k] : k \in DOMAIN stack'})
    BY <2>1 DEF IsStack
  <2> QED
    BY <1>2, <2>2, EmptySeq
<1>5. FrameChain(stack, n)
  BY <1>1 DEF ChainIInv
<1> HIDE DEF n
<1>6. stack' # <<>> => n - 1 \in DOMAIN stack' /\ 1 \in DOMAIN stack' /\ Top' = stack[n - 1]
  BY <1>1, <1>2, <1>4 DEF Top
<1>7. stack' = <<>> => n = 1
  BY <1>1, <1>2
<1>8. stack' # <<>> => stack'[1].arg.op = WantedOp'
  BY <1>1, <1>2, <1>3, <1>6 DEF AppliedIInv
<1>9. SlavesAwaited'
  <2> SUFFICES ASSUME NEW k \in DOMAIN stack', stack'[k].type = "SLAVEREQ"
               PROVE  stack'[k - 1].pc = "slave"
    BY DEF SlavesAwaited
  <2>1. FrameShape(stack, k) /\ k \in DOMAIN stack /\ stack'[k] = stack[k]
    BY <1>1, <1>2 DEF ShapeIInv
  <2>2. k # 1
    BY <2>1 DEF FrameShape
  <2>3. k - 1 \in DOMAIN stack'
    BY <1>1, <1>2, <2>2
  <2> QED
    BY <1>2, <2>1, <2>3 DEF AppliedIInv, SlavesAwaited
<1>10. AppliedAgrees'
  <2>1. CASE ~Changes(WantedOp)
    BY <1>3, <2>1 DEF AppliedIInv, AppliedAgrees, Changes
  <2>2. CASE Changes(WantedOp) /\ ToApply /\ (b => Top.type \in {"SLAVEREQ", "SLAVEREPLY"})
    <3>1. CASE stack' = <<>>
      <4>1. Top.type = "CLIENTREQ"
        BY <1>1, <1>7, <3>1 DEF FrameShape
      <4> QED
        BY <1>3, <2>2, <3>1, <4>1 DEF AppliedAgrees, ToApply, Changes
    <3>2. CASE stack' # <<>>
      <4>1. b => ~(IsRequest(stack[n - 1]) /\ stack[n - 1].pc = "tail")
        <5>1. Top.type = "SLAVEREQ" => stack[n - 1].pc = "slave"
          BY <1>1 DEF AppliedIInv, SlavesAwaited
        <5>2. Top.type = "SLAVEREPLY" => stack[n - 1].type = "SLAVEREQ"
          BY <1>1, <1>5 DEF FrameChain
        <5> QED
          BY <2>2, <5>1, <5>2 DEF IsRequest
      <4>2. IsRequest(Top)' = IsRequest(stack[n - 1]) /\ Top'.pc = stack[n - 1].pc
        BY <1>6, <3>2 DEF IsRequest
      <4>3. ToApply'
        BY <1>2, <1>3, <2>2, <4>1, <4>2 DEF ToApply
      <4> QED
        BY <1>3, <2>2, <3>2, <4>3 DEF AppliedAgrees, Changes
    <3> QED
      BY <3>1, <3>2
  <2>3. CASE Changes(WantedOp) /\ WasApplied /\ b
    <3>1. CASE stack' = <<>>
      BY <1>3, <2>3, <3>1 DEF AppliedAgrees, WasApplied, Changes
    <3>2. CASE stack' # <<>>
      <4>1. \A k \in DOMAIN stack' : stack'[k].type = "REPLY" \/ (IsRequest(stack'[k]) /\ stack'[k].pc = "tail")
        BY <1>2, <2>3 DEF WasApplied
      <4>2. WasApplied'
        BY <1>3, <2>3, <4>1 DEF WasApplied, IsRequest
      <4> QED
        BY <1>3, <2>3, <3>2, <4>2 DEF AppliedAgrees, Changes
    <3> QED
      BY <3>1, <3>2
  <2> QED
    BY <2>1, <2>2, <2>3
<1>11. client'.pc = "asked" => call'.op \in DOMAIN RequestOp
  BY DEF AppliedIInv
<1> QED
  BY <1>8, <1>9, <1>10, <1>11 DEF AppliedIInv

\* What keeps the frames below the top one, and at the top what is not a
\* slave's message, keeps what is said of the others.
LEMMA AwaitedStay ==
  ASSUME DataIInv, AppliedIInv, stack # <<>>, NEW f, Continues(stack', f)
  PROVE  /\ stack'[1].arg = stack[1].arg
         /\ \A k \in DOMAIN stack : stack'[k].type = stack[k].type
         /\ \A k \in DOMAIN stack : stack'[k].type = "SLAVEREQ" => stack'[k - 1].pc = "slave"
<1> DEFINE n == Len(stack)
<1>1. /\ n \in Nat \ {0} /\ DOMAIN stack = 1 .. n
      /\ \A k \in 1 .. n - 1 : stack'[k] = stack[k]
      /\ stack'[n] = f /\ Moved(f, f.pc) /\ Top = stack[n]
  BY DEF Continues, Top
<1>2. \A k \in DOMAIN stack : FrameShape(stack, k)
  BY DEF DataIInv, AskerIInv, ShapeIInv
<1> HIDE DEF n
<1>3. \A k \in 1 .. n : stack'[k].type = stack[k].type /\ stack'[k].arg = stack[k].arg
  BY <1>1 DEF Moved
<1>4. ASSUME NEW k \in 1 .. n, stack'[k].type = "SLAVEREQ" PROVE stack'[k - 1].pc = "slave"
  <2>1. stack[k].type = "SLAVEREQ" /\ k # 1
    BY <1>1, <1>2, <1>3, <1>4 DEF FrameShape
  <2>2. k - 1 \in 1 .. n - 1
    BY <1>1, <2>1
  <2> QED
    BY <1>1, <2>1, <2>2 DEF AppliedIInv, SlavesAwaited
<1> QED
  BY <1>1, <1>3, <1>4

\* A step of an MDS.
LEMMA MdsStepKeepsApplied ==
  ASSUME DataIInv, ChainIInv, AppliedIInv, NEW r \in Ranks, MdsStep(r)
  PROVE  AppliedIInv'
<1> DEFINE n == Len(stack)
<1>1. /\ stack # <<>> /\ Top.pc # "tail" /\ Top.type # "REPLY" /\ UNCHANGED <<call, client>>
      /\ \/ UNCHANGED <<stack, ret, applied>>
         \/ AnswersIt \/ EndsIt \/ GoesOnWithIt \/ PassesItOn
  <2>1. UNCHANGED <<call, client>>
    BY DEF MdsStep, Forward, OpLookup, OpCreate, OpMkdir, OpRead, OpWrite, OpRm, OpScan, AskSlave,
           SlaveReturns, EndListdir, EndRmdir, HandleSlaveRequest, HandleSlaveReply, FollowsDeleted,
           Undefined, Reply, Fail, callVars
  <2> QED
    BY <2>1, MdsStepApplies
<1>2. /\ n \in Nat \ {0} /\ DOMAIN stack = 1 .. n /\ Top = stack[n] /\ RevIInv
  BY <1>1, TopShape DEF DataIInv, AskerIInv, RequestsIInv
<1>3. WantedOp' = WantedOp
  BY <1>1 DEF WantedOp
<1>4. Changes(WantedOp) => ToApply
  <2>1. ~WasApplied
    BY <1>1, <1>2 DEF WasApplied
  <2> QED
    BY <1>1, <2>1 DEF AppliedIInv, AppliedAgrees
<1>5. client'.pc = "asked" => call'.op \in DOMAIN RequestOp
  BY <1>1 DEF AppliedIInv
<1> HIDE DEF n
<1>6. CASE UNCHANGED <<stack, ret, applied>>
  BY <1>3, <1>5, <1>6 DEF AppliedIInv, SlavesAwaited, AppliedAgrees, ToApply, WasApplied, Top, IsRequest, Changes
<1>7. CASE EndsIt
  BY <1>1, <1>4, <1>7, ReturnAgrees DEF EndsIt
<1>8. CASE GoesOnWithIt
  <2>1. PICK f : TopReplaced(stack', f) /\ Moved(f, f.pc) /\ (f.pc = "tail" => ret' = FALSE)
    BY <1>8 DEF GoesOnWithIt
  <2>2. Continues(stack', f) /\ DOMAIN stack' = 1 .. n /\ Len(stack') = n /\ Top' = f
    BY <2>1 DEF Continues, TopReplaced, Top, n
  <2>3. /\ stack'[1].arg = stack[1].arg
        /\ \A k \in 1 .. n : stack'[k].type = stack[k].type
        /\ SlavesAwaited'
    BY <1>1, <1>2, <2>2, AwaitedStay DEF SlavesAwaited
  <2>4. Changes(WantedOp) => ToApply'
    <3>1. ToApply => ToApply'
      BY <1>2, <1>8, <2>1, <2>2, <2>3 DEF ToApply, GoesOnWithIt
    <3> QED
      BY <1>4, <3>1
  <2>5. AppliedAgrees'
    <3>1. applied' = applied /\ stack' # <<>>
      BY <1>2, <1>8, <2>2 DEF GoesOnWithIt
    <3> QED
      BY <1>3, <2>4, <3>1 DEF AppliedIInv, AppliedAgrees, Changes
  <2> QED
    BY <1>1, <1>3, <1>5, <2>3, <2>5 DEF AppliedIInv
<1>9. CASE PassesItOn
  <2>1. PICK f, g : /\ Nests(f, g) /\ Moved(f, f.pc) /\ g.pc = "call"
                    /\ g.type \in {"FORWARD", "SLAVEREQ", "SLAVEREPLY"}
                    /\ g.type = "SLAVEREQ" => f.pc = "slave"
    BY <1>9 DEF PassesItOn
  <2>2. /\ Continues(stack', f) /\ DOMAIN stack' = 1 .. n + 1 /\ Len(stack') = n + 1
        /\ stack'[n] = f /\ stack'[n + 1] = g /\ Top' = g
    BY <2>1 DEF Continues, Nests, Top, n
  <2>3. /\ stack'[1].arg = stack[1].arg
        /\ \A k \in 1 .. n : stack'[k].type = stack[k].type
        /\ \A k \in 1 .. n : stack'[k].type = "SLAVEREQ" => stack'[k - 1].pc = "slave"
    BY <1>1, <1>2, <2>2, AwaitedStay
  <2>4. SlavesAwaited'
    BY <1>2, <2>1, <2>2, <2>3 DEF SlavesAwaited
  <2>5. Changes(WantedOp) => ToApply'
    <3>1. ToApply => ToApply'
      BY <1>2, <1>9, <2>1, <2>2, <2>3 DEF ToApply, PassesItOn
    <3> QED
      BY <1>4, <3>1
  <2>6. AppliedAgrees'
    <3>1. applied' = applied /\ stack' # <<>>
      BY <1>2, <1>9, <2>2 DEF PassesItOn
    <3> QED
      BY <1>3, <2>5, <3>1 DEF AppliedIInv, AppliedAgrees, Changes
  <2> QED
    BY <1>1, <1>3, <1>5, <2>3, <2>4, <2>6 DEF AppliedIInv
<1>10. CASE AnswersIt
  <2>1. PICK f, g : Nests(f, g) /\ Moved(f, "tail") /\ f.pc = "tail" /\ g.type = "REPLY" /\ g.pc = "call"
    BY <1>10 DEF AnswersIt
  <2>2. /\ Continues(stack', f) /\ DOMAIN stack' = 1 .. n + 1 /\ Len(stack') = n + 1
        /\ \A k \in 1 .. n - 1 : stack'[k] = stack[k]
        /\ stack'[n] = f /\ stack'[n + 1] = g /\ Top' = g
    BY <2>1 DEF Continues, Nests, Top, n
  <2>3. /\ stack'[1].arg = stack[1].arg
        /\ \A k \in 1 .. n : stack'[k].type = "SLAVEREQ" => stack'[k - 1].pc = "slave"
    BY <1>1, <1>2, <2>2, AwaitedStay
  <2>4. SlavesAwaited'
    BY <1>2, <2>1, <2>2, <2>3 DEF SlavesAwaited
  <2>5. /\ Req.op = WantedOp
        /\ \A k \in 1 .. n - 1 : IsRequest(stack[k]) /\ stack[k].pc = "tail"
    BY <1>1, <1>10, TopWants DEF AnswersIt, n
  <2>6. IsRequest(f)
    BY <1>10, <2>1 DEF AnswersIt, Moved, IsRequest
  <2>7. \A k \in 1 .. n : IsRequest(stack'[k]) /\ stack'[k].pc = "tail"
    BY <1>2, <2>1, <2>2, <2>5, <2>6 DEF IsRequest
  <2>8. applied' = IF Changes(WantedOp) THEN applied + 1 ELSE applied
    BY <1>10, <2>5 DEF AnswersIt
  <2>9. Changes(WantedOp) => WasApplied'
    <3>1. Changes(WantedOp) => applied' = 1
      BY <1>4, <2>8 DEF ToApply
    <3>2. \A k \in DOMAIN stack' : stack'[k].type = "REPLY" \/ (IsRequest(stack'[k]) /\ stack'[k].pc = "tail")
      BY <1>2, <2>1, <2>2, <2>7
    <3> QED
      BY <2>1, <2>2, <3>1, <3>2 DEF WasApplied, IsRequest
  <2>10. AppliedAgrees'
    <3>1. stack' # <<>>
      BY <1>2, <2>2
    <3> QED
      BY <1>3, <2>8, <2>9, <3>1 DEF AppliedIInv, AppliedAgrees, Changes
  <2> QED
    BY <1>1, <1>3, <1>5, <2>3, <2>4, <2>10 DEF AppliedIInv
<1> QED
  BY <1>1, <1>6, <1>7, <1>8, <1>9, <1>10

\* The client's request is a change still to be made, if it is one; a request
\* that cannot be sent has failed.
LEMMA ClientAsksApplied ==
  ASSUME HashIsNat, DataIInv, AppliedIInv, LookupRemote \/ Request
  PROVE  AppliedIInv'
<1>1. /\ stack = <<>> /\ call \in Calls /\ call' = call /\ applied' = applied
      /\ client.pc = "walk" => client.at \in 1 .. Len(Walk)
  BY DEF LookupRemote, Request, DataIInv, AskerIInv, RequestsIInv, ClientWaits, WalkIInv, historyVars
<1>2. applied = 0
  BY DEF LookupRemote, Request, AppliedIInv, AppliedAgrees, WantedOp, Changes
<1>3. PICK op, p, name, ino, data : SendRequest(op, p, name, ino, data) /\ p \in Path /\ op = WantedOp'
  <2>1. CASE LookupRemote
    <3>1. WantedOp' = "LOOKUP"
      BY <2>1 DEF LookupRemote, DataIInv, WalkIInv, WantedOp
    <3> QED
      BY <1>1, <2>1, <3>1, WalkIs DEF LookupRemote
  <2>2. CASE Request
    <3>1. WantedOp' = RequestOp[call.op]
      BY <1>1, <2>2 DEF Request, DataIInv, WalkIInv, WantedOp
    <3> QED
      BY <1>1, <2>2, <3>1, WalkIs DEF Request
  <2> QED
    BY <2>1, <2>2
<1>4. client'.pc = "asked" => call'.op \in DOMAIN RequestOp
  BY <1>1 DEF LookupRemote, Request, DataIInv, WalkIInv
<1> DEFINE arg == MClientRequest(op, p, name, ino, data)
<1>0. PICK to : to = IF FindRoute(p) = NoRank THEN 0 ELSE FindRoute(p)
  OBVIOUS
<1>5. stack' = <<>> \/ Starts(arg, to)
  BY <1>0, <1>1, <1>3, ClientSends
<1>6. arg.op = op
  BY DEF MClientRequest
<1>7. Send(<<>>, Client, Target(p), "CLIENTREQ", arg)
  BY <1>3 DEF SendRequest
<1> HIDE DEF arg
<1>8. CASE stack' = <<>>
  <2>1. ret' = FALSE
    <3>1. IsStack(<<>>)
      BY <1>1 DEF DataIInv, AskerIInv, RequestsIInv, RevIInv
    <3>2. ret' = FALSE \/ Pushes(<<>>, Client, Target(p), "CLIENTREQ", arg)
      BY <1>7, <3>1, SendFrames
    <3>3. ~Pushes(<<>>, Client, Target(p), "CLIENTREQ", arg)
      <4>1. Len(<<>>) = 0
        BY EmptySeq
      <4>2. Len(stack') = 0
        BY <1>8, <4>1
      <4> QED
        BY <4>1, <4>2 DEF Pushes
    <3> QED
      BY <3>2, <3>3
  <2>2. AppliedAgrees'
    BY <1>1, <1>2, <1>8, <2>1 DEF AppliedAgrees
  <2>3. SlavesAwaited'
    BY <1>8 DEF SlavesAwaited
  <2> QED
    BY <1>4, <1>8, <2>2, <2>3 DEF AppliedIInv
<1>9. CASE Starts(arg, to)
  <2>1. /\ DOMAIN stack' = {1} /\ Len(stack') = 1 /\ Top' = stack'[1]
        /\ stack'[1].type = "CLIENTREQ" /\ stack'[1].arg = arg /\ stack'[1].pc = "call"
    BY <1>9 DEF Starts, Top
  <2>2. stack' # <<>>
    BY <2>1
  <2>3. ToApply'
    BY <1>1, <1>2, <2>1 DEF ToApply
  <2>4. AppliedAgrees'
    BY <1>1, <1>2, <2>2, <2>3 DEF AppliedAgrees
  <2>5. SlavesAwaited'
    BY <2>1 DEF SlavesAwaited
  <2> QED
    BY <1>3, <1>4, <1>6, <2>1, <2>4, <2>5 DEF AppliedIInv
<1> QED
  BY <1>5, <1>8, <1>9

\* A client that waits for nothing has nothing applied.
LEMMA IdleKeepsApplied ==
  ASSUME AppliedIInv, stack' = <<>>, client'.pc # "asked", applied' = 0
  PROVE  AppliedIInv'
<1>1. WantedOp' = "LOOKUP"
  BY DEF WantedOp
<1>2. SlavesAwaited'
  BY DEF SlavesAwaited
<1>3. AppliedAgrees'
  BY <1>1 DEF AppliedAgrees, Changes
<1> QED
  BY <1>2, <1>3 DEF AppliedIInv

\* Nor has one that looks something up, or has not asked yet.
LEMMA OnlyAskedApplies ==
  ASSUME AppliedIInv, client.pc # "asked"
  PROVE  applied = 0
BY DEF AppliedIInv, AppliedAgrees, WantedOp, Changes

\* The invariant is inductive.
LEMMA NextKeepsApplied ==
  ASSUME HashIsNat, DataIInv, ChainIInv, AppliedIInv, [Next]_vars
  PROVE  AppliedIInv'
<1>0. /\ stack # <<>> => client.pc \in {"looking", "asked"}
      /\ {"pc", "at", "ino"} \subseteq DOMAIN client
      /\ client.pc # "idle" => call # Nil
      /\ ret \in BOOLEAN
  BY CallsAssumption DEF DataIInv, AskerIInv, RequestsIInv, ClientWaits, WalkIInv, Booleans
<1>1. ASSUME NEW c \in Calls, Begin(c) PROVE AppliedIInv'
  <2>1. client.pc = "idle" /\ UNCHANGED stack /\ applied' = applied /\ client'.pc = "walk"
    BY <1>0, <1>1 DEF Begin, msgVars, historyVars
  <2> QED
    BY <1>0, <2>1, IdleKeepsApplied, OnlyAskedApplies
<1>2. CASE Register
  <2>1. client.pc = "idle" /\ UNCHANGED <<stack, applied, client>>
    BY <1>0, <1>2 DEF Register, callVars, historyVars
  <2> QED
    BY <1>0, <2>1, IdleKeepsApplied, OnlyAskedApplies
<1>3. ASSUME NEW ino, Found(ino), client.pc # "asked", stack = <<>>, UNCHANGED stack PROVE AppliedIInv'
  <2>1. applied' = applied /\ client'.pc # "asked"
    BY <1>3 DEF Found, historyVars
  <2> QED
    BY <1>3, <2>1, IdleKeepsApplied, OnlyAskedApplies
<1>4. ASSUME NEW b, Finish(b), stack = <<>>, UNCHANGED stack PROVE AppliedIInv'
  <2>1. applied' = 0 /\ client'.pc # "asked"
    BY <1>4 DEF Finish, NotWalking
  <2> QED
    BY <1>4, <2>1, IdleKeepsApplied
<1>5. CASE LookupCached
  BY <1>0, <1>3, <1>5 DEF LookupCached, msgVars
<1>6. CASE LookupReturns
  BY <1>3, <1>4, <1>6 DEF LookupReturns, msgVars
<1>7. CASE Answered
  BY <1>0, <1>4, <1>7 DEF Answered, msgVars
<1>8. CASE RequestReturns
  BY <1>4, <1>8 DEF RequestReturns, msgVars
<1>9. ASSUME UNCHANGED <<stack, ret, call, client, applied>> PROVE AppliedIInv'
  BY <1>9 DEF AppliedIInv, SlavesAwaited, AppliedAgrees, ToApply, WasApplied, Top, IsRequest, Changes, WantedOp
<1>10. CASE LooksAtDeleted \/ UNCHANGED vars
  BY <1>9, <1>10 DEF LooksAtDeleted, Undefined, vars, msgVars, callVars, historyVars
<1>11. CASE HandleReply
  <2>1. /\ stack # <<>> /\ Top.type = "REPLY" /\ Return(TRUE) /\ UNCHANGED <<call, client, applied>>
    BY <1>11 DEF HandleReply, Called, callVars, historyVars
  <2>2. ~ToApply
    BY <2>1, TopShape DEF ToApply, DataIInv, AskerIInv, RequestsIInv
  <2>3. Changes(WantedOp) => WasApplied
    BY <2>1, <2>2 DEF AppliedIInv, AppliedAgrees
  <2> QED
    BY <2>1, <2>3, ReturnAgrees
<1>12. CASE HandleReturn
  <2>1. /\ stack # <<>> /\ Top.pc = "tail" /\ Return(ret) /\ UNCHANGED <<call, client, applied>>
    BY <1>12 DEF HandleReturn, ReturnTail, Resumed, callVars, historyVars
  <2>2. /\ Top.type \in {"CLIENTREQ", "FORWARD", "REPLY", "SLAVEREQ", "SLAVEREPLY"}
        /\ Len(stack) \in DOMAIN stack /\ Top = stack[Len(stack)]
    BY <2>1, TopShape DEF FrameShape, DataIInv, AskerIInv, RequestsIInv
  <2>3. ToApply /\ ret => Top.type \in {"SLAVEREQ", "SLAVEREPLY"}
    BY <2>1, <2>2 DEF ToApply, IsRequest
  <2>4. WasApplied => ret
    BY <2>1 DEF WasApplied
  <2>5. Changes(WantedOp) => ToApply \/ WasApplied
    BY <2>1 DEF AppliedIInv, AppliedAgrees
  <2> QED
    BY <1>0, <2>1, <2>3, <2>4, <2>5, ReturnAgrees
<1> QED
  BY <1>1, <1>2, <1>5, <1>6, <1>7, <1>8, <1>10, <1>11, <1>12, ClientAsksApplied, MdsStepKeepsApplied
     DEF Next, Step, ClientStep

\* At first nothing is asked.
LEMMA InitApplied == Init => AppliedIInv
BY DEF Init, MessagingInit, AppliedIInv, SlavesAwaited, AppliedAgrees, WantedOp, Changes, NotWalking

\* When a call returns its operation was carried out once, if it was to change
\* the file system and has returned TRUE, and not at all otherwise: whatever
\* MDSs its request was forwarded to, whatever of a fan-out failed, and also
\* when the client has followed a cached inode.
THEOREM CallsApplyOnce ==
  ASSUME HashIsNat
  PROVE  Spec => ExactlyOnce
<1> DEFINE Once == Returning => applied = (IF Mutates(call.op) /\ result' THEN 1 ELSE 0)
           IInv == DataIInv /\ ChainIInv /\ AppliedIInv
<1>1. Init => IInv
  BY InitData, InitChain, InitApplied
<1>2. IInv /\ [Next]_vars => IInv'
  BY NextKeepsData, NextKeepsChain, NextKeepsApplied
<1>3. IInv /\ [Next]_vars => [Once]_vars
  <2> SUFFICES ASSUME IInv, Next, call # Nil, call' = Nil
               PROVE  applied = (IF Mutates(call.op) /\ result' THEN 1 ELSE 0)
    BY DEF Returning
  <2>1. (LookupReturns /\ Finish(FALSE)) \/ Answered \/ RequestReturns
    <3>1. ASSUME NEW c \in Calls, Begin(c) PROVE FALSE
      BY <3>1, CallsAssumption DEF Begin
    <3>2. ASSUME NEW r \in Ranks, MdsStep(r) PROVE UNCHANGED call
      BY <3>2 DEF MdsStep, Forward, OpLookup, OpCreate, OpMkdir, OpRead, OpWrite, OpRm, OpScan, AskSlave,
           SlaveReturns, EndListdir, EndRmdir, HandleSlaveRequest, HandleSlaveReply, FollowsDeleted,
           Undefined, Reply, Fail, callVars
    <3>3. ASSUME Register \/ HandleReturn \/ LookupCached \/ LookupRemote \/ LooksAtDeleted \/ Request \/ HandleReply
          PROVE  UNCHANGED call
      BY <3>3 DEF Register, HandleReturn, LookupCached, LookupRemote, LooksAtDeleted, Request, HandleReply,
           Found, Undefined, callVars
    <3>4. ASSUME LookupReturns PROVE Finish(FALSE) \/ UNCHANGED call
      BY <3>4 DEF LookupReturns, Found
    <3> QED
      BY <3>1, <3>2, <3>3, <3>4 DEF Next, Step, ClientStep
  <2>2. CASE LookupReturns /\ Finish(FALSE)
    BY <2>2, OnlyAskedApplies DEF LookupReturns, Finish
  <2>3. CASE Answered
    <3>1. applied = 0 /\ (call.op \in {"exist", "is_file", "is_dir"} \/ result' = FALSE)
      BY <2>3, OnlyAskedApplies DEF Answered, Finish
    <3> QED
      BY <3>1 DEF Mutates
  <2>4. CASE RequestReturns
    <3>1. client.pc = "asked" /\ stack = <<>> /\ result' = ret /\ ret \in BOOLEAN
      BY <2>4 DEF RequestReturns, Finish, DataIInv, Booleans
    <3>2. call.op \in DOMAIN RequestOp /\ WantedOp = RequestOp[call.op]
      BY <3>1 DEF AppliedIInv, WantedOp
    <3>3. Mutates(call.op) <=> Changes(WantedOp)
      BY <3>2 DEF RequestOp, Mutates, Changes
    <3>4. IF ~Changes(WantedOp) THEN applied = 0 ELSE applied = IF ret THEN 1 ELSE 0
      BY <3>1 DEF AppliedIInv, AppliedAgrees
    <3> QED
      BY <3>1, <3>3, <3>4
  <2> QED
    BY <2>1, <2>2, <2>3, <2>4
<1> QED
  BY <1>1, <1>2, <1>3, PTL DEF Spec, ExactlyOnce
-----------------------------------------------------------------------------
(***************************************************************************)
(* Which entries of a directory belong to nobody: none, if the MDS that      *)
(* goes through it finds that another has one.                              *)
(***************************************************************************)
\* The way to what is found is found.
LEMMA PrefixFound ==
  ASSUME NEW h, HeapIInv(h), NEW p \in Path, Lookup(h, p) # Null, NEW k \in 0 .. Len(p)
  PROVE  Lookup(h, Prefix(p, k)) # Null
<1> DEFINE q == Prefix(p, k)
           n == Len(p)
<1>1. n \in Nat /\ q \in Path /\ Len(q) = k /\ k \in Nat /\ k <= n /\ \A i \in 1 .. k : q[i] = p[i]
  BY PathParts
<1>2. PICK at : IsWalk(h, p, at) /\ Lookup(h, p) = at[n]
  BY <1>1, LookupWalks
<1>3. PICK to : IsWalk(h, q, to) /\ Lookup(h, q) = to[k]
  BY <1>1, LookupWalks
<1>4. to[k] = at[k]
  <2>1. \A j \in 0 .. Len(q) : to[j] = at[j]
    BY <1>1, <1>2, <1>3, WalkIsUnique
  <2> QED
    BY <1>1, <2>1
<1>5. \A j \in 1 .. n : at[j - 1] = Null => at[j] = Null
  <2> TAKE j \in 1 .. n
  <2>1. j \in 0 .. n /\ j # 0
    BY <1>1
  <2>2. at[j] = IF p[j] = "" THEN at[j - 1] ELSE IF at[j - 1] = Null THEN Null ELSE GetSub(h, at[j - 1], p[j])
    BY <1>2, <2>1 DEF IsWalk
  <2> QED
    BY <2>2, Zenon
<1> HIDE DEF n, q
<1> SUFFICES ASSUME at[k] = Null PROVE FALSE
  BY <1>3, <1>4 DEF q
<1> DEFINE found == {j \in k .. n : at[j] # Null}
<1>6. n \in found /\ found \in SUBSET Nat
  BY <1>1, <1>2
<1> DEFINE j == First(found)
<1>7. j \in found /\ \A l \in found : j <= l
  <2> HIDE DEF found
  <2> QED
    BY <1>6, FirstExists
<1> HIDE DEF j
<1>8. j \in k .. n /\ at[j] # Null /\ j # k
  BY <1>7
<1>9. j - 1 \in k .. n /\ j \in 1 .. n /\ ~(j <= j - 1)
  BY <1>1, <1>8
<1>10. at[j - 1] = Null
  BY <1>7, <1>9
<1> QED
  BY <1>5, <1>8, <1>9, <1>10

\* An entry has an index.
LEMMA IndexIsNat ==
  ASSUME NEW h, HeapIInv(h), NEW d \in DOMAIN h, NEW c
  PROVE  IndexOf(h, d, c) \in Nat
<1>1. IsFiniteSet(h[d].entries)
  <2>1. Len(h) \in Nat /\ h[d].entries \subseteq d + 1 .. Len(h) /\ d \in Nat
    BY DEF HeapIInv, IsHeap
  <2>2. IsFiniteSet(d + 1 .. Len(h))
    BY <2>1, FS_Interval
  <2> QED
    BY <2>1, <2>2, FS_Subset
<1>2. {l \in h[d].entries : l < c} \subseteq h[d].entries
  OBVIOUS
<1> QED
  BY <1>1, <1>2, FS_Subset, FS_CardinalityType DEF IndexOf

\* What is found is an entry of its directory,
LEMMA FoundHasIndex ==
  ASSUME NEW h, HeapIInv(h), NEW p \in Path, Plain(p), p # RootPath, Lookup(h, p) # Null
  PROVE  WhichChild(h, p) \in Nat
<1> DEFINE d == DirName(p)
           x == BaseName(p)
<1>1. /\ Append(d, x) = p /\ d \in Path /\ x \in Name
  BY DirAndBase, PathParts DEF Path
<1>2. Len(d) \in Nat /\ Len(p) = Len(d) + 1 /\ p[Len(p)] = x /\ \A k \in 1 .. Len(d) : p[k] = d[k]
  <2>1. Len(d) \in Nat
    BY <1>1, PathParts
  <2> QED
    BY <1>1, <2>1, AppendProperties DEF Path
<1>3. p[Len(p)] # ""
  <2>1. Len(p) \in DOMAIN p
    BY <1>2, PathParts
  <2> QED
    BY <2>1, Zenon DEF Plain
<1> HIDE DEF d, x
<1>4. Lookup(h, p) = IF p[Len(p)] = "" THEN Lookup(h, d)
                     ELSE IF Lookup(h, d) = Null THEN Null
                     ELSE GetSub(h, Lookup(h, d), p[Len(p)])
  BY <1>2, LookupStep
<1>5. Lookup(h, d) # Null /\ GetSub(h, Lookup(h, d), x) # Null
  BY <1>2, <1>3, <1>4, Zenon
<1>6. WhichChild(h, p) = IndexOf(h, Lookup(h, d), GetSub(h, Lookup(h, d), x))
  BY <1>5 DEF WhichChild, d, x
<1>7. Lookup(h, d) \in DOMAIN h
  BY <1>2, <1>5, LookupIsSound DEF Sound
<1> QED
  BY <1>6, <1>7, IndexIsNat

\* Of a path of two parts.
LEMMA PairParts ==
  ASSUME NEW e, NEW x
  PROVE  LET s == <<e, x>>
         IN SubSeq(s, 1, Len(s) - 1) = <<e>> /\ Len(s) = 2 /\ s[1] = e /\ s[2] = x /\ s # <<>> /\ Tail(s) = <<x>>
<1> DEFINE s == <<e, x>>
           S == {e, x}
<1>1. s \in Seq(S) /\ Len(s) = 2 /\ s[1] = e /\ s[2] = x
  OBVIOUS
<1>2. s # <<>>
  <2>1. Len(<<>>) = 0
    BY EmptySeq
  <2> QED
    BY <1>1, <2>1
<1>3. <<e>> \in Seq(S) /\ <<x>> \in Seq(S) /\ Len(<<e>>) = 1 /\ Len(<<x>>) = 1 /\ <<e>>[1] = e /\ <<x>>[1] = x
  OBVIOUS
<1> HIDE DEF s, S
<1>4. SubSeq(s, 1, 1) = <<e>>
  <2> DEFINE t == SubSeq(s, 1, 1)
             u == <<e>>
  <2>0. \A i \in 1 .. 1 : s[i] \in S
    BY <1>1, <1>3 DEF S
  <2>1. t \in Seq(S) /\ Len(t) = 1 /\ \A i \in 1 .. 1 : t[i] = s[i]
    BY <2>0, SubSeqProperties
  <2>2. u \in Seq(S) /\ Len(u) = 1 /\ \A i \in 1 .. 1 : u[i] = s[i]
    BY <1>1, <1>3
  <2> HIDE DEF t, u
  <2>3. t = u
    BY <2>1, <2>2, SeqEqual
  <2> QED
    BY <2>3 DEF t, u
<1>5. Tail(s) = <<x>>
  <2> DEFINE t == Tail(s)
             u == <<x>>
  <2>1. t \in Seq(S) /\ Len(t) = 1 /\ \A i \in 1 .. 1 : t[i] = s[i + 1]
    BY <1>1, <1>2, HeadTailProperties
  <2>2. u \in Seq(S) /\ Len(u) = 1 /\ \A i \in 1 .. 1 : u[i] = s[i + 1]
    BY <1>1, <1>3
  <2> HIDE DEF t, u
  <2>3. t = u
    BY <2>1, <2>2, SeqEqual
  <2> QED
    BY <2>3 DEF t, u
<1>6. Len(s) - 1 = 1
  BY <1>1
<1> QED
  BY <1>1, <1>2, <1>4, <1>5, <1>6 DEF s

\* and so is an entry of the root, by the path it has in a scan.
LEMMA RootEntryHasIndex ==
  ASSUME NEW h, HeapIInv(h), NEW i \in h[Root].entries
  PROVE  WhichChild(h, Join(RootPath, h[i].name)) \in Nat
<1> DEFINE x == h[i].name
           p == <<"", x>>
<1>1. /\ Join(RootPath, x) = p
  BY DEF Join
<1>2. DirName(p) = RootPath /\ BaseName(p) = x
  <2>1. SubSeq(p, 1, Len(p) - 1) = <<"">> /\ Len(p) = 2 /\ p[2] = x /\ p # <<>>
    BY PairParts, Zenon
  <2> HIDE DEF p
  <2>2. DirName(p) = RootPath
    BY <2>1, Zenon DEF DirName
  <2>3. BaseName(p) = p[2]
    BY <2>1, Zenon DEF BaseName, RootPath
  <2> QED
    BY <2>1, <2>2, <2>3
<1> HIDE DEF p
<1>3. Lookup(h, RootPath) = Root
  <2>1. Len(RootPath) = 0
    BY EmptySeq DEF RootPath
  <2> QED
    BY <2>1, LookupRoot
<1>4. Root \in DOMAIN h /\ Root # Null
  BY DEF HeapIInv, IsHeap, Root, Null
<1>5. GetSub(h, Root, x) # Null
  <2>1. i \in Named(h, Root, x)
    BY DEF Named
  <2> QED
    BY <1>4, <2>1, GetSubIs DEF HeapIInv
<1>6. WhichChild(h, p) = IndexOf(h, Root, GetSub(h, Root, x))
  BY <1>2, <1>3, <1>4, <1>5 DEF WhichChild
<1> QED
  BY <1>1, <1>4, <1>6, IndexIsNat

\* The ranks in the table are somebody's.
LEMMA TableOwns ==
  ASSUME TreeIInv, NEW c \in Nat
  PROVE  /\ HostOfChild(c)[1] # NoRank
         /\ \A d \in Nat : HostOfChild(c)[(d % Len(HostOfChild(c))) + 1] # NoRank
<1>1. IsTable(lut, Initial)
  BY TableLists DEF TreeIInv
<1>2. /\ HostOfChild(c)[1] \in Initial
      /\ \A d \in Nat : HostOfChild(c)[(d % Len(HostOfChild(c))) + 1] \in Initial
  BY <1>1, TableEntry DEF HostOfChild
<1>3. \A r \in Initial : r # NoRank
  BY DEF Initial, NoRank
<1> QED
  BY <1>2, <1>3

\* Under the subtree strategy every path belongs to somebody.
LEMMA SubtreeOwns ==
  ASSUME TreeIInv, strategy = "subtree", NEW p \in Path, Plain(p)
  PROVE  OwnerOf(p) # NoRank
<1> DEFINE d == NearestDir(heap, p)
           n == Len(d)
           c1 == WhichChild(heap, Prefix(d, 1))
           c2 == WhichChild(heap, Prefix(d, 2))
<1>1. HeapIInv(heap)
  BY DEF TreeIInv
<1>2. PICK k \in 0 .. Len(p) : d = Prefix(p, k) /\ IsDirPath(heap, d)
  BY <1>1, NearestIs
<1>3. /\ d \in Path /\ n \in Nat /\ n = k /\ DOMAIN d = 1 .. n /\ \A i \in 1 .. n : d[i] = p[i]
      /\ DOMAIN p = 1 .. Len(p) /\ Len(p) \in Nat
  BY <1>2, PathParts
<1>4. Plain(d)
  <2>1. \A i \in DOMAIN d : i \in DOMAIN p /\ d[i] = p[i]
    BY <1>3
  <2> QED
    BY <2>1, Zenon DEF Plain
<1>5. Lookup(heap, d) # Null
  BY <1>2 DEF IsDirPath
<1>6. SplitPath(d) = d
  <2>1. d # <<>> => 1 \in DOMAIN d
    BY <1>3, EmptySeq DEF Path
  <2>2. d # <<>> => d[1] # ""
    BY <1>4, <2>1, Zenon DEF Plain
  <2> QED
    BY <2>2, Zenon DEF SplitPath, RootPath
<1>7. OwnerOf(p) = IF d = <<>> THEN 0
                   ELSE IF n = 1 THEN DispatchLevel1(heap, d)
                   ELSE IF c1 = NoRank \/ c2 = NoRank THEN NoRank
                   ELSE HostOfChild(c1)[(c2 % Len(HostOfChild(c1))) + 1]
  BY <1>6 DEF OwnerOf, RankOf, SubtreeDispatch
<1> HIDE DEF d
<1>8. ASSUME NEW l \in 1 .. n PROVE WhichChild(heap, Prefix(d, l)) \in Nat
  <2> DEFINE q == Prefix(d, l)
  <2>1. /\ l \in 0 .. Len(d) /\ q \in Path /\ Len(q) = l /\ DOMAIN q = 1 .. l
        /\ \A i \in 1 .. l : q[i] = d[i]
    BY <1>3, PathParts
  <2>2. Lookup(heap, q) # Null
    BY <1>1, <1>3, <1>5, <2>1, PrefixFound
  <2>3. \A i \in DOMAIN q : i \in DOMAIN d /\ q[i] = d[i]
    BY <1>3, <2>1
  <2> HIDE DEF q
  <2>4. Plain(q)
    BY <1>4, <2>3, Zenon DEF Plain
  <2>5. q # RootPath
    <3>1. Len(<<>>) = 0
      BY EmptySeq
    <3> QED
      BY <2>1, <3>1 DEF RootPath
  <2>6. WhichChild(heap, q) \in Nat
    BY <1>1, <2>1, <2>2, <2>4, <2>5, FoundHasIndex
  <2> QED
    BY <2>6 DEF q
<1>9. \A c \in Nat : c # NoRank
  BY DEF NoRank
<1>10. CASE d = <<>>
  BY <1>7, <1>10 DEF NoRank
<1>11. CASE d # <<>> /\ n = 1
  <2>1. Prefix(d, 1) = d
    BY <1>3, <1>11, SubSeqFull DEF Prefix, Path
  <2>2. WhichChild(heap, d) \in Nat
    BY <1>3, <1>8, <1>11, <2>1
  <2>3. OwnerOf(p) = HostOfChild(WhichChild(heap, d))[1]
    BY <1>7, <1>9, <1>11, <2>2 DEF DispatchLevel1
  <2> QED
    BY <2>2, <2>3, TableOwns
<1>12. CASE d # <<>> /\ n # 1
  <2>1. n # 0
    BY <1>3, <1>12, EmptySeq DEF Path
  <2>2. 1 \in 1 .. n /\ 2 \in 1 .. n
    BY <1>3, <1>12, <2>1
  <2>3. c1 \in Nat /\ c2 \in Nat
    BY <1>8, <2>2
  <2> HIDE DEF c1, c2
  <2>4. OwnerOf(p) = HostOfChild(c1)[(c2 % Len(HostOfChild(c1))) + 1]
    BY <1>7, <1>9, <1>12, <2>3
  <2> QED
    BY <2>3, <2>4, TableOwns
<1> QED
  BY <1>10, <1>11, <1>12

\* An entry of the root belongs to somebody under both strategies that have a
\* table.
LEMMA RootEntryOwned ==
  ASSUME TreeIInv, strategy # "hashing", NEW i \in heap[Root].entries
  PROVE  EntryOwner(RootPath, i) # NoRank
<1> DEFINE x == heap[i].name
           q == Join(RootPath, x)
<1>1. HeapIInv(heap) /\ strategy \in {"subtree", "hybrid"} /\ heap[i].name \in Name
  <2>1. i \in DOMAIN heap
    <3>1. /\ Len(heap) \in Nat /\ DOMAIN heap = 1 .. Len(heap) /\ Root \in DOMAIN heap
          /\ heap[Root].entries \subseteq Root + 1 .. Len(heap)
      BY DEF TreeIInv, HeapIInv, IsHeap, Root
    <3> QED
      BY <3>1 DEF Root
  <2> QED
    BY <2>1 DEF TreeIInv, Strategies
<1>2. EntryOwner(RootPath, i) = OwnerOf(q) /\ WhichChild(heap, q) \in Nat
  BY <1>1, RootEntryHasIndex DEF EntryOwner
<1>3. /\ Len(q) = 2 /\ q # <<>> /\ q[1] = "" /\ q[2] = x /\ Tail(q) = <<x>> /\ SubSeq(q, 1, Len(q) - 1) = <<"">>
  BY PairParts, Zenon DEF Join
<1>31. Len(q) = 2
  BY <1>3, Zenon
<1>4. q \in Path
  <2>1. RootPath \in Path
    BY DEF RootPath, Path
  <2> QED
    BY <1>1, <2>1, EntryPath
<1> HIDE DEF q
<1>5. SplitPath(q) = <<x>>
  BY <1>3, Zenon DEF SplitPath, RootPath
<1>6. DispatchLevel1(heap, q) # NoRank
  <2>1. DispatchLevel1(heap, q) = HostOfChild(WhichChild(heap, q))[1]
    BY <1>2 DEF DispatchLevel1, NoRank
  <2> QED
    BY <1>2, <2>1, TableOwns
<1>7. Len(<<x>>) = 1 /\ <<x>> # <<>>
  <2>1. Len(<<x>>) = 1
    OBVIOUS
  <2>2. Len(<<>>) = 0
    BY EmptySeq
  <2> QED
    BY <2>1, <2>2
<1>8. CASE strategy = "hybrid"
  <2>1. OwnerOf(q) = DispatchLevel1(heap, q)
    BY <1>5, <1>7, <1>8 DEF OwnerOf, RankOf, HybridDispatch
  <2> QED
    BY <1>2, <1>6, <2>1
<1>9. CASE strategy = "subtree"
  <2> DEFINE d == NearestDir(heap, q)
  <2>1. PICK k \in 0 .. Len(q) : d = Prefix(q, k)
    BY <1>1, <1>4, NearestIs
  <2>2. d \in Path /\ Len(d) = k
    BY <1>4, <2>1, PathParts
  <2>3. OwnerOf(q) = SubtreeDispatch(heap, q)
    BY <1>9 DEF OwnerOf, RankOf
  <2> HIDE DEF d
  <2>4. CASE k = 2
    <3>1. d = q
      BY <1>3, <1>4, <2>1, <2>4, SubSeqFull DEF Prefix, Path
    <3>2. SubtreeDispatch(heap, q) = DispatchLevel1(heap, q)
      BY <1>5, <1>7, <3>1 DEF SubtreeDispatch, d
    <3> QED
      BY <1>2, <1>6, <2>3, <3>2
  <2>5. CASE k = 1
    <3>1. d = <<"">>
      <4>1. d = SubSeq(q, 1, 1)
        BY <2>1, <2>5 DEF Prefix
      <4>2. Len(q) - 1 = 1
        BY <1>31
      <4> QED
        BY <1>3, <4>1, <4>2, Zenon
    <3>2. d # RootPath
      <4>1. Len(<<>>) = 0
        BY EmptySeq
      <4> QED
        BY <2>2, <2>5, <4>1 DEF RootPath
    <3>3. Tail(d) = <<>>
      <4>1. Tail(d) \in Seq(Name) /\ Len(Tail(d)) = Len(d) - 1
        BY <2>2, <3>2, HeadTailProperties DEF Path, RootPath
      <4>2. Len(Tail(d)) = 0
        BY <2>2, <2>5, <4>1
      <4> QED
        BY <4>1, <4>2, EmptySeq
    <3>4. SplitPath(d) = <<>>
      <4>1. d[1] = q[1]
        <5>1. k \in 0 .. Len(q) /\ 1 \in 1 .. k
          BY <2>5
        <5> QED
          BY <1>4, <2>1, <5>1, PathParts
      <4>2. d[1] = ""
        BY <1>3, <4>1
      <4> QED
        BY <3>2, <3>3, <4>2, Zenon DEF SplitPath
    <3>5. SubtreeDispatch(heap, q) = 0
      BY <3>4 DEF SubtreeDispatch, d
    <3> QED
      BY <1>2, <2>3, <3>5 DEF NoRank
  <2>6. CASE k = 0
    <3>1. d = <<>>
      BY <2>2, <2>6, EmptySeq DEF Path
    <3>2. SplitPath(d) = <<>>
      BY <3>1, Zenon DEF SplitPath, RootPath
    <3>3. SubtreeDispatch(heap, q) = 0
      BY <3>2 DEF SubtreeDispatch, d
    <3> QED
      BY <1>2, <2>3, <3>3 DEF NoRank
  <2> QED
    BY <1>31, <2>4, <2>5, <2>6
<1> QED
  BY <1>1, <1>8, <1>9

\* Nobody has made an entry without a name.
NamesPlain == \A i \in DOMAIN heap : heap[i].name # ""

\* The names of a longer path are those of the path, and the last.
LEMMA LongerNames ==
  ASSUME NEW p \in Path, NEW x \in Name, NEW i \in DOMAIN Append(p, x)
  PROVE  (i \in DOMAIN p /\ Append(p, x)[i] = p[i]) \/ Append(p, x)[i] = x
<1> DEFINE q == Append(p, x)
<1>1. DOMAIN p = 1 .. Len(p) /\ Len(p) \in Nat /\ q \in Path /\ Len(q) = Len(p) + 1
  BY PathParts, LongerPath
<1>2. q[Len(p) + 1] = x /\ \A j \in 1 .. Len(p) : q[j] = p[j]
  BY AppendProperties DEF Path
<1>3. i \in DOMAIN q
  OBVIOUS
<1> HIDE DEF q
<1>4. DOMAIN q = 1 .. Len(p) + 1
  BY <1>1, PathParts
<1>5. i = Len(p) + 1 \/ i \in 1 .. Len(p)
  BY <1>1, <1>3, <1>4
<1> QED
  BY <1>1, <1>2, <1>5 DEF q

\* The path of an entry with a name has no empty one, either.
LEMMA EntryIsPlain ==
  ASSUME NEW p \in Path, Plain(p), NEW x \in Name, x # ""
  PROVE  Plain(Append(p, x))
<1> SUFFICES ASSUME NEW i \in DOMAIN Append(p, x) PROVE Append(p, x)[i] # ""
  BY Zenon DEF Plain
<1>1. (i \in DOMAIN p /\ Append(p, x)[i] = p[i]) \/ Append(p, x)[i] = x
  BY LongerNames, Zenon
<1>2. \A j \in DOMAIN p : p[j] # ""
  BY Zenon DEF Plain
<1> QED
  BY <1>1, <1>2, Zenon

\* Below the root, the hybrid strategy knows the owners of all entries of a
\* directory, and its own, or of none.
LEMMA HybridOwns ==
  ASSUME HashIsNat, TreeIInv, strategy = "hybrid", NEW p \in Path, Plain(p), p # RootPath
  PROVE  \/ \A x \in Name : OwnerOf(Join(p, x)) = NoRank
         \/ OwnerOf(p) # NoRank /\ \A x \in Name : OwnerOf(Join(p, x)) # NoRank
<1> DEFINE n == Len(p)
           c == WhichChild(heap, Prefix(p, 1))
<1>1. n \in Nat /\ n # 0 /\ 1 \in 0 .. n /\ DOMAIN p = 1 .. n
  BY PathParts, EmptySeq DEF Path, RootPath
<1>2. p[1] # ""
  <2>1. 1 \in DOMAIN p
    BY <1>1
  <2> QED
    BY <2>1, Zenon DEF Plain
<1>3. SplitPath(p) = p
  BY <1>2, Zenon DEF SplitPath
<1>4. c \in Nat \cup {NoRank}
  BY <1>1, PathParts, ChildIs DEF TreeIInv
<1>5. ASSUME NEW x \in Name
      PROVE  /\ Join(p, x) \in Path
             /\ OwnerOf(Join(p, x)) = IF c = NoRank THEN NoRank
                                      ELSE HostOfChild(c)[(Hash(Join(p, x)) % Len(HostOfChild(c))) + 1]
  <2> DEFINE q == Append(p, x)
  <2>1. q \in Path /\ Len(q) = n + 1 /\ Prefix(q, 1) = Prefix(p, 1)
    BY <1>1, LongerPath
  <2>2. q[1] = p[1]
    BY <1>1, AppendProperties DEF Path
  <2>3. q # <<>> /\ Len(q) # 1
    <3>1. Len(<<>>) = 0
      BY EmptySeq
    <3> QED
      BY <1>1, <2>1, <3>1
  <2>4. Join(p, x) = q
    BY Zenon DEF Join
  <2> HIDE DEF q
  <2>5. SplitPath(q) = q
    BY <1>2, <2>2, Zenon DEF SplitPath
  <2>6. OwnerOf(q) = IF c = NoRank THEN NoRank
                     ELSE HostOfChild(c)[(Hash(q) % Len(HostOfChild(c))) + 1]
    BY <2>1, <2>3, <2>5 DEF OwnerOf, RankOf, HybridDispatch
  <2> QED
    BY <2>1, <2>4, <2>6
<1>6. OwnerOf(p) = IF n = 1 THEN DispatchLevel1(heap, p)
                   ELSE IF c = NoRank THEN NoRank
                   ELSE HostOfChild(c)[(Hash(p) % Len(HostOfChild(c))) + 1]
  BY <1>3 DEF OwnerOf, RankOf, HybridDispatch, RootPath
<1>7. n = 1 => Prefix(p, 1) = p
  BY SubSeqFull DEF Prefix, Path
<1> HIDE DEF c
<1>8. CASE c = NoRank
  BY <1>5, <1>8
<1>9. CASE c # NoRank
  <2>1. c \in Nat
    BY <1>4, <1>9
  <2>2. n = 1 => DispatchLevel1(heap, p) = HostOfChild(c)[1]
    BY <1>7, <1>9 DEF DispatchLevel1, c
  <2>3. \A q \in Path : Hash(q) \in Nat
    BY DEF HashIsNat
  <2>4. OwnerOf(p) # NoRank
    BY <1>6, <1>9, <2>1, <2>2, <2>3, TableOwns
  <2>5. ASSUME NEW x \in Name PROVE OwnerOf(Join(p, x)) # NoRank
    BY <1>5, <1>9, <2>1, <2>3, TableOwns
  <2> QED
    BY <2>4, <2>5
<1> QED
  BY <1>8, <1>9

\* If somebody owns an entry, the directory and all its entries have owners.
LEMMA SomebodyOwns ==
  ASSUME HashIsNat, TreeIInv, ServicesIInv, NamesPlain,
         NEW p \in Path, Plain(p), NEW ino \in DOMAIN heap, PathOf(heap, ino) = p,
         NEW i \in heap[ino].entries, EntryOwner(p, i) # NoRank
  PROVE  OwnerOf(p) # NoRank /\ \A j \in heap[ino].entries : EntryOwner(p, j) # NoRank
<1>1. /\ IsHeap(heap) /\ \A j \in heap[ino].entries : j \in DOMAIN heap /\ heap[j].name \in Name
  <2>1. /\ DOMAIN heap = 1 .. Len(heap) /\ Len(heap) \in Nat /\ IsHeap(heap)
        /\ heap[ino].entries \subseteq ino + 1 .. Len(heap)
    BY DEF TreeIInv, HeapIInv, IsHeap
  <2>2. heap[ino].entries \subseteq DOMAIN heap
    BY <2>1
  <2> QED
    BY <2>1, <2>2 DEF TreeIInv
<1>2. CASE strategy = "hashing"
  <2>1. size \in Nat \ {0}
    BY InitialSizeAssumption, MaxRanksAssumption DEF ServicesIInv
  <2>2. \A q \in Path : OwnerOf(q) # NoRank
    <3> TAKE q \in Path
    <3>1. OwnerOf(q) = Hash(q) % size /\ Hash(q) \in Nat
      BY <1>2 DEF OwnerOf, RankOf, HashingDispatch, HashIsNat
    <3>2. Hash(q) % size \in Nat
      BY <2>1, <3>1
    <3> QED
      BY <3>1, <3>2 DEF NoRank
  <2> QED
    BY <1>1, <2>2, EntryPath DEF EntryOwner
<1>3. CASE strategy # "hashing" /\ p = RootPath
  <2>1. ino = Root
    BY <1>1, <1>3, RootAlone
  <2>2. OwnerOf(p) # NoRank
    <3>1. CASE strategy = "subtree"
      BY <3>1, SubtreeOwns
    <3>2. CASE strategy = "hybrid"
      <4>1. SplitPath(p) = <<>>
        BY <1>3, Zenon DEF SplitPath, RootPath
      <4> QED
        BY <3>2, <4>1 DEF OwnerOf, RankOf, HybridDispatch, NoRank
    <3> QED
      BY <1>3, <3>1, <3>2 DEF TreeIInv, Strategies
  <2>3. \A j \in heap[ino].entries : EntryOwner(p, j) # NoRank
    BY <1>3, <2>1, RootEntryOwned
  <2> QED
    BY <2>2, <2>3
<1>4. CASE strategy = "subtree" /\ p # RootPath
  <2>1. OwnerOf(p) # NoRank
    BY <1>4, SubtreeOwns
  <2>2. ASSUME NEW j \in heap[ino].entries PROVE EntryOwner(p, j) # NoRank
    <3> DEFINE x == heap[j].name
    <3>1. x \in Name /\ x # ""
      BY <1>1, Zenon DEF NamesPlain
    <3>2. EntryOwner(p, j) = OwnerOf(Append(p, x))
      BY <1>4, Zenon DEF EntryOwner, Join
    <3> HIDE DEF x
    <3>3. Append(p, x) \in Path
      BY <3>1, LongerPath
    <3>4. Plain(Append(p, x))
      BY <3>1, EntryIsPlain, Zenon
    <3> QED
      BY <1>4, <3>2, <3>3, <3>4, SubtreeOwns
  <2> QED
    BY <2>1, <2>2
<1>5. CASE strategy = "hybrid" /\ p # RootPath
  <2>1. \A j \in heap[ino].entries : heap[j].name \in Name /\ EntryOwner(p, j) = OwnerOf(Join(p, heap[j].name))
    BY <1>1 DEF EntryOwner
  <2> QED
    BY <1>5, <2>1, HybridOwns
<1> QED
  BY <1>2, <1>3, <1>4, <1>5 DEF TreeIInv, Strategies
-----------------------------------------------------------------------------
(***************************************************************************)
(* The parts of a directory: each entry belongs to one MDS, and each of      *)
(* those is asked once.                                                     *)
(***************************************************************************)
\* The entries of a directory are finitely many inodes.
LEMMA EntriesAre ==
  ASSUME TreeIInv, NEW ino \in DOMAIN heap
  PROVE  /\ heap[ino].entries \in SUBSET Nat /\ IsFiniteSet(heap[ino].entries)
         /\ heap[ino].entries \subseteq DOMAIN heap
<1>1. /\ DOMAIN heap = 1 .. Len(heap) /\ Len(heap) \in Nat /\ ino \in Nat
      /\ heap[ino].entries \subseteq ino + 1 .. Len(heap)
  BY DEF TreeIInv, HeapIInv, IsHeap
<1>2. IsFiniteSet(ino + 1 .. Len(heap))
  BY <1>1, FS_Interval
<1> QED
  BY <1>1, <1>2, FS_Subset

\* The first of the entries of an MDS is in the list, and no other of them.
LEMMA OthersAreEach ==
  ASSUME TreeIInv, NEW r, NEW f, f.ino \in DOMAIN heap
  PROVE  /\ \A j, k \in DOMAIN Others(r, f) : Others(r, f)[j] = Others(r, f)[k] => j = k
         /\ \A i \in heap[f.ino].entries :
              EntryOwner(f.fullpath, i) \notin {r, NoRank}
              => \E k \in DOMAIN Others(r, f) : Others(r, f)[k] = EntryOwner(f.fullpath, i)
<1> DEFINE others == heap[f.ino].entries \ OwnEntries(r, f)
           Owner(i) == EntryOwner(f.fullpath, i)
           once == {i \in others : \A j \in others : Owner(i) = Owner(j) => i <= j}
           firsts == InOrder(once)
<1>1. others \in SUBSET Nat /\ once \in SUBSET Nat /\ IsFiniteSet(once) /\ once \subseteq others
  <2>1. others \in SUBSET Nat /\ IsFiniteSet(others)
    BY EntriesAre, FS_Subset
  <2> QED
    BY <2>1, FS_Subset
<1>2. Others(r, f) = [j \in DOMAIN firsts |-> Owner(firsts[j])]
  BY DEF Others
<1>3. \A i, j \in once : Owner(i) = Owner(j) => i <= j
  OBVIOUS
<1>4. ASSUME NEW i \in others PROVE \E j \in once : Owner(j) = Owner(i)
  <2> DEFINE same == {j \in others : Owner(j) = Owner(i)}
  <2>1. same \in SUBSET Nat /\ i \in same
    BY <1>1
  <2>2. First(same) \in same /\ \A j \in same : First(same) <= j
    BY <2>1, FirstExists
  <2>3. First(same) \in once
    BY <2>2
  <2> QED
    BY <2>2, <2>3
<1>5. \A i \in heap[f.ino].entries : Owner(i) \notin {r, NoRank} => i \in others
  BY DEF OwnEntries
<1> HIDE DEF once, others, Owner
<1>6. /\ firsts \in [1 .. Cardinality(once) -> once] /\ Increasing(firsts)
      /\ \A i \in once : \E k \in 1 .. Cardinality(once) : firsts[k] = i
      /\ Cardinality(once) \in Nat
  BY <1>1, InOrderIs, InOrderCovers
<1> HIDE DEF firsts
<1>7. \A j, k \in DOMAIN firsts : firsts[j] = firsts[k] => j = k
  <2> SUFFICES ASSUME NEW j \in DOMAIN firsts, NEW k \in DOMAIN firsts, firsts[j] = firsts[k], j < k PROVE FALSE
    BY <1>6
  <2>1. firsts[j] < firsts[k] /\ firsts[j] \in Nat
    BY <1>1, <1>6 DEF Increasing
  <2> QED
    BY <2>1
<1>8. ASSUME NEW j \in DOMAIN Others(r, f), NEW k \in DOMAIN Others(r, f), Others(r, f)[j] = Others(r, f)[k]
      PROVE  j = k
  <2>1. j \in DOMAIN firsts /\ k \in DOMAIN firsts /\ Owner(firsts[j]) = Owner(firsts[k])
    BY <1>2, <1>8
  <2>2. firsts[j] \in once /\ firsts[k] \in once /\ firsts[j] \in Nat /\ firsts[k] \in Nat
    BY <1>1, <1>6, <2>1
  <2>3. firsts[j] = firsts[k]
    BY <1>3, <2>1, <2>2
  <2> QED
    BY <1>7, <2>1, <2>3
<1>9. ASSUME NEW i \in heap[f.ino].entries, Owner(i) \notin {r, NoRank}
      PROVE  \E k \in DOMAIN Others(r, f) : Others(r, f)[k] = Owner(i)
  <2>1. PICK j \in once : Owner(j) = Owner(i)
    BY <1>4, <1>5, <1>9
  <2>2. PICK k \in DOMAIN firsts : firsts[k] = j
    BY <1>6
  <2>3. k \in DOMAIN Others(r, f) /\ Others(r, f)[k] = Owner(i)
    BY <1>2, <2>1, <2>2
  <2> QED
    BY <2>3
<1> QED
  BY <1>8, <1>9 DEF Owner

\* What lists two sets once each lists their union, if they are disjoint.
LEMMA OnceJoined ==
  ASSUME NEW A \in SUBSET Nat, NEW B \in SUBSET Nat, IsFiniteSet(A), IsFiniteSet(B), A \cap B = {},
         NEW s \in Seq(Nat), NEW t \in Seq(Nat), IsEachOnce(s, A), IsEachOnce(t, B)
  PROVE  IsEachOnce(s \o t, A \cup B)
<1> DEFINE u == s \o t
<1>1. /\ u \in Seq(Nat) /\ Len(u) = Len(s) + Len(t) /\ Len(s) \in Nat /\ Len(t) \in Nat
      /\ DOMAIN s = 1 .. Len(s) /\ DOMAIN t = 1 .. Len(t) /\ DOMAIN u = 1 .. Len(s) + Len(t)
      /\ \A i \in 1 .. Len(s) + Len(t) : u[i] = IF i <= Len(s) THEN s[i] ELSE t[i - Len(s)]
  BY ConcatProperties, LenProperties
<1> HIDE DEF u
<1>2. Cardinality(A \cup B) = Cardinality(A) + Cardinality(B)
  <2>1. Cardinality(A \cup B) = Cardinality(A) + Cardinality(B) - Cardinality(A \cap B)
    BY FS_Union
  <2>2. Cardinality(A \cap B) = 0 /\ Cardinality(A) \in Nat /\ Cardinality(B) \in Nat
    BY FS_EmptySet, FS_CardinalityType
  <2> QED
    BY <2>1, <2>2
<1>3. Len(u) = Cardinality(A \cup B)
  BY <1>1, <1>2 DEF IsEachOnce
<1>4. ASSUME NEW x \in ToSet(u) PROVE x \in A \cup B
  <2>1. PICK i \in 1 .. Len(s) + Len(t) : x = u[i]
    BY <1>1, <1>4 DEF ToSet
  <2>2. CASE i <= Len(s)
    <3>1. i \in DOMAIN s /\ x = s[i]
      BY <1>1, <2>1, <2>2
    <3> QED
      BY <3>1 DEF IsEachOnce, ToSet
  <2>3. CASE ~(i <= Len(s))
    <3>1. i - Len(s) \in DOMAIN t /\ x = t[i - Len(s)]
      BY <1>1, <2>1, <2>3
    <3> QED
      BY <3>1 DEF IsEachOnce, ToSet
  <2> QED
    BY <2>2, <2>3
<1>5. ASSUME NEW x \in A PROVE x \in ToSet(u)
  <2>1. PICK i \in DOMAIN s : s[i] = x
    BY DEF IsEachOnce, ToSet
  <2>2. i \in DOMAIN u /\ u[i] = x
    BY <1>1, <2>1
  <2> QED
    BY <2>2 DEF ToSet
<1>6. ASSUME NEW x \in B PROVE x \in ToSet(u)
  <2>1. PICK i \in 1 .. Len(t) : t[i] = x
    BY <1>1 DEF IsEachOnce, ToSet
  <2>2. PICK j \in Nat : j = i + Len(s)
    BY <1>1
  <2>3. j \in DOMAIN u /\ ~(j <= Len(s)) /\ j - Len(s) = i
    BY <1>1, <2>2
  <2>4. u[j] = x
    BY <1>1, <2>1, <2>3
  <2> QED
    BY <2>3, <2>4 DEF ToSet
<1> QED
  BY <1>3, <1>4, <1>5, <1>6 DEF IsEachOnce, u

\* The list of a set is one.
LEMMA InOrderIsOnce ==
  ASSUME NEW S \in SUBSET Nat, IsFiniteSet(S)
  PROVE  InOrder(S) \in Seq(Nat) /\ IsEachOnce(InOrder(S), S)
<1>1. /\ InOrder(S) \in [1 .. Cardinality(S) -> S] /\ InOrder(S) \in Seq(S) /\ Len(InOrder(S)) = Cardinality(S)
      /\ \A x \in S : \E i \in 1 .. Cardinality(S) : InOrder(S)[i] = x
  BY InOrderIs, InOrderCovers
<1>2. InOrder(S) \in Seq(Nat)
  BY <1>1, SeqMonotonic
<1>3. ToSet(InOrder(S)) = S
  BY <1>1 DEF ToSet
<1> QED
  BY <1>1, <1>2, <1>3 DEF IsEachOnce
-----------------------------------------------------------------------------
(***************************************************************************)
(* What a fan-out charges: every entry of the directory once, to its owner.  *)
(***************************************************************************)
\* What was charged, one after the other.
ChargedInodes == [k \in DOMAIN charged |-> charged[k][2]]

\* Another MDS than r, who has an entry of the directory.
HasEntry(r, m, s) ==
  s \notin {r, NoRank} /\ \E i \in heap[m.ino].entries : EntryOwner(m.fullpath, i) = s

\* The entries an MDS has.
EntriesOf(m, s) == {i \in heap[m.ino].entries : EntryOwner(m.fullpath, i) = s}

\* The entries that are charged when all but the awaited MDSs have charged
\* theirs; the executing MDS of an rmdir does so at the end.
Taken(r, m, awaited) ==
  {i \in heap[m.ino].entries :
     EntryOwner(m.fullpath, i) \notin awaited /\ (m.op = "RMDIR" => i \notin OwnEntries(r, m))}

\* A scan: whom it will ask, and what it counts as its own.
ScanGood(f) ==
  LET m == RequestIn(f)
      others == f.local.others
  IN /\ m.op \in {"RMDIR", "LISTDIR"} /\ Mine(f.to, m.fullpath)
     /\ {"others", "list"} \subseteq DOMAIN f.local
     /\ m.op = "RMDIR" => f.local.list = InOrder(OwnEntries(f.to, m))
     /\ \A i, j \in DOMAIN others : others[i] = others[j] => i = j
     /\ \A i \in DOMAIN others : HasEntry(f.to, m, others[i])

\* g is the question to one of those with an entry, who is not asked again.
AskedOnce(f, g) ==
  /\ g.type = "SLAVEREQ" /\ g.arg.fullpath = RequestIn(f).fullpath /\ g.arg.ino = RequestIn(f).ino
  /\ HasEntry(f.to, RequestIn(f), g.to) /\ g.to \notin ToSet(f.local.others)

\* Who has yet to charge his entries: those not asked yet, and who was asked
\* and has not begun.
Awaited(s, k) ==
  ToSet(s[k].local.others) \cup (IF k < Len(s) /\ s[k + 1].pc = "call" THEN {s[k + 1].to} ELSE {})

\* The scan that frame k carries out.  One of which a slave has failed is not
\* carried on.
ScanAgrees(k) ==
  LET f == stack[k]
  IN /\ ScanGood(f)
     /\ k < Len(stack) => AskedOnce(f, stack[k + 1])
     /\ \/ k = Len(stack) /\ f.pc = "slave" /\ ~ret
        \/ IsEachOnce(ChargedInodes, Taken(f.to, RequestIn(f), Awaited(stack, k)))

Scans(k) == stack[k].pc \in {"scan", "slave"}

ScansAgree == \A k \in DOMAIN stack : Scans(k) => ScanAgrees(k)

\* The inductive invariant, with NamesPlain.
ChargedIInv ==
  /\ client.pc # "asked" => charged = <<>>
  /\ stack # <<>> /\ IsRequest(Top) /\ Top.pc = "call" => charged = <<>>
  /\ stack # <<>> /\ applied = 0 => charged \in Seq(Ranks \X Nat) /\ ScansAgree

\* A step that leaves the file system alone leaves all that alone.
LEMMA ScansStay ==
  ASSUME UNCHANGED fsVars
  PROVE  /\ \A p, i : EntryOwner(p, i)' = EntryOwner(p, i)
         /\ \A r, m : OwnEntries(r, m)' = OwnEntries(r, m)
         /\ \A r, m, A : Taken(r, m, A)' = Taken(r, m, A)
         /\ \A f : ScanGood(f)' = ScanGood(f)
         /\ \A f, g : AskedOnce(f, g)' = AskedOnce(f, g)
<1>1. \A p, i : EntryOwner(p, i)' = EntryOwner(p, i)
  BY DEF fsVars, EntryOwner, OwnerOf, RankOf, SubtreeDispatch, HashingDispatch, HybridDispatch,
         DispatchLevel1, HostOfChild
<1>2. \A r, m : OwnEntries(r, m)' = OwnEntries(r, m)
  BY <1>1 DEF fsVars, OwnEntries
<1>3. \A r, m, A : Taken(r, m, A)' = Taken(r, m, A)
  BY <1>1, <1>2 DEF fsVars, Taken
<1>4. \A r, m, s : HasEntry(r, m, s)' = HasEntry(r, m, s)
  BY <1>1 DEF fsVars, HasEntry
<1>5. \A r, p : Mine(r, p)' = Mine(r, p)
  BY OwnersStay DEF Mine
<1>6. \A f : ScanGood(f)' = ScanGood(f)
  BY <1>2, <1>4, <1>5 DEF ScanGood
<1>7. \A f, g : AskedOnce(f, g)' = AskedOnce(f, g)
  BY <1>4 DEF AskedOnce
<1> QED
  BY <1>1, <1>2, <1>3, <1>6, <1>7

\* The places of a sequence with another behind it.
LEMMA JoinedPlaces ==
  ASSUME NEW S, NEW s \in Seq(S), NEW t \in Seq(S), NEW u, u = s \o t
  PROVE  /\ u \in Seq(S) /\ Len(u) = Len(s) + Len(t) /\ DOMAIN u = 1 .. Len(s) + Len(t)
         /\ \A i \in 1 .. Len(s) : u[i] = s[i]
         /\ \A i \in 1 .. Len(s) + Len(t) : ~(i <= Len(s)) => u[i] = t[i - Len(s)]
<1>1. Len(s) \in Nat /\ Len(t) \in Nat
  BY LenProperties
<1>2. /\ u \in Seq(S) /\ Len(u) = Len(s) + Len(t)
      /\ \A i \in 1 .. Len(s) + Len(t) : u[i] = IF i <= Len(s) THEN s[i] ELSE t[i - Len(s)]
  BY ConcatProperties
<1>3. DOMAIN u = 1 .. Len(s) + Len(t)
  BY <1>2, LenProperties
<1> QED
  BY <1>1, <1>2, <1>3

\* What is charged comes after what was charged before.
LEMMA ChargeAppends ==
  ASSUME charged \in Seq(Ranks \X Nat), NEW r \in Ranks, NEW inodes \in Seq(Nat), Charge(r, inodes)
  PROVE  /\ charged' \in Seq(Ranks \X Nat) /\ ChargedInodes \in Seq(Nat)
         /\ ChargedInodes' = ChargedInodes \o inodes
         /\ \A k \in DOMAIN charged' :
              \/ k \in DOMAIN charged /\ charged'[k] = charged[k]
              \/ \E i \in DOMAIN inodes : charged'[k] = <<r, inodes[i]>>
<1> DEFINE new == [n \in DOMAIN inodes |-> <<r, inodes[n]>>]
<1>0. /\ Len(inodes) \in Nat /\ DOMAIN inodes = 1 .. Len(inodes) /\ \A i \in 1 .. Len(inodes) : inodes[i] \in Nat
      /\ Len(charged) \in Nat /\ DOMAIN charged = 1 .. Len(charged)
      /\ \A i \in 1 .. Len(charged) : charged[i] \in Ranks \X Nat
  BY LenProperties, ElementOfSeq
<1>1. new \in [1 .. Len(inodes) -> Ranks \X Nat]
  BY <1>0
<1>2. new \in Seq(Ranks \X Nat) /\ Len(new) = Len(inodes)
  BY <1>0, <1>1, HasLength
<1>3. \A i \in 1 .. Len(inodes) : new[i] = <<r, inodes[i]>>
  BY <1>0
<1>4. charged' = charged \o new
  BY DEF Charge
<1> HIDE DEF new
<1>5. /\ charged' \in Seq(Ranks \X Nat) /\ DOMAIN charged' = 1 .. Len(charged) + Len(inodes)
      /\ \A i \in 1 .. Len(charged) : charged'[i] = charged[i]
      /\ \A i \in 1 .. Len(charged) + Len(inodes) : ~(i <= Len(charged)) => charged'[i] = new[i - Len(charged)]
  <2>1. PICK P : P = Ranks \X Nat
    OBVIOUS
  <2>2. charged \in Seq(P) /\ new \in Seq(P)
    BY <1>2, <2>1
  <2>3. /\ charged' \in Seq(P) /\ DOMAIN charged' = 1 .. Len(charged) + Len(new)
        /\ \A i \in 1 .. Len(charged) : charged'[i] = charged[i]
        /\ \A i \in 1 .. Len(charged) + Len(new) : ~(i <= Len(charged)) => charged'[i] = new[i - Len(charged)]
    BY <1>4, <2>2, JoinedPlaces
  <2> QED
    BY <1>2, <2>1, <2>3
<1>6. /\ ChargedInodes \in [1 .. Len(charged) -> Nat]
      /\ \A i \in 1 .. Len(charged) : ChargedInodes[i] = charged[i][2]
  BY <1>0 DEF ChargedInodes
<1>7. ChargedInodes \in Seq(Nat) /\ Len(ChargedInodes) = Len(charged)
  BY <1>0, <1>6, HasLength
<1>8. ASSUME NEW k \in DOMAIN charged'
      PROVE  \/ k \in DOMAIN charged /\ charged'[k] = charged[k]
             \/ \E i \in DOMAIN inodes : charged'[k] = <<r, inodes[i]>>
  <2>1. CASE k <= Len(charged)
    BY <1>0, <1>5, <2>1
  <2>2. CASE ~(k <= Len(charged))
    <3>1. k - Len(charged) \in 1 .. Len(inodes) /\ charged'[k] = new[k - Len(charged)]
      BY <1>0, <1>5, <2>2
    <3> QED
      BY <1>0, <1>3, <3>1
  <2> QED
    BY <2>1, <2>2
<1>9. ChargedInodes' = ChargedInodes \o inodes
  <2>0. PICK u : u = ChargedInodes \o inodes
    OBVIOUS
  <2>1. /\ u \in Seq(Nat) /\ Len(u) = Len(charged) + Len(inodes)
        /\ \A i \in 1 .. Len(charged) : u[i] = ChargedInodes[i]
        /\ \A i \in 1 .. Len(charged) + Len(inodes) : ~(i <= Len(charged)) => u[i] = inodes[i - Len(charged)]
    BY <1>7, <2>0, JoinedPlaces
  <2>2. ASSUME NEW i \in 1 .. Len(charged) + Len(inodes) PROVE charged'[i][2] = u[i]
    <3>1. CASE i <= Len(charged)
      <4>1. i \in 1 .. Len(charged)
        BY <1>0, <3>1
      <4> QED
        BY <1>5, <1>6, <2>1, <4>1
    <3>2. CASE ~(i <= Len(charged))
      <4>1. i - Len(charged) \in 1 .. Len(inodes)
        BY <1>0, <3>2
      <4>2. charged'[i] = new[i - Len(charged)] /\ u[i] = inodes[i - Len(charged)]
        BY <1>5, <2>1, <3>2
      <4>3. new[i - Len(charged)] = <<r, inodes[i - Len(charged)]>>
        BY <1>3, <4>1
      <4> QED
        BY <4>2, <4>3
    <3> QED
      BY <3>1, <3>2
  <2>3. u = [i \in 1 .. Len(charged) + Len(inodes) |-> u[i]]
    BY <2>1, LenProperties
  <2>4. ChargedInodes' = [i \in 1 .. Len(charged) + Len(inodes) |-> charged'[i][2]]
    BY <1>5 DEF ChargedInodes
  <2> QED
    BY <2>0, <2>2, <2>3, <2>4
<1> QED
  BY <1>5, <1>7, <1>8, <1>9

\* Who is no longer awaited has charged his entries, which nobody had.
LEMMA TakenGrows ==
  ASSUME TreeIInv, NEW r, NEW m, m.ino \in DOMAIN heap, NEW A, NEW s, s \notin A, s \notin {r, NoRank}
  PROVE  /\ Taken(r, m, A) = Taken(r, m, A \cup {s}) \cup EntriesOf(m, s)
         /\ Taken(r, m, A \cup {s}) \cap EntriesOf(m, s) = {}
         /\ Taken(r, m, A \cup {s}) \in SUBSET Nat /\ IsFiniteSet(Taken(r, m, A \cup {s}))
         /\ EntriesOf(m, s) \in SUBSET Nat /\ IsFiniteSet(EntriesOf(m, s))
<1>1. \A i \in EntriesOf(m, s) : i \notin OwnEntries(r, m)
  BY DEF OwnEntries, EntriesOf
<1>2. /\ Taken(r, m, A) = Taken(r, m, A \cup {s}) \cup EntriesOf(m, s)
      /\ Taken(r, m, A \cup {s}) \cap EntriesOf(m, s) = {}
  BY <1>1 DEF Taken, EntriesOf
<1>3. Taken(r, m, A \cup {s}) \subseteq heap[m.ino].entries /\ EntriesOf(m, s) \subseteq heap[m.ino].entries
  BY DEF Taken, EntriesOf
<1> QED
  BY <1>2, <1>3, EntriesAre, FS_Subset

\* At first everyone with an entry is awaited; listdir has charged its own.
LEMMA TakenAtFirst ==
  ASSUME TreeIInv, NEW r, NEW m, m.ino \in DOMAIN heap, m.op \in {"RMDIR", "LISTDIR"}
  PROVE  Taken(r, m, ToSet(Others(r, m))) = IF m.op = "LISTDIR" THEN OwnEntries(r, m) ELSE {}
<1>1. \A i \in heap[m.ino].entries :
        EntryOwner(m.fullpath, i) \notin {r, NoRank} <=> EntryOwner(m.fullpath, i) \in ToSet(Others(r, m))
  <2>1. \A i \in heap[m.ino].entries :
          EntryOwner(m.fullpath, i) \notin {r, NoRank} => EntryOwner(m.fullpath, i) \in ToSet(Others(r, m))
    BY OthersAreEach DEF ToSet
  <2>2. \A s \in ToSet(Others(r, m)) : s \notin {r, NoRank}
    BY OthersOwn DEF ToSet
  <2> QED
    BY <2>1, <2>2
<1>2. \A i \in heap[m.ino].entries : i \in OwnEntries(r, m) <=> EntryOwner(m.fullpath, i) \in {r, NoRank}
  BY DEF OwnEntries
<1>3. OwnEntries(r, m) \subseteq heap[m.ino].entries
  BY DEF OwnEntries
<1>4. CASE m.op = "LISTDIR"
  BY <1>1, <1>2, <1>3, <1>4 DEF Taken
<1>5. CASE m.op = "RMDIR"
  BY <1>1, <1>2, <1>5 DEF Taken
<1> QED
  BY <1>4, <1>5
\* There is one fan-out at a time, of what the client has asked for; whoever
\* has forwarded that waits for the end of it.
LEMMA ScanIsAt ==
  ASSUME DataIInv, ChainIInv, AppliedIInv, NEW k \in DOMAIN stack, Scans(k)
  PROVE  /\ IsRequest(stack[k]) /\ RequestIn(stack[k]) = stack[1].arg /\ client.pc = "asked"
         /\ \A j \in 1 .. k - 1 : ~Scans(j)
         /\ stack[k].to \in Ranks /\ RequestOK(DOMAIN heap, stack[1].arg) /\ Plain(stack[1].arg.fullpath)
<1>1. /\ FrameShape(stack, k) /\ FrameShape(stack, 1) /\ FrameType(stack[k]) /\ FrameChain(stack, k)
      /\ FrameOK(DOMAIN heap, Serving, stack[k]) /\ ServicesIInv /\ stack # <<>>
      /\ DOMAIN stack = 1 .. Len(stack) /\ Len(stack) \in Nat \ {0}
  <2>1. stack # <<>>
    BY EmptySeq
  <2>2. DOMAIN stack = 1 .. Len(stack) /\ Len(stack) \in Nat \ {0}
    BY <2>1, TopShape DEF DataIInv, AskerIInv, RequestsIInv
  <2> QED
    BY <2>1, <2>2 DEF DataIInv, AskerIInv, ShapeIInv, FramesOK, ChainIInv, FrameShape
<1>2. stack[k].type \in {"CLIENTREQ", "FORWARD"}
  BY <1>1 DEF FrameType, Scans
<1>3. RequestIn(stack[k]) = stack[1].arg /\ \A j \in 1 .. k - 1 : ~Scans(j)
  <2>1. CASE stack[k].type = "CLIENTREQ"
    <3>1. k = 1
      BY <1>1, <2>1 DEF FrameShape
    <3> QED
      BY <2>1, <3>1 DEF RequestIn
  <2>2. CASE stack[k].type = "FORWARD"
    BY <1>1, <2>2 DEF FrameChain, RequestIn, Scans
  <2> QED
    BY <1>2, <2>1, <2>2
<1>4. /\ RequestIn(stack[k]).op # "LOOKUP" /\ RequestOK(DOMAIN heap, RequestIn(stack[k]))
      /\ stack[k].to \in Serving /\ Plain(RequestIn(stack[k]).fullpath)
  BY <1>1, <1>2 DEF FrameOK, FrameChain, Scans
<1>5. stack[1].arg.op = WantedOp
  BY <1>1 DEF AppliedIInv
<1>6. client.pc = "asked"
  BY <1>3, <1>4, <1>5 DEF WantedOp
<1>7. stack[k].to \in Ranks
  BY <1>1, <1>4, ServingLeads
<1> QED
  BY <1>2, <1>3, <1>4, <1>6, <1>7 DEF IsRequest

\* Above a request at the top there is none.
LEMMA NoneIsBelow ==
  ASSUME DataIInv, ChainIInv, AppliedIInv, stack # <<>>, IsRequest(Top)
  PROVE  \A k \in 1 .. Len(stack) - 1 : ~Scans(k)
BY TopWants DEF Scans

\* A send of the handler at the top: its frame has moved on, and unless the
\* send has failed the new one is above it.
LEMMA SendLeaves ==
  ASSUME DataIInv, stack # <<>>, NEW pc, NEW local, NEW r \in Ranks, NEW e, NEW type, NEW arg,
         \/ Send(TopAt(pc), r, e, type, arg) /\ local = Top.local
         \/ Send(TopWith(pc, local), r, e, type, arg)
  PROVE  /\ Continues(stack', stack'[Len(stack)])
         /\ stack'[Len(stack)].pc = pc /\ stack'[Len(stack)].local = local
         /\ \/ Len(stack') = Len(stack) /\ DOMAIN stack' = 1 .. Len(stack) /\ ret' = FALSE
            \/ /\ Len(stack') = Len(stack) + 1 /\ DOMAIN stack' = 1 .. Len(stack) + 1
               /\ stack'[Len(stack) + 1].type = type /\ stack'[Len(stack) + 1].arg = arg
               /\ stack'[Len(stack) + 1].pc = "call"
               /\ stack'[Len(stack) + 1].to = Dispatch(service_map', proc_revmap', e)
<1>0. PICK n : n = Len(stack)
  OBVIOUS
<1>1. /\ RevIInv /\ ShapeIInv /\ r \in Procs /\ n \in Nat \ {0} /\ DOMAIN stack = 1 .. n
  BY <1>0, ProcsType, TopShape DEF DataIInv, AskerIInv, RequestsIInv
<1>2. \/ /\ ret' = FALSE
         /\ \E f : TopReplaced(stack', f) /\ Moved(f, pc) /\ f.local = local
      \/ Nested(r, e, type, arg, pc, local)
  BY <1>1, HandlerSends, Zenon
<1>3. ASSUME ret' = FALSE, NEW f, TopReplaced(stack', f), Moved(f, pc), f.local = local
      PROVE  /\ Continues(stack', stack'[n]) /\ stack'[n].pc = pc /\ stack'[n].local = local
             /\ Len(stack') = n /\ DOMAIN stack' = 1 .. n
  BY <1>0, <1>1, <1>3 DEF TopReplaced, Continues, Moved
<1>4. ASSUME Nested(r, e, type, arg, pc, local)
      PROVE  /\ Continues(stack', stack'[n]) /\ stack'[n].pc = pc /\ stack'[n].local = local
             /\ Len(stack') = n + 1 /\ DOMAIN stack' = 1 .. n + 1
             /\ stack'[n + 1].type = type /\ stack'[n + 1].arg = arg /\ stack'[n + 1].pc = "call"
             /\ stack'[n + 1].to = Dispatch(service_map', proc_revmap', e)
  BY <1>0, <1>1, <1>4 DEF Nested, Continues, Moved, Waits
<1>5. CASE ret' = FALSE /\ \E f : TopReplaced(stack', f) /\ Moved(f, pc) /\ f.local = local
  BY <1>0, <1>3, <1>5
<1>6. CASE Nested(r, e, type, arg, pc, local)
  BY <1>0, <1>4, <1>6
<1> QED
  BY <1>2, <1>5, <1>6

\* A handler of a request that waits only for the end of its send does not
\* scan any more.
LEMMA TailScansNot ==
  ASSUME DataIInv, ChainIInv, AppliedIInv, stack # <<>>, IsRequest(Top),
         NEW r \in Ranks, NEW e, NEW type, NEW arg, Send(TopAt("tail"), r, e, type, arg)
  PROVE  /\ ScansAgree' /\ stack'[1].arg = stack[1].arg
         /\ Top'.pc = "call" => Top'.type = type
<1>0. PICK n : n = Len(stack)
  OBVIOUS
<1>1. n \in Nat \ {0} /\ DOMAIN stack = 1 .. n /\ Top = stack[n] /\ \A k \in 1 .. n - 1 : ~Scans(k)
  BY <1>0, TopShape, NoneIsBelow DEF DataIInv, AskerIInv, RequestsIInv
<1>2. PICK local : local = Top.local
  OBVIOUS
<1>3. /\ Continues(stack', stack'[n]) /\ stack'[n].pc = "tail"
      /\ \/ Len(stack') = n /\ DOMAIN stack' = 1 .. n
         \/ /\ Len(stack') = n + 1 /\ DOMAIN stack' = 1 .. n + 1
            /\ stack'[n + 1].type = type /\ stack'[n + 1].pc = "call"
  <2>1. /\ Continues(stack', stack'[Len(stack)]) /\ stack'[Len(stack)].pc = "tail"
        /\ \/ Len(stack') = Len(stack) /\ DOMAIN stack' = 1 .. Len(stack)
           \/ /\ Len(stack') = Len(stack) + 1 /\ DOMAIN stack' = 1 .. Len(stack) + 1
              /\ stack'[Len(stack) + 1].type = type /\ stack'[Len(stack) + 1].pc = "call"
    BY <1>2, SendLeaves
  <2> QED
    BY <1>0, <2>1
<1>4. /\ \A k \in 1 .. n - 1 : stack'[k] = stack[k] /\ ~Scans(k)
      /\ stack'[n].type = Top.type /\ stack'[n].arg = Top.arg
  BY <1>0, <1>1, <1>3 DEF Continues, Moved
<1>5. \A k \in DOMAIN stack' : ~(stack'[k].pc \in {"scan", "slave"})
  <2> TAKE k \in DOMAIN stack'
  <2>1. k \in 1 .. n - 1 \/ k = n \/ (k = n + 1 /\ stack'[k].pc = "call")
    BY <1>1, <1>3
  <2> QED
    BY <1>3, <1>4, <2>1 DEF Scans
<1>6. stack'[1].arg = stack[1].arg
  BY <1>1, <1>4
<1>7. Top'.pc = "call" => Top'.type = type
  BY <1>3 DEF Top
<1> QED
  BY <1>5, <1>6, <1>7 DEF ScansAgree, Scans, IsRequest

\* What is asked for stays first.
LEMMA ReturnKeepsFirst ==
  ASSUME DataIInv, stack # <<>>, NEW b, Return(b)
  PROVE  stack' # <<>> => 1 \in DOMAIN stack' /\ stack'[1].arg = stack[1].arg
<1>1. RevIInv /\ ShapeIInv
  BY DEF DataIInv, AskerIInv, RequestsIInv
<1>2. \A k \in DOMAIN stack' : stack'[k] = stack[k]
  BY <1>1, ReturnLeaves
<1>3. DOMAIN stack' = 1 .. Len(stack) - 1 /\ Len(stack) \in Nat
  BY <1>1, ReturnLeaves, TopShape
<1>4. stack' # <<>> => 1 \in DOMAIN stack'
  <2>1. IsStack(Below) /\ stack' = Below
    BY <1>1, BelowFrames DEF RevIInv, Return
  <2>2. stack' \in Seq({stack'[k] : k \in DOMAIN stack'})
    BY <2>1 DEF IsStack
  <2> QED
    BY <1>3, <2>2, EmptySeq
<1> QED
  BY <1>2, <1>4

\* A handler that returns leaves the fan-out it was asked for as it was; the
\* one of a slave has charged its entries by then, or has failed.
LEMMA ReturnKeepsScans ==
  ASSUME DataIInv, stack # <<>>, ScansAgree, NEW b \in BOOLEAN, Return(b), UNCHANGED <<fsVars, charged>>,
         b => Top.pc = "tail" \/ Top.type # "SLAVEREQ"
  PROVE  /\ ScansAgree'
         /\ stack' # <<>> => stack'[1].arg = stack[1].arg /\ ~(Top.pc = "call")'
<1> DEFINE n == Len(stack)
<1>1. /\ n \in Nat \ {0} /\ DOMAIN stack = 1 .. n /\ Top = stack[n] /\ RevIInv /\ ShapeIInv
  BY TopShape DEF DataIInv, AskerIInv, RequestsIInv
<1>2. /\ DOMAIN stack' = 1 .. n - 1 /\ Len(stack') = n - 1 /\ ret' = b
      /\ \A k \in 1 .. n - 1 : stack'[k] = stack[k]
      /\ stack' # <<>> => ~(Top.pc = "call")'
  BY <1>1, ReturnLeaves DEF Return
<1>3. stack' # <<>> => 1 \in DOMAIN stack' /\ stack'[1].arg = stack[1].arg
  BY ReturnKeepsFirst
<1> HIDE DEF n
<1>4. ASSUME NEW k \in 1 .. n - 1, Scans(k)
      PROVE  ScanAgrees(k)'
  <2>0. PICK f, g : f = stack[k] /\ g = stack[k + 1]
    OBVIOUS
  <2>1. k \in DOMAIN stack /\ k < n /\ k + 1 \in 1 .. n /\ stack'[k] = f /\ f.pc = "slave"
    <3>1. k \in DOMAIN stack /\ k < n /\ k + 1 \in 1 .. n /\ stack'[k] = f
      BY <1>1, <1>2, <2>0
    <3>2. FrameShape(stack, k)
      BY <1>1, <3>1 DEF ShapeIInv
    <3> QED
      BY <1>4, <2>0, <3>1, <3>2 DEF FrameShape, Scans, n
  <2>2. /\ ScanGood(f) /\ AskedOnce(f, g)
        /\ IsEachOnce(ChargedInodes, Taken(f.to, RequestIn(f), Awaited(stack, k)))
    BY <1>4, <2>0, <2>1 DEF ScansAgree, ScanAgrees, n
  <2>3. ScanGood(f)' /\ AskedOnce(f, g)'
    BY <2>2, ScansStay
  <2>4. k < n - 1 => stack'[k + 1] = g
    BY <1>1, <1>2, <2>0, <2>1
  <2>5. CASE k = n - 1 /\ ~b
    BY <1>2, <2>1, <2>3, <2>5 DEF ScanAgrees
  <2>6. CASE k < n - 1 \/ b
    <3>1. Awaited(stack', k) = Awaited(stack, k)
      <4>1. CASE k < n - 1
        BY <1>2, <2>0, <2>1, <2>4, <4>1 DEF Awaited, n
      <4>2. CASE ~(k < n - 1)
        <5>1. k = n - 1 /\ Top = g /\ b
          BY <1>1, <2>0, <2>1, <2>6, <4>2
        <5>2. g.pc # "call"
          BY <2>2, <5>1 DEF AskedOnce
        <5> QED
          BY <1>2, <2>0, <2>1, <4>2, <5>2 DEF Awaited, n
      <4> QED
        BY <4>1, <4>2
    <3>2. PICK A : A = Awaited(stack, k)
      OBVIOUS
    <3>3. Taken(f.to, RequestIn(f), A)' = Taken(f.to, RequestIn(f), A) /\ ChargedInodes' = ChargedInodes
      BY ScansStay DEF ChargedInodes
    <3>4. IsEachOnce(ChargedInodes', Taken(f.to, RequestIn(f), A)')
      BY <2>2, <3>2, <3>3
    <3> QED
      BY <1>2, <2>1, <2>3, <2>4, <3>1, <3>2, <3>4 DEF ScanAgrees
  <2> QED
    BY <1>1, <2>1, <2>5, <2>6
<1> QED
  BY <1>1, <1>2, <1>3, <1>4 DEF ScansAgree, Scans
\* A step that charges nothing and leaves the file system alone.
LEMMA QuietKeepsCharged ==
  ASSUME ChargedIInv, stack # <<>>, UNCHANGED <<client, charged, applied, fsVars>>,
         ScansAgree => ScansAgree',
         stack' # <<>> => stack'[1].arg = stack[1].arg,
         stack' # <<>> /\ IsRequest(Top') /\ Top'.pc = "call" => charged = <<>>
  PROVE  ChargedIInv'
<1>1. client'.pc # "asked" => charged' = <<>>
  BY DEF ChargedIInv
<1>2. stack' # <<>> /\ IsRequest(Top') /\ Top'.pc = "call" => charged' = <<>>
  OBVIOUS
<1>3. stack' # <<>> /\ applied' = 0 => charged' \in Seq(Ranks \X Nat) /\ ScansAgree'
  BY DEF ChargedIInv
<1> QED
  BY <1>1, <1>2, <1>3 DEF ChargedIInv, IsRequest

\* What is left of a list without repetitions when its first is taken.
LEMMA TailParts ==
  ASSUME NEW S, NEW s \in Seq(S), s # <<>>, \A i, j \in DOMAIN s : s[i] = s[j] => i = j
  PROVE  /\ \A i, j \in DOMAIN Tail(s) : Tail(s)[i] = Tail(s)[j] => i = j
         /\ ToSet(Tail(s)) \cup {Head(s)} = ToSet(s) /\ Head(s) \notin ToSet(Tail(s))
         /\ Head(s) \in S
<1> DEFINE t == Tail(s)
<1>1. /\ Len(s) \in Nat \ {0} /\ DOMAIN s = 1 .. Len(s) /\ Head(s) = s[1] /\ Head(s) \in S
      /\ t \in Seq(S) /\ Len(t) = Len(s) - 1 /\ \A i \in 1 .. Len(s) - 1 : t[i] = s[i + 1]
  BY LenProperties, EmptySeq, HeadTailProperties
<1>2. DOMAIN t = 1 .. Len(s) - 1
  BY <1>1, LenProperties
<1> HIDE DEF t
<1>3. ASSUME NEW i \in DOMAIN t, NEW j \in DOMAIN t, t[i] = t[j] PROVE i = j
  <2>1. i + 1 \in DOMAIN s /\ j + 1 \in DOMAIN s /\ s[i + 1] = s[j + 1] /\ i \in Nat /\ j \in Nat
    BY <1>1, <1>2, <1>3
  <2>2. i + 1 = j + 1
    BY <2>1
  <2> QED
    BY <2>1, <2>2
<1>4. Head(s) \notin ToSet(t)
  <2> SUFFICES ASSUME NEW i \in DOMAIN t, t[i] = s[1] PROVE FALSE
    BY <1>1 DEF ToSet
  <2>1. i + 1 \in DOMAIN s /\ s[i + 1] = s[1] /\ 1 \in DOMAIN s /\ i \in Nat \ {0}
    BY <1>1, <1>2
  <2>2. i + 1 = 1
    BY <2>1
  <2> QED
    BY <2>1, <2>2
<1>5. ASSUME NEW x \in ToSet(s) PROVE x = Head(s) \/ x \in ToSet(t)
  <2>1. PICK i \in 1 .. Len(s) : s[i] = x
    BY <1>1 DEF ToSet
  <2>2. CASE i = 1
    BY <1>1, <2>1, <2>2
  <2>3. CASE i # 1
    <3>1. i - 1 \in 1 .. Len(s) - 1 /\ (i - 1) + 1 = i
      BY <1>1, <2>3
    <3>2. i - 1 \in DOMAIN t /\ t[i - 1] = x
      BY <1>1, <1>2, <2>1, <3>1
    <3> QED
      BY <3>2 DEF ToSet
  <2> QED
    BY <2>2, <2>3
<1>6. ASSUME NEW x \in ToSet(t) PROVE x \in ToSet(s)
  <2>1. PICK i \in 1 .. Len(s) - 1 : t[i] = x
    BY <1>2 DEF ToSet
  <2>2. i + 1 \in DOMAIN s /\ s[i + 1] = x
    BY <1>1, <2>1
  <2> QED
    BY <2>2 DEF ToSet
<1>7. Head(s) \in ToSet(s)
  BY <1>1 DEF ToSet
<1> QED
  BY <1>1, <1>3, <1>4, <1>5, <1>6, <1>7 DEF t

\* The next MDS is asked.
LEMMA AskKeepsScans ==
  ASSUME DataIInv, ChainIInv, AppliedIInv, ScansAgree, NEW r \in Ranks, AskSlave(r)
  PROVE  /\ ScansAgree' /\ stack'[1].arg = stack[1].arg /\ stack' # <<>>
         /\ Top'.pc = "call" => Top'.type = "SLAVEREQ"
<1>0. PICK n : n = Len(stack)
  OBVIOUS
<1> DEFINE local == [Top.local EXCEPT !.others = Tail(@)]
           arg == MMDSSlaveRequest(Req.op, Req.fullpath, Req.ino)
           e == MdsEntity(Head(Top.local.others))
<1>1. stack # <<>> /\ Top.pc = "scan" /\ Top.to = r /\ Top.local.others # <<>>
  BY DEF AskSlave, Resumed
<1>2. /\ n \in Nat \ {0} /\ DOMAIN stack = 1 .. n /\ Top = stack[n] /\ n \in DOMAIN stack
      /\ ServicesIInv /\ FrameOK(DOMAIN heap, Serving, Top)
  BY <1>0, <1>1, TopShape, TopFrame DEF DataIInv, AskerIInv, RequestsIInv
<1>3. Scans(n) /\ IsRequest(Top)
  BY <1>1, <1>2, ScanIsAt DEF Scans
<1>4. Send(TopWith("slave", local), r, e, "SLAVEREQ", arg) /\ service_map' = service_map /\ UNCHANGED <<fsVars, charged>>
  BY DEF AskSlave, historyVars
<1>5. PICK f, m, others : f = Top /\ m = Req /\ others = Top.local.others
  OBVIOUS
<1>6. /\ ScanGood(f) /\ RequestIn(f) = m
      /\ IsEachOnce(ChargedInodes, Taken(f.to, m, ToSet(others)))
  <2>1. ScanAgrees(n)
    BY <1>2, <1>3 DEF ScansAgree
  <2>2. Awaited(stack, n) = ToSet(others)
    BY <1>0, <1>2, <1>5 DEF Awaited
  <2> QED
    BY <1>0, <1>1, <1>2, <1>5, <2>1, <2>2 DEF ScanAgrees, Req
<1>7. others \in Seq(Serving \ {r}) /\ others # <<>> /\ \A i, j \in DOMAIN others : others[i] = others[j] => i = j
  BY <1>1, <1>2, <1>5, <1>6 DEF FrameOK, LocalOK, ScanGood
<1>8. PICK h, tl : h = Head(others) /\ tl = Tail(others)
  OBVIOUS
<1>9. /\ \A i, j \in DOMAIN tl : tl[i] = tl[j] => i = j
      /\ ToSet(tl) \cup {h} = ToSet(others) /\ h \notin ToSet(tl) /\ h \in Serving
  BY <1>7, <1>8, TailParts
<1>10. {"others", "list"} \subseteq DOMAIN f.local
  BY <1>6 DEF ScanGood
<1>11. local.others = tl /\ local.list = f.local.list /\ {"others", "list"} \subseteq DOMAIN local
  BY <1>5, <1>8, <1>10
<1>12. arg.fullpath = m.fullpath /\ arg.ino = m.ino
  BY <1>5 DEF MMDSSlaveRequest
<1>13. Dispatch(service_map', proc_revmap', e) = h
  BY <1>2, <1>4, <1>5, <1>8, <1>9, ServingLeads
<1> HIDE DEF local, arg, e
<1>14. /\ Continues(stack', stack'[n]) /\ stack'[n].pc = "slave" /\ stack'[n].local = local
       /\ \/ Len(stack') = n /\ DOMAIN stack' = 1 .. n /\ ret' = FALSE
          \/ /\ Len(stack') = n + 1 /\ DOMAIN stack' = 1 .. n + 1
             /\ stack'[n + 1].type = "SLAVEREQ" /\ stack'[n + 1].arg = arg /\ stack'[n + 1].pc = "call"
             /\ stack'[n + 1].to = h
  <2>1. /\ Continues(stack', stack'[Len(stack)])
        /\ stack'[Len(stack)].pc = "slave" /\ stack'[Len(stack)].local = local
        /\ \/ Len(stack') = Len(stack) /\ DOMAIN stack' = 1 .. Len(stack) /\ ret' = FALSE
           \/ /\ Len(stack') = Len(stack) + 1 /\ DOMAIN stack' = 1 .. Len(stack) + 1
              /\ stack'[Len(stack) + 1].type = "SLAVEREQ" /\ stack'[Len(stack) + 1].arg = arg
              /\ stack'[Len(stack) + 1].pc = "call"
              /\ stack'[Len(stack) + 1].to = Dispatch(service_map', proc_revmap', e)
    BY <1>1, <1>4, SendLeaves
  <2> QED
    BY <1>0, <1>13, <2>1
<1>15. PICK f2, g : f2 = stack'[n] /\ g = stack'[n + 1]
  OBVIOUS
<1>16. /\ f2.type = f.type /\ f2.to = f.to /\ f2.arg = f.arg /\ f2.local = local /\ f2.pc = "slave"
       /\ \A k \in 1 .. n - 1 : stack'[k] = stack[k] /\ ~Scans(k)
  BY <1>0, <1>1, <1>3, <1>5, <1>14, <1>15, NoneIsBelow DEF Continues, Moved
<1>17. RequestIn(f2) = m
  BY <1>6, <1>16 DEF RequestIn
<1>18. ScanGood(f2)'
  <2>1. \A x \in ToSet(others) : HasEntry(f.to, m, x)
    BY <1>6, <1>5 DEF ScanGood, ToSet
  <2>2. \A i \in DOMAIN tl : HasEntry(f.to, m, tl[i])
    BY <1>9, <2>1 DEF ToSet
  <2>3. ScanGood(f2)
    BY <1>6, <1>9, <1>11, <1>16, <1>17, <2>2 DEF ScanGood
  <2> QED
    BY <1>4, <2>3, ScansStay
<1>19. Len(stack') = n + 1 => AskedOnce(f2, g)'
  <2>1. Len(stack') = n + 1 => g.type = "SLAVEREQ" /\ g.arg.fullpath = m.fullpath /\ g.arg.ino = m.ino /\ g.to = h
    BY <1>2, <1>12, <1>14, <1>15
  <2>2. h \in ToSet(others)
    BY <1>9
  <2>3. HasEntry(f.to, m, h)
    BY <1>5, <1>6, <2>2 DEF ScanGood, ToSet
  <2>4. Len(stack') = n + 1 => AskedOnce(f2, g)
    BY <1>9, <1>11, <1>16, <1>17, <2>1, <2>3 DEF AskedOnce
  <2> QED
    BY <1>4, <2>4, ScansStay
<1>20. Len(stack') = n + 1 => Awaited(stack', n) = ToSet(others)
  BY <1>2, <1>9, <1>11, <1>14, <1>15, <1>16 DEF Awaited
<1>21. IsEachOnce(ChargedInodes', Taken(f2.to, m, ToSet(others))')
  <2>1. Taken(f.to, m, ToSet(others))' = Taken(f.to, m, ToSet(others)) /\ ChargedInodes' = ChargedInodes
    BY <1>4, ScansStay DEF ChargedInodes
  <2> QED
    BY <1>6, <1>16, <2>1
<1>22. ScanAgrees(n)'
  <2>1. CASE Len(stack') = n
    BY <1>2, <1>14, <1>15, <1>16, <1>18, <2>1 DEF ScanAgrees
  <2>2. CASE Len(stack') = n + 1
    BY <1>2, <1>15, <1>17, <1>18, <1>19, <1>20, <1>21, <2>2 DEF ScanAgrees
  <2> QED
    BY <1>14, <2>1, <2>2
<1>23. ASSUME NEW k \in DOMAIN stack', Scans(k)' PROVE ScanAgrees(k)'
  <2>1. DOMAIN stack' = 1 .. n \/ (DOMAIN stack' = 1 .. n + 1 /\ stack'[n + 1].pc = "call")
    BY <1>14
  <2>2. k \in 1 .. n - 1 \/ k = n \/ (k = n + 1 /\ stack'[n + 1].pc = "call")
    BY <1>2, <2>1
  <2>3. k = n
    BY <1>16, <1>23, <2>2 DEF Scans
  <2> QED
    BY <1>22, <2>3
<1>24. stack'[1].arg = stack[1].arg /\ stack' # <<>>
  <2>1. stack' # <<>>
    BY <1>2, <1>14, EmptySeq
  <2> QED
    BY <1>2, <1>5, <1>15, <1>16, <2>1
<1>25. Top'.pc = "call" => Top'.type = "SLAVEREQ"
  BY <1>14 DEF Top
<1> QED
  BY <1>23, <1>24, <1>25 DEF ScansAgree

\* What is asked for at the top is what the client has asked for.
LEMMA RequestIsFirst ==
  ASSUME DataIInv, ChainIInv, stack # <<>>, IsRequest(Top)
  PROVE  Req = stack[1].arg /\ Plain(Req.fullpath)
<1>1. /\ Len(stack) \in DOMAIN stack /\ Top = stack[Len(stack)]
      /\ FrameShape(stack, Len(stack)) /\ FrameChain(stack, Len(stack))
  BY TopShape DEF DataIInv, AskerIInv, RequestsIInv, ChainIInv
<1>2. CASE Top.type = "CLIENTREQ"
  <2>1. Len(stack) = 1
    BY <1>1, <1>2 DEF FrameShape
  <2> QED
    BY <1>1, <1>2, <2>1 DEF FrameChain, Req, RequestIn
<1>3. CASE Top.type = "FORWARD"
  BY <1>1, <1>3 DEF FrameChain, Req, RequestIn
<1> QED
  BY <1>2, <1>3 DEF IsRequest

\* A request that changes the file system is answered: nothing is claimed of
\* what was charged from there on.
LEMMA LoudKeepsCharged ==
  ASSUME DataIInv, ChainIInv, AppliedIInv, stack # <<>>, IsRequest(Top), Changes(Req.op),
         NEW r \in Ranks, NEW ino, NEW list, NEW data, Reply(r, ino, list, data),
         applied' = applied + 1, UNCHANGED client
  PROVE  ChargedIInv'
<1>1. client.pc = "asked" /\ applied \in {0, 1}
  <2>1. Req.op = WantedOp
    BY TopWants
  <2> QED
    BY <2>1 DEF AppliedIInv, AppliedAgrees, ToApply, WasApplied, WantedOp, Changes
<1>2. Top'.type = "REPLY"
  <2>1. PICK f, g : Nests(f, g) /\ g.type = "REPLY"
    BY ReplyArrives
  <2> QED
    BY <2>1 DEF Nests, Top
<1>3. applied' # 0
  BY <1>1
<1> QED
  BY <1>1, <1>2, <1>3 DEF ChargedIInv, IsRequest

\* The one scan there is, at the top.
LEMMA TopScanAgrees ==
  ASSUME NEW f, Continues(stack', f), Len(stack') = Len(stack), DOMAIN stack' = 1 .. Len(stack),
         \A k \in 1 .. Len(stack) - 1 : ~Scans(k),
         ScanGood(f)', IsEachOnce(ChargedInodes', Taken(f.to, RequestIn(f), ToSet(f.local.others))')
  PROVE  ScansAgree'
<1>0. PICK n : n = Len(stack)
  OBVIOUS
<1>1. n \in Nat \ {0} /\ stack'[n] = f /\ \A k \in 1 .. n - 1 : stack'[k] = stack[k] /\ ~Scans(k)
  BY <1>0 DEF Continues
<1>2. Awaited(stack', n) = ToSet(f.local.others)
  BY <1>0, <1>1 DEF Awaited
<1>3. ScanAgrees(n)'
  BY <1>0, <1>1, <1>2 DEF ScanAgrees
<1>4. ASSUME NEW k \in DOMAIN stack', Scans(k)' PROVE k = n
  <2>1. k \in 1 .. n - 1 \/ k = n
    BY <1>0, <1>1
  <2> QED
    BY <1>1, <1>4, <2>1 DEF Scans
<1> QED
  BY <1>3, <1>4 DEF ScansAgree

\* Nothing charged is nothing taken.
LEMMA NothingCharged ==
  ASSUME charged = <<>>
  PROVE  charged \in Seq(Ranks \X Nat) /\ ChargedInodes \in Seq(Nat) /\ IsEachOnce(ChargedInodes, {})
<1>1. Len(charged) = 0 /\ DOMAIN charged = {} /\ charged \in Seq(Ranks \X Nat)
  BY EmptySeq, LenProperties
<1>2. ChargedInodes = <<>>
  BY <1>1 DEF ChargedInodes
<1>3. ChargedInodes \in Seq(Nat) /\ Len(ChargedInodes) = 0 /\ ToSet(ChargedInodes) = {}
  BY <1>1, <1>2, EmptySeq DEF ToSet
<1> QED
  BY <1>1, <1>3, FS_EmptySet DEF IsEachOnce

\* The handler at the top goes on with a scan.
LEMMA ScanMoves ==
  ASSUME RevIInv, ShapeIInv, stack # <<>>, NEW local, stack' = TopWith("scan", local)
  PROVE  \E f : TopReplaced(stack', f) /\ Moved(f, "scan") /\ f.local = local
<1> DEFINE f == [Top EXCEPT !.pc = "scan", !.local = local]
<1>1. TopReplaced(stack', f)
  BY TopMoves
<1>2. Moved(f, "scan") /\ f.local = local
  BY TopIsMoved
<1> HIDE DEF f
<1> QED
  BY <1>1, <1>2

\* The executing MDS goes through the entries.
LEMMA ScanKeepsCharged ==
  ASSUME HashIsNat, DataIInv, ChainIInv, AppliedIInv, ChargedIInv, NEW r \in Ranks, OpScan(r), heap[Req.ino].isDir
  PROVE  ChargedIInv'
<1>0. PICK n, m, others, own :
        /\ n = Len(stack) /\ m = Req /\ others = Others(r, Req) /\ own = InOrder(OwnEntries(r, Req))
  OBVIOUS
<1> DEFINE local == [others |-> others, list |-> own]
           inodes == IF m.op = "LISTDIR" THEN own ELSE <<>>
<1>1. /\ stack # <<>> /\ Top.pc = "call" /\ Top.to = r /\ IsRequest(Top) /\ m.op \in {"RMDIR", "LISTDIR"}
      /\ Mine(r, m.fullpath) /\ RequestOK(DOMAIN heap, m)
  BY <1>0, RequestAtTop DEF OpScan, ScansDirectory, Executes, IsRequest
<1>2. /\ stack' = TopWith("scan", local) /\ Charge(r, inodes)
      /\ UNCHANGED <<client, applied, fsVars>>
  BY <1>0 DEF OpScan, callVars
<1>3. /\ n \in Nat \ {0} /\ DOMAIN stack = 1 .. n /\ Top = stack[n] /\ RevIInv /\ ShapeIInv /\ ServicesIInv
      /\ \A k \in 1 .. n - 1 : ~Scans(k)
  BY <1>0, <1>1, TopShape, NoneIsBelow DEF DataIInv, AskerIInv, RequestsIInv
<1>4. m.ino \in DOMAIN heap /\ m.fullpath \in Path /\ TreeIInv /\ m = stack[1].arg /\ client.pc = "asked"
  <2>1. m.op = WantedOp
    BY <1>0, <1>1, TopWants
  <2> QED
    BY <1>0, <1>1, <2>1, RequestIsFirst DEF RequestOK, DataIInv, WantedOp
<1>6. PICK f : TopReplaced(stack', f) /\ Moved(f, "scan") /\ f.local = local
  BY <1>1, <1>2, <1>3, ScanMoves
<1>7. Continues(stack', f) /\ DOMAIN stack' = 1 .. n /\ Len(stack') = n
  BY <1>0, <1>3, <1>6 DEF Continues, TopReplaced, Moved
<1>8. local.others = others /\ local.list = own /\ {"others", "list"} \subseteq DOMAIN local
  OBVIOUS
<1> HIDE DEF local
<1>9. RequestIn(f) = m /\ f.to = r /\ f.pc = "scan" /\ IsRequest(f)
  BY <1>0, <1>1, <1>6 DEF Moved, RequestIn, Req, IsRequest
<1>10. ScanGood(f)
  <2>1. \A i, j \in DOMAIN others : others[i] = others[j] => i = j
    BY <1>0, <1>4, OthersAreEach
  <2>2. \A i \in DOMAIN others : HasEntry(r, m, others[i])
    <3>1. ASSUME NEW i \in DOMAIN others PROVE HasEntry(r, m, others[i])
      <4>1. \E j \in heap[m.ino].entries : others[i] = EntryOwner(m.fullpath, j) /\ EntryOwner(m.fullpath, j) \notin {r, NoRank}
        BY <1>0, <1>4, <3>1, OthersOwn
      <4> QED
        BY <4>1 DEF HasEntry
    <3> QED
      BY <3>1
  <2> QED
    BY <1>0, <1>1, <1>6, <1>8, <1>9, <2>1, <2>2 DEF ScanGood
<1>11. ScanGood(f)'
  BY <1>2, <1>10, ScansStay
<1>12. charged = <<>>
  BY <1>1 DEF ChargedIInv
<1>13. PICK S : S = OwnEntries(r, m)
  OBVIOUS
<1>14. S \subseteq heap[m.ino].entries /\ S \in SUBSET Nat /\ IsFiniteSet(S)
  <2>1. S \subseteq heap[m.ino].entries
    BY <1>13 DEF OwnEntries
  <2> QED
    BY <1>4, <2>1, EntriesAre, FS_Subset
<1>15. own \in Seq(Nat) /\ IsEachOnce(own, S)
  BY <1>0, <1>13, <1>14, InOrderIsOnce
<1>16. /\ inodes \in Seq(Nat) /\ IsEachOnce(inodes, Taken(r, m, ToSet(others)))
       /\ Taken(r, m, ToSet(others)) \in SUBSET Nat /\ IsFiniteSet(Taken(r, m, ToSet(others)))
       /\ Taken(r, m, ToSet(others)) \subseteq S
  <2>0. Taken(r, m, ToSet(others)) = IF m.op = "LISTDIR" THEN S ELSE {}
    BY <1>0, <1>1, <1>4, <1>13, TakenAtFirst
  <2>1. CASE m.op = "LISTDIR"
    BY <1>14, <1>15, <2>0, <2>1
  <2>2. CASE m.op # "LISTDIR"
    <3>1. <<>> \in Seq(Nat) /\ Len(<<>>) = 0 /\ ToSet(<<>>) = {}
      BY EmptySeq DEF ToSet
    <3>2. IsEachOnce(<<>>, {})
      BY <3>1, FS_EmptySet DEF IsEachOnce
    <3> QED
      BY <2>0, <2>2, <3>1, <3>2, FS_EmptySet
  <2> QED
    BY <2>1, <2>2
<1> HIDE DEF inodes
<1>17. /\ charged' \in Seq(Ranks \X Nat) /\ ChargedInodes' = ChargedInodes \o inodes
       /\ \A k \in DOMAIN charged' : \E i \in DOMAIN inodes : charged'[k] = <<r, inodes[i]>>
  <2>1. charged \in Seq(Ranks \X Nat) /\ DOMAIN charged = {}
    BY <1>12, NothingCharged
  <2> QED
    BY <1>2, <1>16, <2>1, ChargeAppends
<1>18. IsEachOnce(ChargedInodes', Taken(f.to, RequestIn(f), ToSet(f.local.others))')
  <2>1. IsEachOnce(ChargedInodes \o inodes, {} \cup Taken(r, m, ToSet(others)))
    BY <1>12, <1>16, NothingCharged, OnceJoined, FS_EmptySet
  <2>2. Taken(r, m, ToSet(others))' = Taken(r, m, ToSet(others))
    BY <1>2, ScansStay
  <2> QED
    BY <1>6, <1>8, <1>9, <1>17, <2>1, <2>2
<1>19. ScansAgree'
  BY <1>0, <1>3, <1>7, <1>11, <1>18, TopScanAgrees
<1>20. Top'.pc = "scan"
  BY <1>0, <1>6, <1>7 DEF Continues, Top, Moved
<1> QED
  BY <1>2, <1>4, <1>17, <1>19, <1>20 DEF ChargedIInv

\* A slave has returned, and the scan goes on or has failed.
LEMMA SlaveReturnsKeepsCharged ==
  ASSUME DataIInv, ChainIInv, AppliedIInv, ChargedIInv, NEW r \in Ranks, SlaveReturns(r)
  PROVE  ChargedIInv'
<1>0. PICK n : n = Len(stack)
  OBVIOUS
<1>1. stack # <<>> /\ Top.pc = "slave" /\ Top.to = r /\ UNCHANGED <<client, charged, applied, fsVars>>
  BY DEF SlaveReturns, Resumed, callVars, historyVars
<1>2. /\ n \in Nat \ {0} /\ DOMAIN stack = 1 .. n /\ Top = stack[n] /\ n \in DOMAIN stack /\ RevIInv /\ ShapeIInv
  BY <1>0, <1>1, TopShape DEF DataIInv, AskerIInv, RequestsIInv
<1>3. Scans(n) /\ IsRequest(Top)
  BY <1>1, <1>2, ScanIsAt DEF Scans
<1>4. CASE ~ret
  <2>1. Return(FALSE)
    BY <1>4 DEF SlaveReturns
  <2>2. ScansAgree => ScansAgree'
    BY <1>1, <2>1, ReturnKeepsScans
  <2>3. stack' # <<>> => stack'[1].arg = stack[1].arg /\ ~(Top.pc = "call")'
    <3>1. stack' # <<>> => ~(Top.pc = "call")'
      BY <1>1, <1>2, <2>1, ReturnLeaves
    <3>2. stack' # <<>> => stack'[1].arg = stack[1].arg
      BY <1>1, <2>1, ReturnKeepsFirst
    <3> QED
      BY <3>1, <3>2
  <2> QED
    BY <1>1, <2>2, <2>3, QuietKeepsCharged
<1>5. CASE ret
  <2>0. PICK local : local = [Top.local EXCEPT !.list =
                       IF Req.op = "LISTDIR" THEN @ \o callback_inolist[r] ELSE @]
    OBVIOUS
  <2>1. stack' = TopWith("scan", local)
    BY <1>5, <2>0 DEF SlaveReturns
  <2>2. PICK f : TopReplaced(stack', f) /\ Moved(f, "scan") /\ f.local = local
    BY <1>1, <1>2, <2>1, ScanMoves
  <2>3. /\ Continues(stack', f) /\ DOMAIN stack' = 1 .. n /\ Len(stack') = n
        /\ f.type = Top.type /\ f.to = r /\ f.arg = Top.arg /\ f.pc = "scan"
    BY <1>0, <1>1, <1>2, <2>2 DEF Continues, TopReplaced, Moved
  <2>4. PICK m : m = Req
    OBVIOUS
  <2>5. RequestIn(f) = m /\ RequestIn(Top) = m
    BY <2>3, <2>4 DEF RequestIn, Req
  <2>6. ASSUME ScansAgree PROVE ScansAgree'
    <3>1. ScanAgrees(n)
      BY <1>2, <1>3, <2>6 DEF ScansAgree
    <3>2. /\ ScanGood(Top)
          /\ IsEachOnce(ChargedInodes, Taken(r, m, Awaited(stack, n)))
      BY <1>1, <1>2, <1>5, <2>5, <3>1 DEF ScanAgrees
    <3>3. Awaited(stack, n) = ToSet(Top.local.others)
      BY <1>0, <1>2 DEF Awaited
    <3>4. {"others", "list"} \subseteq DOMAIN Top.local
      BY <3>2 DEF ScanGood
    <3>5. /\ local.others = Top.local.others /\ {"others", "list"} \subseteq DOMAIN local
          /\ m.op = "RMDIR" => local.list = Top.local.list
      BY <2>0, <2>4, <3>4
    <3>6. ScanGood(f)
      BY <1>1, <2>2, <2>3, <2>5, <3>2, <3>5 DEF ScanGood
    <3>7. PICK A : A = ToSet(f.local.others)
      OBVIOUS
    <3>8. IsEachOnce(ChargedInodes, Taken(r, m, A))
      BY <2>2, <3>2, <3>3, <3>5, <3>7
    <3>9. ScanGood(f)' /\ Taken(r, m, A)' = Taken(r, m, A) /\ ChargedInodes' = ChargedInodes
      BY <1>1, <3>6, ScansStay DEF ChargedInodes
    <3>10. IsEachOnce(ChargedInodes', Taken(f.to, RequestIn(f), ToSet(f.local.others))')
      BY <2>3, <2>5, <3>7, <3>8, <3>9
    <3>11. \A k \in 1 .. Len(stack) - 1 : ~Scans(k)
      BY <1>1, <1>3, NoneIsBelow
    <3> QED
      BY <1>0, <2>3, <3>9, <3>10, <3>11, TopScanAgrees
  <2>7. stack'[1].arg = stack[1].arg
    BY <1>0, <1>2, <2>3 DEF Continues
  <2>8. Top'.pc = "scan"
    BY <1>0, <2>3 DEF Continues, Top
  <2> QED
    BY <1>1, <2>6, <2>7, <2>8, QuietKeepsCharged
<1> QED
  BY <1>4, <1>5

\* A slave's answer is sent and its frame waits for the end of that.
LEMMA TailSends ==
  ASSUME DataIInv, stack # <<>>, NEW r \in Ranks, NEW e, NEW type, NEW arg, Send(TopAt("tail"), r, e, type, arg)
  PROVE  /\ \E t : /\ Continues(stack', t) /\ t.pc = "tail"
                   /\ t.type = Top.type /\ t.to = Top.to /\ t.arg = Top.arg
                   /\ \/ Len(stack') = Len(stack) /\ DOMAIN stack' = 1 .. Len(stack)
                      \/ /\ Len(stack') = Len(stack) + 1 /\ DOMAIN stack' = 1 .. Len(stack) + 1
                         /\ stack'[Len(stack) + 1].pc = "call" /\ stack'[Len(stack) + 1].type = type
         /\ Top'.pc # "call" \/ Top'.type = type
<1>0. PICK local : local = Top.local
  OBVIOUS
<1>1. /\ Continues(stack', stack'[Len(stack)]) /\ stack'[Len(stack)].pc = "tail"
      /\ \/ Len(stack') = Len(stack) /\ DOMAIN stack' = 1 .. Len(stack)
         \/ /\ Len(stack') = Len(stack) + 1 /\ DOMAIN stack' = 1 .. Len(stack) + 1
            /\ stack'[Len(stack) + 1].pc = "call" /\ stack'[Len(stack) + 1].type = type
  BY <1>0, SendLeaves
<1>2. PICK n : n = Len(stack)
  OBVIOUS
<1>3. PICK t : t = stack'[n]
  OBVIOUS
<1>4. t.type = Top.type /\ t.to = Top.to /\ t.arg = Top.arg
  BY <1>1, <1>2, <1>3 DEF Continues, Moved
<1>5. Top'.pc # "call" \/ Top'.type = type
  BY <1>1 DEF Top
<1> QED
  BY <1>1, <1>2, <1>3, <1>4, <1>5

\* Who is asked as a slave is asked by the scan below it.
LEMMA SlaveHasScan ==
  ASSUME DataIInv, ChainIInv, AppliedIInv, stack # <<>>, Top.type = "SLAVEREQ", NEW n, n = Len(stack)
  PROVE  /\ n \in Nat /\ n - 1 \in 1 .. n - 1 /\ DOMAIN stack = 1 .. n /\ Top = stack[n]
         /\ Scans(n - 1) /\ client.pc = "asked"
<1>1. n \in Nat \ {0} /\ DOMAIN stack = 1 .. n /\ Top = stack[n] /\ FrameShape(stack, n)
  BY TopShape DEF DataIInv, AskerIInv, RequestsIInv
<1>2. n # 1
  BY <1>1 DEF FrameShape
<1>3. n - 1 \in 1 .. n - 1 /\ n - 1 \in DOMAIN stack
  BY <1>1, <1>2
<1>4. Scans(n - 1)
  BY <1>1 DEF AppliedIInv, SlavesAwaited, Scans
<1>5. client.pc = "asked"
  BY <1>3, <1>4, ScanIsAt
<1> QED
  BY <1>1, <1>3, <1>4, <1>5

\* The MDS that is asked has an entry, so none belongs to nobody; nor does the
\* directory, which is the executing MDS's.
LEMMA SlaveHasItsOwn ==
  ASSUME HashIsNat, DataIInv, ChainIInv, PathIInv, NamesPlain,
         NEW k \in DOMAIN stack, IsRequest(stack[k]), NEW f, f = stack[k], ScanGood(f),
         NEW m, m = RequestIn(f), NEW r, HasEntry(f.to, m, r)
  PROVE  /\ ~Mine(r, m.fullpath) /\ m.ino \in DOMAIN heap
         /\ {i \in heap[m.ino].entries : EntryOwner(m.fullpath, i) \in {r, NoRank}} = EntriesOf(m, r)
<1>1. /\ FrameOK(DOMAIN heap, Serving, f) /\ FramePath(heap, Looking, f) /\ FrameChain(stack, k)
      /\ TreeIInv /\ ServicesIInv
  BY DEF DataIInv, FramesOK, PathIInv, FramePaths, AskerIInv, ChainIInv
<1>2. m.op \in {"RMDIR", "LISTDIR"} /\ OwnerOf(m.fullpath) \in {f.to, NoRank}
  BY DEF ScanGood, Mine
<1>3. m.fullpath \in Path /\ m.ino \in DOMAIN heap /\ Plain(m.fullpath) /\ PathOf(heap, m.ino) = m.fullpath
  <2>1. RequestOK(DOMAIN heap, m) /\ Plain(m.fullpath)
    BY <1>1 DEF FrameOK, FrameChain, IsRequest
  <2>2. PathOf(heap, m.ino) = LookedUp(m)
    BY <1>1, <1>2 DEF FramePath, IsRequest
  <2> QED
    BY <1>2, <2>1, <2>2 DEF RequestOK, LookedUp
<1>4. PICK p, ino : p = m.fullpath /\ ino = m.ino
  OBVIOUS
<1>5. r \notin {f.to, NoRank} /\ \E i \in heap[ino].entries : EntryOwner(p, i) = r
  BY <1>4 DEF HasEntry
<1>6. OwnerOf(p) # NoRank /\ \A j \in heap[ino].entries : EntryOwner(p, j) # NoRank
  <2>1. PICK i \in heap[ino].entries : EntryOwner(p, i) # NoRank
    BY <1>5
  <2>2. p \in Path /\ Plain(p) /\ ino \in DOMAIN heap /\ PathOf(heap, ino) = p
    BY <1>3, <1>4
  <2> QED
    BY <1>1, <2>1, <2>2, SomebodyOwns
<1>7. ~Mine(r, p)
  BY <1>2, <1>4, <1>5, <1>6 DEF Mine
<1> QED
  BY <1>3, <1>4, <1>6, <1>7 DEF EntriesOf

\* Above the scan there is now a slave that has charged its entries.
LEMMA ChargedScanAgrees ==
  ASSUME NEW n \in Nat, n = Len(stack), n - 1 \in 1 .. n - 1, \A k \in 1 .. n - 2 : ~Scans(k),
         NEW f, f = stack[n - 1], ScanGood(f)', NEW g, AskedOnce(f, g)',
         NEW t, Continues(stack', t), t.pc = "tail", t.type = g.type, t.to = g.to, t.arg = g.arg,
         \/ Len(stack') = n /\ DOMAIN stack' = 1 .. n
         \/ Len(stack') = n + 1 /\ DOMAIN stack' = 1 .. n + 1 /\ stack'[n + 1].pc = "call",
         IsEachOnce(ChargedInodes', Taken(f.to, RequestIn(f), ToSet(f.local.others))')
  PROVE  ScansAgree'
<1>1. AskedOnce(f, t)'
  BY DEF AskedOnce
<1>2. /\ \A k \in 1 .. n - 1 : stack'[k] = stack[k]
      /\ stack'[n] = t /\ stack'[n - 1] = f /\ n - 1 < Len(stack') /\ (n - 1) + 1 = n
  BY DEF Continues
<1>3. ~(t.pc = "call")
  OBVIOUS
<1>4. Awaited(stack', n - 1) = ToSet(f.local.others)
  BY <1>2, <1>3 DEF Awaited
<1>5. ScanAgrees(n - 1)'
  BY <1>1, <1>2, <1>4 DEF ScanAgrees
<1>6. ASSUME NEW k \in DOMAIN stack', Scans(k)' PROVE k = n - 1
  <2>1. k \in 1 .. n - 2 \/ k = n - 1 \/ k = n \/ (k = n + 1 /\ stack'[k].pc = "call")
    <3>1. k \in 1 .. n \/ (k = n + 1 /\ stack'[k].pc = "call")
      OBVIOUS
    <3> QED
      BY <3>1
  <2>2. k \in 1 .. n - 2 => stack'[k] = stack[k]
    BY <1>2
  <2> QED
    BY <1>2, <1>6, <2>1, <2>2 DEF Scans
<1> QED
  BY <1>5, <1>6 DEF ScansAgree

\* A slave charges the entries it counts as its own, which are those the scan
\* has asked it for.
LEMMA SlaveKeepsCharged ==
  ASSUME HashIsNat, DataIInv, ChainIInv, AppliedIInv, PathIInv, NamesPlain, ChargedIInv,
         NEW r \in Ranks, HandleSlaveRequest(r)
  PROVE  ChargedIInv'
<1>0. PICK n, g : n = Len(stack) /\ g = Top
  OBVIOUS
<1>1. /\ stack # <<>> /\ g.type = "SLAVEREQ" /\ g.pc = "call" /\ g.to = r
      /\ UNCHANGED <<client, applied, fsVars>>
  BY <1>0 DEF HandleSlaveRequest, Called, callVars
<1>2. /\ n \in Nat /\ n - 1 \in 1 .. n - 1 /\ DOMAIN stack = 1 .. n /\ g = stack[n]
      /\ Scans(n - 1) /\ client.pc = "asked" /\ n - 1 \in DOMAIN stack
  BY <1>0, <1>1, SlaveHasScan
<1>3. PICK f : f = stack[n - 1]
  OBVIOUS
<1>4. PICK m : m = RequestIn(f)
  OBVIOUS
<1>5. IsRequest(f) /\ m = stack[1].arg /\ \A k \in 1 .. n - 2 : ~Scans(k)
  <2>1. \A k \in 1 .. (n - 1) - 1 : ~Scans(k)
    BY <1>2, ScanIsAt
  <2>2. (n - 1) - 1 = n - 2
    BY <1>2
  <2> QED
    BY <1>2, <1>3, <1>4, <2>1, <2>2, ScanIsAt
<1>6. CASE applied # 0
  <2>1. ~(IsRequest(Top') /\ Top'.pc = "call") \/ stack' = <<>>
    <3>1. ASSUME NEW b, Return(b) PROVE ~(Top.pc = "call")' \/ stack' = <<>>
      BY <1>1, <3>1, ReturnLeaves DEF DataIInv, AskerIInv, RequestsIInv
    <3>2. ASSUME NEW arg, Send(TopAt("tail"), r, Top.src, "SLAVEREPLY", arg)
          PROVE  Top'.pc # "call" \/ Top'.type = "SLAVEREPLY"
      BY <1>1, <3>2, TailSends
    <3> QED
      BY <3>1, <3>2 DEF HandleSlaveRequest, SlaveOp, IsRequest
  <2> QED
    BY <1>1, <1>2, <1>6, <2>1 DEF ChargedIInv, IsRequest
<1>7. CASE applied = 0
  <2>1. charged \in Seq(Ranks \X Nat) /\ ScansAgree
    BY <1>1, <1>7 DEF ChargedIInv
  <2>2. /\ ScanGood(f) /\ AskedOnce(f, g)
        /\ IsEachOnce(ChargedInodes, Taken(f.to, m, Awaited(stack, n - 1)))
    <3>1. ScanAgrees(n - 1)
      BY <1>2, <2>1 DEF ScansAgree
    <3>2. n - 1 # Len(stack) /\ n - 1 < Len(stack) /\ (n - 1) + 1 = n
      BY <1>0, <1>2
    <3> QED
      BY <1>2, <1>3, <1>4, <3>1, <3>2 DEF ScanAgrees
  <2>3. HasEntry(f.to, m, r) /\ g.arg.fullpath = m.fullpath /\ g.arg.ino = m.ino /\ r \notin ToSet(f.local.others)
    BY <1>1, <1>4, <2>2 DEF AskedOnce
  <2>4. PICK S : S = EntriesOf(m, r)
    OBVIOUS
  <2>5. ~Mine(r, m.fullpath) /\ m.ino \in DOMAIN heap /\ OwnEntries(r, g.arg) = S
    <3>1. /\ ~Mine(r, m.fullpath) /\ m.ino \in DOMAIN heap
          /\ {i \in heap[m.ino].entries : EntryOwner(m.fullpath, i) \in {r, NoRank}} = EntriesOf(m, r)
      <4>1. PICK k : k = n - 1
        OBVIOUS
      <4>2. k \in DOMAIN stack /\ IsRequest(stack[k]) /\ f = stack[k]
        BY <1>2, <1>3, <1>5, <4>1
      <4> QED
        BY <1>4, <2>2, <2>3, <4>2, SlaveHasItsOwn
    <3>2. OwnEntries(r, g.arg) = {i \in heap[m.ino].entries : EntryOwner(m.fullpath, i) \in {r, NoRank}}
      BY <2>3 DEF OwnEntries
    <3> QED
      BY <2>4, <3>1, <3>2
  <2>6. CASE ~heap[g.arg.ino].isDir
    <3>1. Return(FALSE) /\ UNCHANGED charged
      BY <1>0, <2>3, <2>5, <2>6 DEF HandleSlaveRequest, SlaveOp
    <3>2. ScansAgree => ScansAgree'
      BY <1>1, <3>1, ReturnKeepsScans
    <3>3. stack' # <<>> => stack'[1].arg = stack[1].arg /\ ~(Top.pc = "call")'
      BY <1>1, <3>1, ReturnKeepsFirst, ReturnLeaves DEF DataIInv, AskerIInv, RequestsIInv
    <3> QED
      BY <1>1, <3>1, <3>2, <3>3, QuietKeepsCharged
  <2>7. CASE heap[g.arg.ino].isDir
    <3>0. PICK own, arg : /\ own = InOrder(S)
                          /\ arg = MMDSSlaveRequestReply(IF g.arg.op = "LISTDIR" THEN own ELSE <<>>)
      OBVIOUS
    <3>1. Charge(r, own) /\ Send(TopAt("tail"), r, g.src, "SLAVEREPLY", arg)
      BY <1>0, <2>3, <2>5, <2>7, <3>0 DEF HandleSlaveRequest, SlaveOp
    <3>2. PICK t : /\ Continues(stack', t) /\ t.pc = "tail" /\ t.type = g.type /\ t.to = g.to /\ t.arg = g.arg
                   /\ \/ Len(stack') = n /\ DOMAIN stack' = 1 .. n
                      \/ /\ Len(stack') = n + 1 /\ DOMAIN stack' = 1 .. n + 1
                         /\ stack'[n + 1].pc = "call" /\ stack'[n + 1].type = "SLAVEREPLY"
      BY <1>0, <1>1, <3>1, TailSends
    <3>3. PICK A, U : A = ToSet(f.local.others) /\ U = Taken(f.to, m, A \cup {r})
      OBVIOUS
    <3>4. Awaited(stack, n - 1) = A \cup {r}
      <4>1. n - 1 < Len(stack) /\ (n - 1) + 1 = n
        BY <1>0, <1>2
      <4> QED
        BY <1>1, <1>2, <1>3, <3>3, <4>1 DEF Awaited
    <3>5. /\ Taken(f.to, m, A) = U \cup S /\ U \cap S = {}
          /\ U \in SUBSET Nat /\ IsFiniteSet(U) /\ S \in SUBSET Nat /\ IsFiniteSet(S)
      <4>1. r \notin {f.to, NoRank} /\ r \notin A /\ TreeIInv
        BY <2>3, <3>3 DEF HasEntry, DataIInv
      <4>2. PICK q : q = f.to
        OBVIOUS
      <4>3. m.ino \in DOMAIN heap /\ r \notin A /\ r \notin {q, NoRank}
        BY <2>5, <4>1, <4>2
      <4>4. /\ Taken(q, m, A) = Taken(q, m, A \cup {r}) \cup EntriesOf(m, r)
            /\ Taken(q, m, A \cup {r}) \cap EntriesOf(m, r) = {}
            /\ Taken(q, m, A \cup {r}) \in SUBSET Nat /\ IsFiniteSet(Taken(q, m, A \cup {r}))
            /\ EntriesOf(m, r) \in SUBSET Nat /\ IsFiniteSet(EntriesOf(m, r))
        BY <4>1, <4>3, TakenGrows, Zenon
      <4> QED
        BY <2>4, <3>3, <4>2, <4>4
    <3>6. own \in Seq(Nat) /\ IsEachOnce(own, S)
      BY <3>0, <3>5, InOrderIsOnce
    <3>7. /\ charged' \in Seq(Ranks \X Nat) /\ ChargedInodes \in Seq(Nat)
          /\ ChargedInodes' = ChargedInodes \o own
          /\ \A k \in DOMAIN charged' :
               \/ k \in DOMAIN charged /\ charged'[k] = charged[k]
               \/ \E i \in DOMAIN own : charged'[k] = <<r, own[i]>>
      BY <2>1, <3>1, <3>6, ChargeAppends
    <3>8. IsEachOnce(ChargedInodes', Taken(f.to, m, A)')
      <4>1. IsEachOnce(ChargedInodes, U)
        BY <2>2, <3>3, <3>4
      <4>2. IsEachOnce(ChargedInodes \o own, U \cup S)
        BY <3>5, <3>6, <3>7, <4>1, OnceJoined
      <4>3. Taken(f.to, m, A)' = Taken(f.to, m, A)
        BY <1>1, ScansStay
      <4> QED
        BY <3>5, <3>7, <4>2, <4>3
    <3>9. ScansAgree'
      <4>1. ScanGood(f)' /\ AskedOnce(f, g)'
        BY <1>1, <2>2, ScansStay
      <4>2. IsEachOnce(ChargedInodes', Taken(f.to, RequestIn(f), ToSet(f.local.others))')
        BY <1>4, <3>3, <3>8
      <4> QED
        BY <1>0, <1>2, <1>3, <1>5, <3>2, <4>1, <4>2, ChargedScanAgrees
    <3>10. ~(IsRequest(Top') /\ Top'.pc = "call")
      BY <1>0, <3>2 DEF Continues, Top, IsRequest
    <3> QED
      BY <1>1, <1>2, <3>7, <3>9, <3>10 DEF ChargedIInv, IsRequest
  <2> QED
    BY <2>6, <2>7
<1> QED
  BY <1>6, <1>7

\* An answer is sent, and the file system is as it was.
LEMMA ReplyKeepsCharged ==
  ASSUME DataIInv, ChainIInv, AppliedIInv, ChargedIInv, stack # <<>>, IsRequest(Top),
         NEW r \in Ranks, NEW ino, NEW list, NEW data, Reply(r, ino, list, data),
         UNCHANGED <<fsVars, historyVars>>
  PROVE  ChargedIInv'
<1>1. PICK arg : Send(TopAt("tail"), r, ReplyTo(Top), "REPLY", arg)
  BY DEF Reply
<1>2. UNCHANGED <<client, charged, applied, fsVars>>
  BY DEF Reply, callVars, historyVars
<1>3. ScansAgree' /\ stack'[1].arg = stack[1].arg /\ (Top'.pc = "call" => Top'.type = "REPLY")
  BY <1>1, TailScansNot
<1> QED
  BY <1>2, <1>3, QuietKeepsCharged DEF IsRequest

\* A handler returns that has charged its entries, if it had any.
LEMMA ReturnKeepsCharged ==
  ASSUME DataIInv, ChargedIInv, stack # <<>>, NEW b \in BOOLEAN, Return(b),
         b => Top.pc = "tail" \/ Top.type # "SLAVEREQ",
         UNCHANGED <<client, fsVars, historyVars>>
  PROVE  ChargedIInv'
<1>1. UNCHANGED <<client, charged, applied, fsVars>>
  BY DEF historyVars
<1>2. ScansAgree => ScansAgree'
  BY <1>1, ReturnKeepsScans
<1>3. stack' # <<>> => stack'[1].arg = stack[1].arg /\ ~(Top.pc = "call")'
  BY ReturnKeepsFirst, ReturnLeaves DEF DataIInv, AskerIInv, RequestsIInv
<1> QED
  BY <1>1, <1>2, <1>3, QuietKeepsCharged

\* A step that leaves all of it alone.
LEMMA StillCharged ==
  ASSUME ChargedIInv, UNCHANGED <<client, charged, applied, fsVars, stack, ret>>
  PROVE  ChargedIInv'
<1>1. CASE stack = <<>>
  BY <1>1 DEF ChargedIInv
<1>2. CASE stack # <<>>
  <2>1. ASSUME ScansAgree PROVE ScansAgree'
    <3>1. ASSUME NEW k \in DOMAIN stack, Scans(k) PROVE ScanAgrees(k)'
      <4>1. PICK f, g, A : f = stack[k] /\ g = stack[k + 1] /\ A = Awaited(stack, k)
        OBVIOUS
      <4>2. /\ ScanGood(f) /\ (k < Len(stack) => AskedOnce(f, g))
            /\ (k = Len(stack) /\ f.pc = "slave" /\ ~ret) \/ IsEachOnce(ChargedInodes, Taken(f.to, RequestIn(f), A))
        BY <2>1, <3>1, <4>1 DEF ScansAgree, ScanAgrees
      <4>3. ScanGood(f)' /\ (k < Len(stack) => AskedOnce(f, g)')
        BY <4>2, ScansStay
      <4>4. /\ Taken(f.to, RequestIn(f), A)' = Taken(f.to, RequestIn(f), A)
            /\ ChargedInodes' = ChargedInodes
        BY ScansStay DEF ChargedInodes
      <4>5. stack'[k] = f /\ stack'[k + 1] = g /\ Len(stack') = Len(stack) /\ Awaited(stack', k) = A /\ ret' = ret
        BY <4>1
      <4>6. (k = Len(stack) /\ f.pc = "slave" /\ ~ret) \/ IsEachOnce(ChargedInodes', Taken(f.to, RequestIn(f), A)')
        BY <4>2, <4>4
      <4> QED
        BY <4>3, <4>5, <4>6 DEF ScanAgrees
    <3> QED
      BY <3>1 DEF ScansAgree, Scans
  <2>2. stack'[1].arg = stack[1].arg
    OBVIOUS
  <2>3. IsRequest(Top') /\ Top'.pc = "call" => charged = <<>>
    BY <1>2 DEF ChargedIInv, Top
  <2> QED
    BY <1>2, <2>1, <2>2, <2>3, QuietKeepsCharged
<1> QED
  BY <1>1, <1>2

\* A step of an MDS keeps it.
LEMMA MdsStepKeepsCharged ==
  ASSUME HashIsNat, DataIInv, ChainIInv, AppliedIInv, PathIInv, NamesPlain, ChargedIInv,
         NEW r \in Ranks, MdsStep(r)
  PROVE  ChargedIInv'
<1>0. stack # <<>> /\ Top.to = r
  BY MdsStepIsAtTop
<1>1. ASSUME NEW op, Executes(r, op) PROVE IsRequest(Top) /\ Top.pc = "call" /\ Req.op = op
  BY <1>1, RequestAtTop DEF IsRequest
<1>2. ASSUME NEW op, ScanDone(r, op) PROVE IsRequest(Top) /\ Req.op = op
  BY <1>2, RequestAtTop DEF IsRequest
<1>3. ASSUME Fail, UNCHANGED fsVars PROVE ChargedIInv'
  BY <1>0, <1>3, ReturnKeepsCharged DEF Fail, callVars
<1>4. CASE Forward(r)
  <2>1. IsRequest(Top) /\ Top.pc = "call"
    BY <1>4 DEF Forward, Asked, Called, IsRequest
  <2>2. PICK e, arg : Send(TopAt("tail"), r, e, "FORWARD", arg)
    BY <1>4 DEF Forward
  <2>3. UNCHANGED <<client, charged, applied, fsVars>> /\ charged = <<>>
    BY <1>0, <1>4, <2>1 DEF Forward, callVars, historyVars, ChargedIInv
  <2>4. ScansAgree' /\ stack'[1].arg = stack[1].arg
    BY <1>0, <2>1, <2>2, TailScansNot
  <2> QED
    BY <1>0, <2>3, <2>4, QuietKeepsCharged
<1>5. CASE OpLookup(r)
  <2>1. IsRequest(Top)
    BY <1>1, <1>5 DEF OpLookup
  <2>2. CASE Fail
    BY <1>3, <1>5, <2>2 DEF OpLookup
  <2>3. CASE ~Fail
    <3>1. Reply(r, Lookup(heap, Req.fullpath), <<>>, NoData) /\ UNCHANGED <<fsVars, historyVars>>
      BY <1>5, <2>3 DEF OpLookup
    <3> QED
      BY <1>0, <2>1, <3>1, ReplyKeepsCharged
  <2> QED
    BY <2>2, <2>3
<1>6. CASE OpRead(r)
  <2>1. IsRequest(Top)
    BY <1>1, <1>6 DEF OpRead
  <2> QED
    BY <1>0, <1>6, <2>1, ReplyKeepsCharged DEF OpRead
<1>7. CASE EndListdir(r)
  <2>1. IsRequest(Top)
    BY <1>2, <1>7 DEF EndListdir
  <2> QED
    BY <1>0, <1>7, <2>1, ReplyKeepsCharged DEF EndListdir
<1>8. CASE OpCreate(r) \/ OpWrite(r) \/ OpRm(r) \/ EndRmdir(r) \/ (OpMkdir(r) /\ ~Fail)
  <2>1. IsRequest(Top) /\ Changes(Req.op)
    BY <1>1, <1>2, <1>8 DEF OpCreate, OpWrite, OpRm, EndRmdir, OpMkdir, Changes
  <2>2. PICK ino, list, data : Reply(r, ino, list, data)
    BY <1>8 DEF OpCreate, OpWrite, OpRm, EndRmdir, OpMkdir
  <2>3. applied' = applied + 1
    BY <1>8 DEF OpCreate, OpWrite, OpRm, EndRmdir, OpMkdir, Mutate
  <2>4. UNCHANGED client
    BY <2>2 DEF Reply, callVars
  <2> QED
    BY <1>0, <2>1, <2>2, <2>3, <2>4, LoudKeepsCharged
<1>9. CASE OpMkdir(r) /\ Fail
  <2>1. UNCHANGED fsVars
    <3>1. applied' = applied /\ applied \in {0, 1}
      BY <1>9 DEF Fail, historyVars, AppliedIInv, AppliedAgrees, ToApply, WasApplied
    <3>2. applied' # applied + 1
      BY <3>1
    <3> QED
      BY <1>9, <3>2 DEF OpMkdir, Mutate
  <2> QED
    BY <1>3, <1>9, <2>1
<1>10. CASE OpScan(r)
  <2>1. CASE ~heap[Req.ino].isDir
    BY <1>3, <1>10, <2>1 DEF OpScan
  <2>2. CASE heap[Req.ino].isDir
    BY <1>10, <2>2, ScanKeepsCharged
  <2> QED
    BY <2>1, <2>2
<1>11. CASE AskSlave(r)
  <2>1. UNCHANGED <<client, charged, applied, fsVars>>
    BY <1>11 DEF AskSlave, callVars, historyVars
  <2>2. CASE applied = 0
    <3>1. ScansAgree
      BY <1>0, <2>2 DEF ChargedIInv
    <3>2. ScansAgree' /\ stack'[1].arg = stack[1].arg /\ (Top'.pc = "call" => Top'.type = "SLAVEREQ")
      BY <1>11, <3>1, AskKeepsScans
    <3> QED
      BY <1>0, <2>1, <3>2, QuietKeepsCharged DEF IsRequest
  <2>3. CASE applied # 0
    <3>1. Top.pc = "scan" /\ Top.type # "REPLY" /\ Len(stack) \in DOMAIN stack /\ Top = stack[Len(stack)]
      BY <1>0, <1>11, TopShape DEF AskSlave, Resumed, DataIInv, AskerIInv, RequestsIInv, FrameShape, FrameType
    <3>2. ~WasApplied
      BY <3>1 DEF WasApplied
    <3> QED
      BY <1>0, <2>3, <3>2 DEF AppliedIInv, AppliedAgrees, ToApply
  <2> QED
    BY <2>2, <2>3
<1>12. CASE HandleSlaveReply(r)
  <2>1. Return(TRUE) /\ Top.type = "SLAVEREPLY" /\ UNCHANGED <<client, fsVars, historyVars>>
    BY <1>12 DEF HandleSlaveReply, Called, callVars
  <2> QED
    BY <1>0, <2>1, ReturnKeepsCharged
<1>13. CASE FollowsDeleted(r)
  BY <1>13, StillCharged DEF FollowsDeleted, Undefined, msgVars, callVars, historyVars
<1> QED
  BY <1>4, <1>5, <1>6, <1>7, <1>8, <1>9, <1>10, <1>11, <1>12, <1>13, SlaveReturnsKeepsCharged,
     SlaveKeepsCharged DEF MdsStep

\* Nothing is charged, and nothing scanned.
LEMMA UnchargedKeeps ==
  ASSUME charged' = <<>>, \A k \in DOMAIN stack' : stack'[k].pc = "call"
  PROVE  ChargedIInv'
<1>1. DOMAIN charged' = {} /\ charged' \in Seq(Ranks \X Nat)
  BY EmptySeq
<1>2. ScansAgree'
  BY DEF ScansAgree, Scans
<1> QED
  BY <1>1, <1>2 DEF ChargedIInv

\* Every step keeps it.
LEMMA NextKeepsCharged ==
  ASSUME HashIsNat, DataIInv, ChainIInv, AppliedIInv, PathIInv, NamesPlain, ChargedIInv, [Next]_vars
  PROVE  ChargedIInv'
<1>0. /\ stack # <<>> => client.pc \in {"looking", "asked"}
      /\ {"pc", "at", "ino"} \subseteq DOMAIN client
      /\ client.pc # "idle" => call # Nil
      /\ ret \in BOOLEAN
  BY CallsAssumption DEF DataIInv, AskerIInv, RequestsIInv, ClientWaits, WalkIInv, Booleans
<1>01. DOMAIN <<>> = {} /\ (client.pc # "asked" => charged = <<>>)
  BY DEF ChargedIInv
<1>1. ASSUME NEW c \in Calls, Begin(c) PROVE ChargedIInv'
  <2>1. client.pc = "idle" /\ stack' = <<>> /\ charged' = charged
    BY <1>0, <1>1 DEF Begin, msgVars, historyVars
  <2> QED
    BY <1>0, <1>01, <2>1, UnchargedKeeps
<1>2. CASE Register
  <2>1. client.pc = "idle" /\ stack' = <<>> /\ charged' = charged
    BY <1>0, <1>2 DEF Register, callVars, historyVars
  <2> QED
    BY <1>0, <1>01, <2>1, UnchargedKeeps
<1>3. ASSUME NEW ino, Found(ino), client.pc # "asked", stack = <<>>, UNCHANGED stack PROVE ChargedIInv'
  <2>1. charged' = charged
    BY <1>3 DEF Found, historyVars
  <2> QED
    BY <1>01, <1>3, <2>1, UnchargedKeeps
<1>4. ASSUME NEW b, Finish(b), stack = <<>>, UNCHANGED stack PROVE ChargedIInv'
  BY <1>01, <1>4, UnchargedKeeps DEF Finish
<1>5. CASE LookupCached
  BY <1>0, <1>3, <1>5 DEF LookupCached, msgVars
<1>6. CASE LookupReturns
  BY <1>3, <1>4, <1>6 DEF LookupReturns, msgVars
<1>7. CASE Answered
  BY <1>0, <1>4, <1>7 DEF Answered, msgVars
<1>8. CASE RequestReturns
  BY <1>4, <1>8 DEF RequestReturns, msgVars
<1>9. CASE LooksAtDeleted \/ UNCHANGED vars
  BY <1>9, StillCharged DEF LooksAtDeleted, Undefined, vars, msgVars, callVars, historyVars
<1>10. CASE LookupRemote \/ Request
  <2>1. charged' = <<>>
    BY <1>01, <1>10 DEF LookupRemote, Request, historyVars
  <2>2. \A k \in DOMAIN stack' : stack'[k].pc = "call"
    <3>1. CASE stack' = <<>>
      BY <1>01, <3>1
    <3>2. CASE \E arg, to : Starts(arg, to)
      BY <3>2 DEF Starts
    <3> QED
      BY <1>10, <3>1, <3>2, ClientAsks
  <2> QED
    BY <2>1, <2>2, UnchargedKeeps
<1>11. CASE HandleReply
  <2>1. stack # <<>> /\ Top.type = "REPLY" /\ Return(TRUE) /\ UNCHANGED <<client, fsVars, historyVars>>
    BY <1>11 DEF HandleReply, Called, callVars
  <2> QED
    BY <2>1, ReturnKeepsCharged
<1>12. CASE HandleReturn
  <2>1. stack # <<>> /\ Top.pc = "tail" /\ Return(ret) /\ UNCHANGED <<client, fsVars, historyVars>>
    BY <1>12 DEF HandleReturn, ReturnTail, Resumed, callVars
  <2> QED
    BY <1>0, <2>1, ReturnKeepsCharged
<1> QED
  BY <1>1, <1>2, <1>5, <1>6, <1>7, <1>8, <1>9, <1>10, <1>11, <1>12, MdsStepKeepsCharged
     DEF Next, Step, ClientStep

\* At first nothing is charged.
LEMMA InitCharged == Init => ChargedIInv
BY EmptySeq DEF Init, MessagingInit, ChargedIInv, NotWalking

\* The root has a name.
LEMMA InitNames == Init => NamesPlain
<1>1. ASSUME Init, NEW i \in DOMAIN heap PROVE heap[i].name = "/"
  BY <1>1 DEF Init, NewHeap, Inode
<1> QED
  BY <1>1 DEF NamesPlain

\* Whoever creates an entry gives it a name.
LEMMA NewNameIsPlain ==
  ASSUME DataIInv, PathIInv, NEW r \in Ranks, NEW op \in {"CREATE", "MKDIR"}, Executes(r, op)
  PROVE  Req.name # ""
<1>1. /\ stack # <<>> /\ Req.op = op /\ Top.type \in {"CLIENTREQ", "FORWARD"} /\ RequestOK(DOMAIN heap, Req)
  BY RequestAtTop
<1>2. Len(stack) \in DOMAIN stack /\ Top = stack[Len(stack)]
  BY <1>1, TopShape DEF DataIInv, AskerIInv, RequestsIInv
<1>3. FramePath(heap, Looking, Top)
  BY <1>2 DEF PathIInv, FramePaths
<1>4. PICK p : p = Req.fullpath
  OBVIOUS
<1>5. p \in Path /\ Plain(p) /\ p # RootPath /\ Req.name = BaseName(p)
  BY <1>1, <1>3, <1>4 DEF FramePath, Req, RequestOK
<1>6. Len(p) \in DOMAIN p
  <2>1. p # <<>> /\ p \in Seq(Name)
    BY <1>5 DEF RootPath, Path
  <2>2. Len(p) \in Nat \ {0} /\ DOMAIN p = 1 .. Len(p)
    BY <2>1, EmptySeq, LenProperties
  <2> QED
    BY <2>2
<1>7. BaseName(p) = p[Len(p)]
  BY <1>5, Zenon DEF BaseName
<1> QED
  BY <1>5, <1>6, <1>7, Zenon DEF Plain

\* What a step does to the heap.
HeapChange ==
  \/ heap' = heap
  \/ \E i \in DOMAIN heap, n \in Name, dir \in BOOLEAN :
       n # "" /\ heap' = AddSub(heap, i, n, dir, NoData)
  \/ \E i \in DOMAIN heap : heap' = DeleteMyself(heap, i)
  \/ \E i \in DOMAIN heap : \E d : heap' = [heap EXCEPT ![i].content = d]

\* It adds an inode that has a name, deletes one or writes its content.
LEMMA NextChangesHeap ==
  ASSUME DataIInv, PathIInv, [Next]_vars
  PROVE  HeapChange
<1>1. ASSUME UNCHANGED fsVars PROVE HeapChange
  BY <1>1, Zenon DEF fsVars, HeapChange
<1>2. ASSUME NEW r \in Ranks, NEW op \in {"CREATE", "MKDIR"}, Executes(r, op), NEW dir \in BOOLEAN,
             heap' = AddSub(heap, Req.ino, Req.name, dir, NoData)
      PROVE  HeapChange
  <2>1. Req.name # ""
    BY <1>2, NewNameIsPlain, Zenon
  <2>2. Req.ino \in DOMAIN heap /\ Req.name \in Name
    BY <1>2, RequestAtTop DEF RequestOK
  <2> QED
    BY <1>2, <2>1, <2>2, Zenon DEF HeapChange
<1>3. ASSUME NEW r \in Ranks, MdsStep(r) PROVE HeapChange
  <2>1. CASE OpCreate(r)
    BY <1>2, <2>1 DEF OpCreate, Mutate
  <2>2. CASE OpMkdir(r)
    <3>1. CASE UNCHANGED fsVars
      BY <1>1, <3>1
    <3>2. CASE Executes(r, "MKDIR") /\ heap' = AddSub(heap, Req.ino, Req.name, TRUE, NoData)
      BY <1>2, <3>2
    <3> QED
      BY <2>2, <3>1, <3>2 DEF OpMkdir, Mutate
  <2>3. CASE OpWrite(r)
    <3>1. Req.ino \in DOMAIN heap
      BY <2>3, RequestAtTop DEF OpWrite, RequestOK
    <3>2. heap' = [heap EXCEPT ![Req.ino].content = Req.data]
      BY <2>3 DEF OpWrite, Mutate
    <3> QED
      BY <3>1, <3>2, Zenon DEF HeapChange
  <2>4. CASE OpRm(r) \/ EndRmdir(r)
    <3>1. Req.ino \in DOMAIN heap
      BY <2>4, RequestAtTop DEF OpRm, EndRmdir, RequestOK
    <3>2. heap' = DeleteMyself(heap, Req.ino)
      BY <2>4 DEF OpRm, EndRmdir, Mutate
    <3> QED
      BY <3>1, <3>2, Zenon DEF HeapChange
  <2>5. CASE \/ Forward(r) \/ OpLookup(r) \/ OpRead(r) \/ OpScan(r) \/ AskSlave(r) \/ SlaveReturns(r)
             \/ EndListdir(r) \/ HandleSlaveRequest(r) \/ HandleSlaveReply(r) \/ FollowsDeleted(r)
    <3>1. UNCHANGED fsVars
      BY <2>5 DEF Forward, OpLookup, OpRead, OpScan, AskSlave, SlaveReturns, EndListdir,
                  HandleSlaveRequest, HandleSlaveReply, FollowsDeleted, Undefined
    <3> QED
      BY <1>1, <3>1
  <2> QED
    BY <1>3, <2>1, <2>2, <2>3, <2>4, <2>5 DEF MdsStep
<1>4. CASE Register
  BY <1>4, Zenon DEF Register, HeapChange
<1>5. ASSUME NEW c \in Calls, Begin(c) PROVE HeapChange
  BY <1>1, <1>5 DEF Begin
<1>6. CASE ClientStep
  BY <1>1, <1>6 DEF ClientStep, LookupCached, LookupRemote, LookupReturns, LooksAtDeleted,
     Answered, Request, RequestReturns, HandleReply, Undefined
<1>7. CASE HandleReturn \/ UNCHANGED vars
  BY <1>1, <1>7 DEF HandleReturn, vars
<1> QED
  BY <1>3, <1>4, <1>5, <1>6, <1>7 DEF Next, Step

\* No inode has an empty name.
LEMMA NextKeepsNames ==
  ASSUME DataIInv, PathIInv, NamesPlain, [Next]_vars
  PROVE  NamesPlain'
<1>1. Kept(heap, heap') /\ HeapIInv(heap)
  BY NextGrows DEF Growing, TreeIInv, DataIInv
<1>2. PICK g : g = heap'
  OBVIOUS
<1>3. ASSUME NEW j \in DOMAIN g, j \in DOMAIN heap PROVE g[j].name # ""
  <2>1. g[j].name = heap[j].name
    BY <1>1, <1>2, <1>3 DEF Kept
  <2> QED
    BY <1>3, <2>1, Zenon DEF NamesPlain
<1>4. ASSUME DOMAIN g \subseteq DOMAIN heap PROVE NamesPlain'
  <2>1. \A j \in DOMAIN g : g[j].name # ""
    BY <1>3, <1>4, Zenon
  <2> QED
    BY <1>2, <2>1, Zenon DEF NamesPlain
<1>5. ASSUME NEW i \in DOMAIN heap, NEW n \in Name, n # "", NEW dir \in BOOLEAN,
             heap' = AddSub(heap, i, n, dir, NoData)
      PROVE  NamesPlain'
  <2>1. Grows(heap, g, i, n, dir)
    BY <1>1, <1>2, <1>5, AddSubGrows DEF HeapIInv
  <2>2. DOMAIN g = 1 .. Len(heap) + 1 /\ DOMAIN heap = 1 .. Len(heap) /\ Len(heap) \in Nat /\ g[Len(heap) + 1].name = n
    BY <1>1, <2>1 DEF Grows, IsNew, HeapIInv, IsHeap
  <2>3. ASSUME NEW j \in DOMAIN g PROVE j \in DOMAIN heap \/ g[j].name = n
    BY <2>2
  <2>4. \A j \in DOMAIN g : g[j].name # ""
    BY <1>3, <1>5, <2>3, Zenon
  <2> QED
    BY <1>2, <2>4, Zenon DEF NamesPlain
<1>6. ASSUME NEW i \in DOMAIN heap, heap' = DeleteMyself(heap, i) PROVE NamesPlain'
  BY <1>1, <1>2, <1>4, <1>6, DeleteIs
<1>7. ASSUME NEW i \in DOMAIN heap, NEW d, heap' = [heap EXCEPT ![i].content = d] PROVE NamesPlain'
  BY <1>1, <1>2, <1>4, <1>7, WriteIs
<1>8. CASE heap' = heap
  BY <1>2, <1>4, <1>8
<1> QED
  BY <1>5, <1>6, <1>7, <1>8, NextChangesHeap, Zenon DEF HeapChange

\* As long as none was deleted, every inode is listed by its parent.
LEMMA NextKeepsListed ==
  ASSUME DataIInv, PathIInv, AllListed(heap), [Next]_vars
  PROVE  \E g : g = heap' /\ AllListed(g)
<1>1. HeapIInv(heap)
  BY DEF TreeIInv, DataIInv
<1>2. PICK g : g = heap'
  OBVIOUS
<1>3. CASE heap' = heap
  BY <1>2, <1>3
<1>4. CASE \E i \in DOMAIN heap, n \in Name, dir \in BOOLEAN : heap' = AddSub(heap, i, n, dir, NoData)
  <2>1. PICK i \in DOMAIN heap, n \in Name, dir \in BOOLEAN : g = AddSub(heap, i, n, dir, NoData)
    BY <1>2, <1>4
  <2>2. Grows(heap, g, i, n, dir)
    BY <1>1, <2>1, AddSubGrows DEF HeapIInv
  <2> QED
    BY <1>1, <1>2, <2>2, GrowthKeepsListed
<1>5. CASE \E i \in DOMAIN heap : heap' = DeleteMyself(heap, i)
  BY <1>1, <1>5, DeleteKeepsListed
<1>6. CASE \E i \in DOMAIN heap : \E d : heap' = [heap EXCEPT ![i].content = d]
  <2>1. PICK i \in DOMAIN heap : \E d : g = [heap EXCEPT ![i].content = d]
    BY <1>2, <1>6
  <2>2. PICK d : g = [heap EXCEPT ![i].content = d]
    BY <2>1
  <2> QED
    BY <1>1, <1>2, <2>2, WriteKeepsListed
<1>7. HeapChange
  BY NextChangesHeap
<1> QED
  BY <1>3, <1>4, <1>5, <1>6, <1>7 DEF HeapChange

\* At the end of a scan every entry is charged once.
LEMMA ScanEndCharges ==
  ASSUME DataIInv, ChainIInv, AppliedIInv, ChargedIInv, NEW r \in Ranks, EndListdir(r) \/ EndRmdir(r)
  PROVE  IsEachOnce(ChargedInodes', heap[Req.ino].entries)
<1>0. PICK n, m, f : n = Len(stack) /\ m = Req /\ f = Top
  OBVIOUS
<1>1. /\ stack # <<>> /\ f.to = r /\ f.pc = "scan" /\ IsRequest(f) /\ RequestOK(DOMAIN heap, m)
      /\ f.local.others = <<>> /\ RequestIn(f) = m
  BY <1>0, RequestAtTop DEF EndListdir, EndRmdir, ScanDone, IsRequest, Req
<1>2. /\ n \in DOMAIN stack /\ f = stack[n] /\ FrameType(f) /\ Scans(n) /\ m = stack[1].arg /\ TreeIInv
  BY <1>0, <1>1, TopShape, TopFrame, RequestIsFirst DEF DataIInv, AskerIInv, RequestsIInv, Scans
<1>3. applied = 0
  <2>1. ~WasApplied
    BY <1>1, <1>2 DEF WasApplied, FrameType
  <2> QED
    BY <1>1, <2>1 DEF AppliedIInv, AppliedAgrees, ToApply
<1>4. charged \in Seq(Ranks \X Nat) /\ ScanAgrees(n)
  BY <1>1, <1>2, <1>3 DEF ChargedIInv, ScansAgree
<1>5. Awaited(stack, n) = {}
  BY <1>0, <1>1, <1>2 DEF Awaited, ToSet
<1>6. ScanGood(f) /\ IsEachOnce(ChargedInodes, Taken(r, m, {}))
  BY <1>1, <1>2, <1>4, <1>5 DEF ScanAgrees
<1>7. m.ino \in DOMAIN heap /\ m.op \in {"RMDIR", "LISTDIR"}
  BY <1>1, <1>6 DEF ScanGood, RequestOK
<1>8. PICK E, S : E = heap[m.ino].entries /\ S = OwnEntries(r, m)
  OBVIOUS
<1>9. /\ E \in SUBSET Nat /\ IsFiniteSet(E) /\ S \subseteq E /\ S \in SUBSET Nat /\ IsFiniteSet(S)
      /\ E \ S \in SUBSET Nat /\ IsFiniteSet(E \ S)
  <2>1. S \subseteq E
    BY <1>8 DEF OwnEntries
  <2> QED
    BY <1>2, <1>7, <1>8, <2>1, EntriesAre, FS_Subset
<1>10. Taken(r, m, {}) = IF m.op = "RMDIR" THEN E \ S ELSE E
  BY <1>8 DEF Taken
<1>12. CASE EndListdir(r)
  <2>1. m.op = "LISTDIR" /\ charged' = charged
    BY <1>0, <1>12 DEF EndListdir, ScanDone, historyVars
  <2>2. IsEachOnce(ChargedInodes', E)
    BY <1>6, <1>10, <2>1 DEF ChargedInodes
  <2> QED
    BY <1>0, <1>8, <2>2
<1>13. CASE EndRmdir(r)
  <2>0. PICK own : own = f.local.list
    OBVIOUS
  <2>1. m.op = "RMDIR" /\ Charge(r, own) /\ own = InOrder(S)
    BY <1>0, <1>1, <1>6, <1>8, <1>13, <2>0 DEF EndRmdir, ScanDone, ScanGood
  <2>2. own \in Seq(Nat) /\ IsEachOnce(own, S)
    BY <1>9, <2>1, InOrderIsOnce
  <2>3. ChargedInodes \in Seq(Nat) /\ ChargedInodes' = ChargedInodes \o own
    BY <1>4, <2>1, <2>2, ChargeAppends
  <2>4. IsEachOnce(ChargedInodes', E)
    <3>1. IsEachOnce(ChargedInodes, E \ S) /\ (E \ S) \cap S = {} /\ (E \ S) \cup S = E
      BY <1>6, <1>9, <1>10, <2>1
    <3>2. IsEachOnce(ChargedInodes \o own, (E \ S) \cup S)
      BY <1>9, <2>2, <2>3, <3>1, OnceJoined
    <3> QED
      BY <2>3, <3>1, <3>2
  <2> QED
    BY <1>0, <1>8, <2>4
<1> QED
  BY <1>12, <1>13

\* The invariant of what a fan-out charges.
ScanIInv == DataIInv /\ ChainIInv /\ PathIInv /\ AppliedIInv /\ NamesPlain /\ ChargedIInv

\* It holds always.
LEMMA ScanIInvHolds ==
  ASSUME HashIsNat
  PROVE  /\ Init => ScanIInv
         /\ ScanIInv /\ [Next]_vars => ScanIInv'
<1>1. Init => ScanIInv
  BY InitData, InitChain, InitPaths, InitApplied, InitNames, InitCharged DEF ScanIInv
<1>2. ASSUME ScanIInv, [Next]_vars PROVE ScanIInv'
  <2>1. PathIInv'
    <3>1. CachedUnderOwnPath' /\ ClientPath' /\ FramePaths(heap', Looking', stack')
      BY <1>2, NextKeepsCachePaths, NextKeepsClientPath, NextKeepsFramePaths DEF ScanIInv
    <3> QED
      BY <3>1 DEF PathIInv, FramePaths, FramePath
  <2>2. DataIInv' /\ ChainIInv' /\ AppliedIInv'
    BY <1>2, NextKeepsData, NextKeepsChain, NextKeepsApplied DEF ScanIInv
  <2>3. NamesPlain' /\ ChargedIInv'
    BY <1>2, NextKeepsNames, NextKeepsCharged DEF ScanIInv
  <2> QED
    BY <2>1, <2>2, <2>3 DEF ScanIInv
<1> QED
  BY <1>1, <1>2

\* When an rmdir or a listdir ends, the MDSs have charged every entry of the
\* directory, each of them once: none was left to nobody and none was taken
\* by two, although each MDS decides for itself which are its own.
THEOREM ScansChargeOnce ==
  ASSUME HashIsNat
  PROVE  Spec => EntriesChargedOnce
<1> DEFINE Once == ScanEnds => IsEachOnce([k \in DOMAIN charged' |-> charged'[k][2]], heap[Req.ino].entries)
<1>1. Init => ScanIInv
  BY ScanIInvHolds
<1>2. ScanIInv /\ [Next]_vars => ScanIInv'
  BY ScanIInvHolds
<1>3. ScanIInv /\ [Next]_vars => [Once]_vars
  <2> SUFFICES ASSUME ScanIInv, ScanEnds
               PROVE  IsEachOnce([k \in DOMAIN charged' |-> charged'[k][2]], heap[Req.ino].entries)
    OBVIOUS
  <2>1. IsEachOnce(ChargedInodes', heap[Req.ino].entries)
    BY ScanEndCharges DEF ScanEnds, ScanIInv
  <2> QED
    BY <2>1 DEF ChargedInodes
<1> QED
  BY <1>1, <1>2, <1>3, PTL DEF Spec, EntriesChargedOnce
-----------------------------------------------------------------------------
(***************************************************************************)
(* The cache and the file system.                                           *)
(***************************************************************************)
CacheIInv == DataIInv /\ PathIInv /\ NamesPlain /\ AllListed(heap)

\* Where nothing was deleted and no name is used twice, what is cached under a
\* path is what a look-up of the path finds.
LEMMA GrownIsCoherent == CacheIInv => CacheIsCoherent
<1> SUFFICES ASSUME CacheIInv, OnlyGrown, NEW l \in DOMAIN cache
             PROVE  cache[l].value = Lookup(heap, cache[l].key)
  BY DEF CacheIsCoherent
<1>1. HeapIInv(heap) /\ AllListed(heap) /\ cache[l].value \in DOMAIN heap
      /\ PathOf(heap, cache[l].value) = cache[l].key
  BY DEF CacheIInv, DataIInv, TreeIInv, CacheOK, PathIInv, CachedUnderOwnPath
<1>2. AllAlive(heap) /\ NamesDiffer(heap)
  BY DEF OnlyGrown, AllAlive, NamesDiffer
<1>3. AllNamed(heap)
  BY Zenon DEF CacheIInv, NamesPlain, AllNamed
<1>4. EachIsFound(heap)
  BY <1>1, <1>2, <1>3, ListedAreFound
<1> QED
  BY <1>1, <1>4 DEF EachIsFound

\* As long as the file system has only grown, the client's cache agrees with it
\* on every path it has, whatever was cached, used, pushed out and cached anew,
\* and whoever answered.
THEOREM CacheStaysCoherent ==
  ASSUME HashIsNat
  PROVE  Spec => []CacheIsCoherent
<1>1. Init => CacheIInv
  <2>1. Init => AllListed(heap)
    BY NewIsListed DEF Init
  <2> QED
    BY <2>1, InitData, InitPaths, InitNames DEF CacheIInv
<1>2. CacheIInv /\ [Next]_vars => CacheIInv'
  <2>1. ASSUME CacheIInv, [Next]_vars PROVE CacheIInv'
    <3>1. PathIInv'
      <4>1. CachedUnderOwnPath' /\ ClientPath' /\ FramePaths(heap', Looking', stack')
        BY <2>1, NextKeepsCachePaths, NextKeepsClientPath, NextKeepsFramePaths DEF CacheIInv
      <4> QED
        BY <4>1 DEF PathIInv, FramePaths, FramePath
    <3>2. DataIInv' /\ NamesPlain'
      BY <2>1, NextKeepsData, NextKeepsNames DEF CacheIInv
    <3>3. AllListed(heap)'
      BY <2>1, NextKeepsListed DEF CacheIInv, AllListed, Root
    <3> QED
      BY <3>1, <3>2, <3>3 DEF CacheIInv
  <2> QED
    BY <2>1
<1> QED
  BY <1>1, <1>2, GrownIsCoherent, PTL DEF Spec
=============================================================================
