-------------------------- MODULE Formation_proofs --------------------------
(***************************************************************************)
(* What holds while a cluster forms, for every set of hosts, services and   *)
(* clients and however often services are stopped and started: reverse      *)
(* ports are owned and given back, the ranks are dense, a rank that was     *)
(* given out stays with the entity it was given to, a map may be old and is *)
(* never wrong, a message is what its receiver expects, an answer reaches   *)
(* who asked, and the broadcast of a map goes up the ranks.                 *)
(***************************************************************************)
EXTENDS Formation, Messaging_proofs

\* The processes of the handlers are processes.
LEMMA ProcsType == Mon \in Procs /\ MDSs \subseteq Procs /\ Clients \subseteq Procs
BY ProcsAssumption DEF Services

\* The driver's sends resume in the empty stack.
LEMMA DriverSendKeepsOwners ==
  ASSUME RevIInv, stack = <<>>, NEW p \in Procs, NEW e, NEW type, NEW arg,
         Send(<<>>, p, e, type, arg)
  PROVE  RevIInv'
<1>1. IsStack(<<>>)
  BY DEF RevIInv
<1>2. KeepsFrames(stack, <<>>)
  BY DEF KeepsFrames
<1> QED
  BY <1>1, <1>2, SendKeepsOwners

\* A handler's sends resume in the handler.
LEMMA HandlerSendKeepsOwners ==
  ASSUME RevIInv, stack # <<>>, NEW pc, NEW p \in Procs, NEW e, NEW type, NEW arg,
         Send(TopAt(pc), p, e, type, arg)
  PROVE  RevIInv'
<1>1. IsStack(TopAt(pc)) /\ KeepsFrames(stack, TopAt(pc))
  BY TopKeepsFrames DEF RevIInv
<1> QED
  BY <1>1, SendKeepsOwners

\* Every call of the driver and every handler keeps the owners of the reverse
\* ports: all of them change the tables and the stack by sends and returns.
LEMMA NextKeepsOwners ==
  ASSUME RevIInv, [Next]_vars
  PROVE  RevIInv'
<1>1. CASE StartMon
  BY <1>1, UnchangedKeepsOwners DEF StartMon
<1>2. ASSUME NEW m \in MDSs, Start(m) PROVE RevIInv'
  BY <1>2, ProcsType, DriverSendKeepsOwners DEF Start, Idle
<1>3. ASSUME NEW s \in Services, Stop(s) PROVE RevIInv'
  BY <1>3, UnchangedKeepsOwners DEF Stop
<1>4. ASSUME NEW c \in Clients, Connect(c) PROVE RevIInv'
  BY <1>4, ProcsType, DriverSendKeepsOwners DEF Connect, Idle
<1>5. ASSUME NEW c \in Clients, ConnectAgain(c) PROVE RevIInv'
  BY <1>5, UnchangedKeepsOwners DEF ConnectAgain, vars, msgVars
<1>6. CASE HandleMDSRegister
  BY <1>6, ProcsType, HandlerSendKeepsOwners DEF HandleMDSRegister, Called
<1>7. CASE BroadcastMap
  BY <1>7, ProcsType, HandlerSendKeepsOwners DEF BroadcastMap, Resumed
<1>8. CASE EndMDSRegister
  BY <1>8, ReturnKeepsOwners DEF EndMDSRegister, Resumed
<1>9. CASE HandleMDSMapUpdateAck
  BY <1>9, ReturnKeepsOwners DEF HandleMDSMapUpdateAck, Called
<1>10. CASE HandleFindMDS
  BY <1>10, ProcsType, HandlerSendKeepsOwners DEF HandleFindMDS, Called
<1>11. ASSUME NEW m \in MDSs, HandleMDSRegAck(m) PROVE RevIInv'
  BY <1>11, ReturnKeepsOwners DEF HandleMDSRegAck, Called
<1>12. ASSUME NEW m \in MDSs, HandleMDSMapUpdate(m) PROVE RevIInv'
  BY <1>12, ProcsType, HandlerSendKeepsOwners DEF HandleMDSMapUpdate, Called
<1>13. ASSUME NEW c \in Clients, HandleFindMDSAck(c) PROVE RevIInv'
  BY <1>13, ReturnKeepsOwners DEF HandleFindMDSAck, Called
<1>14. ASSUME NEW c \in Clients, ConnectReturns(c) PROVE RevIInv'
  BY <1>14, UnchangedKeepsOwners DEF ConnectReturns, msgVars
<1>15. CASE HandleUnknown
  BY <1>15, ReturnKeepsOwners DEF HandleUnknown, Resumed
<1>16. CASE HandleReturn
  BY <1>16, ReturnTailKeepsOwners DEF HandleReturn
<1>17. CASE UNCHANGED vars
  BY <1>17, UnchangedKeepsOwners DEF vars, msgVars
<1> QED
  BY <1>1, <1>2, <1>3, <1>4, <1>5, <1>6, <1>7, <1>8, <1>9, <1>10, <1>11, <1>12, <1>13,
     <1>14, <1>15, <1>16, <1>17 DEF Next, Step

\* A reverse port is bound only to a process of a send that has not returned,
\* and a process has no two: an answer never reaches one that has not asked.
THEOREM RevPortsHaveOwners == Spec => []RevPortOwners
<1>1. Init => RevIInv
  BY InitOwners DEF Init
<1>2. RevIInv /\ [Next]_vars => RevIInv'
  BY NextKeepsOwners
<1>3. RevIInv => RevPortOwners
  BY DEF RevIInv
<1> QED
  BY <1>1, <1>2, <1>3, PTL DEF Spec

\* Between two calls of the driver every reverse port has been given back.
THEOREM PortsAreReleased == Spec => []PortsReleased
<1>1. Init => RevIInv
  BY InitOwners DEF Init
<1>2. RevIInv /\ [Next]_vars => RevIInv'
  BY NextKeepsOwners
<1>3. RevIInv => PortsReleased
  BY OwnersAreReleased
<1> QED
  BY <1>1, <1>2, <1>3, PTL DEF Spec
-----------------------------------------------------------------------------
\* The inductive invariant of the ranks.
RanksIInv == IsFiniteSet(DOMAIN mds_active_list) /\ DenseRanks

\* In a dense list add_mds finds no hole: the new rank is size().
LEMMA NewRankIsSize ==
  ASSUME RanksIInv
  PROVE  /\ NewRank = Cardinality(DOMAIN mds_active_list)
         /\ NewRank \in Nat
         /\ DOMAIN mds_active_list = 0 .. NewRank - 1
<1> DEFINE n == Cardinality(DOMAIN mds_active_list)
<1>1. n \in Nat /\ DOMAIN mds_active_list = 0 .. n - 1
  BY FS_CardinalityType DEF RanksIInv, DenseRanks
<1> HIDE DEF n
<1>2. \A r \in 0 .. n : r \notin 0 .. n - 1 <=> r = n
  BY <1>1
<1>3. n \in 0 .. n /\ \A q \in 0 .. n - 1 : q \in 0 .. n - 1
  BY <1>1
<1>4. NewRank = CHOOSE r \in 0 .. n : r \notin 0 .. n - 1 /\ \A q \in 0 .. r - 1 : q \in 0 .. n - 1
  BY <1>1 DEF NewRank, n
<1>5. NewRank = n
  BY <1>2, <1>3, <1>4
<1> QED
  BY <1>1, <1>5 DEF n

\* A registration adds the next rank and changes none that is there.
LEMMA RegisterKeepsRanks ==
  ASSUME RanksIInv, HandleMDSRegister
  PROVE  /\ RanksIInv'
         /\ \A r \in DOMAIN mds_active_list :
              r \in DOMAIN mds_active_list' /\ mds_active_list'[r] = mds_active_list[r]
<1> DEFINE n == NewRank
<1>1. n \in Nat /\ DOMAIN mds_active_list = 0 .. n - 1
  BY NewRankIsSize
<1>2. PICK e : mds_active_list' = Bind(mds_active_list, n, e)
  BY DEF HandleMDSRegister, AddMDS
<1> HIDE DEF n
<1>3. DOMAIN mds_active_list' = 0 .. n
  BY <1>1, <1>2 DEF Bind
<1>4. IsFiniteSet(0 .. n) /\ Cardinality(0 .. n) = n + 1
  BY <1>1, FS_Interval
<1>5. \A r \in DOMAIN mds_active_list :
        r \in DOMAIN mds_active_list' /\ mds_active_list'[r] = mds_active_list[r]
  BY <1>2 DEF Bind
<1>6. 0 .. n = 0 .. (n + 1) - 1
  BY <1>1
<1> QED
  BY <1>3, <1>4, <1>5, <1>6 DEF RanksIInv, DenseRanks

\* No handler but that of a registration writes the list.
LEMMA OthersKeepRanks ==
  ASSUME [Next]_vars, ~HandleMDSRegister
  PROVE  UNCHANGED mds_active_list
BY DEF Next, Step, vars, monVars, StartMon, Start, Stop, Connect, ConnectAgain, ConnectReturns,
       BroadcastMap, EndMDSRegister, HandleMDSMapUpdateAck, HandleFindMDS, HandleMDSRegAck,
       HandleMDSMapUpdate, HandleFindMDSAck, HandleUnknown, HandleReturn

\* So does, all the more, a step that registers nobody.
LEMMA NextKeepsRanks ==
  ASSUME RanksIInv, [Next]_vars
  PROVE  /\ RanksIInv'
         /\ \A r \in DOMAIN mds_active_list :
              r \in DOMAIN mds_active_list' /\ mds_active_list'[r] = mds_active_list[r]
<1>1. CASE HandleMDSRegister
  BY <1>1, RegisterKeepsRanks
<1>2. CASE ~HandleMDSRegister
  BY <1>2, OthersKeepRanks DEF RanksIInv, DenseRanks
<1> QED
  BY <1>1, <1>2

\* The list is empty at first.
LEMMA InitRanks ==
  ASSUME Init
  PROVE  RanksIInv
<1>1. DOMAIN mds_active_list = {}
  BY DEF Init, EmptyMap
<1>2. IsFiniteSet({}) /\ Cardinality({}) = 0
  BY FS_EmptySet
<1> QED
  BY <1>1, <1>2 DEF RanksIInv, DenseRanks

\* The ranks given out are 0 .. size()-1 at all times.
THEOREM RanksAreDense == Spec => []DenseRanks
<1>1. RanksIInv => DenseRanks
  BY DEF RanksIInv
<1> QED
  BY <1>1, InitRanks, NextKeepsRanks, PTL DEF Spec

\* A rank stays with the entity that was registered at it.
THEOREM RanksNeverChange == Spec => RanksAreForever
<1>1. RanksIInv /\ [Next]_vars =>
        [\A r \in DOMAIN mds_active_list :
           r \in DOMAIN mds_active_list' /\ mds_active_list'[r] = mds_active_list[r]]_vars
  BY NextKeepsRanks
<1> QED
  BY <1>1, InitRanks, NextKeepsRanks, PTL DEF Spec, RanksAreForever
-----------------------------------------------------------------------------
(***************************************************************************)
(* No map of the cluster is ever wrong: what an MDS or a client believes of *)
(* a rank is what the monitor says of it, however often the monitor has     *)
(* added to its list since, whatever was stopped, and whatever broadcast    *)
(* has failed; and a client that is connected falls back to rank 0.         *)
(***************************************************************************)

\* The maps on their way are in the arguments of these.
CarriesMap(f) == f.type \in {"MDSMAPUPDATE", "FINDMDSACK"}

\* EarlierList of a list that is named.
EarlierOf(list, map) ==
  /\ DOMAIN map = 0 .. Cardinality(DOMAIN map) - 1
  /\ \A r \in DOMAIN map : r \in DOMAIN list /\ map[r] = list[r]

\* A frame has the fields the handlers read, and a map that is not wrong.
FrameOK(list, f) ==
  /\ {"type", "by", "src", "to", "arg", "pc"} \subseteq DOMAIN f
  /\ CarriesMap(f) => EarlierOf(list, f.arg)

StackOK(list, s) == \A k \in DOMAIN s : FrameOK(list, s[k])

\* A list that has more ranks than another makes no map of that one wrong.
GrownFrom(list, grown) == \A r \in DOMAIN list : r \in DOMAIN grown /\ grown[r] = list[r]

\* What was not wrong of the shorter list is not wrong of the longer.
LEMMA GrowthKeepsMaps ==
  ASSUME NEW list, NEW grown, GrownFrom(list, grown)
  PROVE  /\ \A map : EarlierOf(list, map) => EarlierOf(grown, map)
         /\ \A s : StackOK(list, s) => StackOK(grown, s)
BY DEF GrownFrom, EarlierOf, StackOK, FrameOK

\* The stack with the top handler moved on, frame by frame.
LEMMA TopAtFrames ==
  ASSUME RevIInv, stack # <<>>, NEW pc
  PROVE  /\ Len(stack) \in Nat \ {0} /\ DOMAIN stack = 1 .. Len(stack)
         /\ IsStack(TopAt(pc)) /\ Len(TopAt(pc)) = Len(stack)
         /\ DOMAIN TopAt(pc) = 1 .. Len(stack)
         /\ \A k \in 1 .. Len(stack) - 1 : TopAt(pc)[k] = stack[k]
         /\ TopAt(pc)[Len(stack)] = [Top EXCEPT !.pc = pc]
<1>1. IsFrame(Top)
  <2>1. Len(stack) \in DOMAIN stack
    BY BelowFrames DEF RevIInv
  <2> QED
    BY <2>1 DEF RevIInv, IsStack, Top
<1>2. IsFrame([Top EXCEPT !.pc = pc])
  BY <1>1 DEF IsFrame
<1> QED
  BY <1>2, TopReplacedFrames DEF TopAt, TopReplaced, RevIInv

\* A handler that moves on keeps every map that is on the stack.
LEMMA TopKeepsMaps ==
  ASSUME RevIInv, stack # <<>>, NEW list, StackOK(list, stack), NEW pc
  PROVE  StackOK(list, TopAt(pc))
<1>1. /\ Len(stack) \in Nat \ {0} /\ DOMAIN stack = 1 .. Len(stack)
      /\ DOMAIN TopAt(pc) = 1 .. Len(stack)
      /\ \A k \in 1 .. Len(stack) - 1 : TopAt(pc)[k] = stack[k]
      /\ TopAt(pc)[Len(stack)] = [Top EXCEPT !.pc = pc]
  BY TopAtFrames
<1>2. FrameOK(list, Top)
  BY <1>1 DEF StackOK, Top
<1>3. FrameOK(list, [Top EXCEPT !.pc = pc])
  BY <1>2 DEF FrameOK, CarriesMap
<1>4. ASSUME NEW k \in 1 .. Len(stack) PROVE FrameOK(list, TopAt(pc)[k])
  <2>1. CASE k = Len(stack)
    BY <1>1, <1>3, <2>1
  <2>2. CASE k # Len(stack)
    <3>1. k \in 1 .. Len(stack) - 1
      BY <1>1, <2>2
    <3> QED
      BY <1>1, <3>1 DEF StackOK
  <2> QED
    BY <2>1, <2>2
<1> QED
  BY <1>1, <1>4 DEF StackOK

\* A send adds at most one frame; the map in it must not be wrong.
LEMMA SendKeepsMaps ==
  ASSUME NEW caller, IsStack(caller), NEW p, NEW e, NEW type, NEW arg,
         Send(caller, p, e, type, arg),
         NEW list, StackOK(list, caller),
         type \in {"MDSMAPUPDATE", "FINDMDSACK"} => EarlierOf(list, arg)
  PROVE  StackOK(list, stack')
<1>1. CASE stack' = caller
  BY <1>1
<1>2. CASE stack' # caller
  <2> DEFINE f == stack'[Len(caller) + 1]
  <2>1. /\ Len(caller) \in Nat /\ DOMAIN stack' = 1 .. Len(caller) + 1
        /\ \A k \in 1 .. Len(caller) : stack'[k] = caller[k]
        /\ DOMAIN caller = 1 .. Len(caller)
        /\ Sent(p, e, type, arg, f)
    <3>1. Pushes(caller, p, e, type, arg)
      BY <1>2, SendFrames
    <3> QED
      BY <3>1 DEF Pushes
  <2> HIDE DEF f
  <2>2. FrameOK(list, f)
    BY <2>1 DEF Sent, FrameOK, CarriesMap
  <2>3. ASSUME NEW k \in DOMAIN stack' PROVE FrameOK(list, stack'[k])
    <3>1. CASE k = Len(caller) + 1
      BY <2>2, <3>1 DEF f
    <3>2. CASE k # Len(caller) + 1
      <4>1. k \in 1 .. Len(caller)
        BY <2>1, <3>2
      <4> QED
        BY <2>1, <4>1 DEF StackOK
    <3> QED
      BY <3>1, <3>2
  <2> QED
    BY <2>3 DEF StackOK
<1> QED
  BY <1>1, <1>2

\* A return takes a frame away.
LEMMA ReturnKeepsMaps ==
  ASSUME RevIInv, stack # <<>>, NEW list, StackOK(list, stack), NEW b, Return(b)
  PROVE  StackOK(list, stack')
<1>1. /\ Len(stack) \in Nat \ {0} /\ DOMAIN stack = 1 .. Len(stack)
      /\ DOMAIN Below = 1 .. Len(stack) - 1
      /\ \A k \in 1 .. Len(stack) - 1 : Below[k] = stack[k]
  BY BelowFrames DEF RevIInv
<1> QED
  BY <1>1 DEF Return, StackOK
-----------------------------------------------------------------------------
\* What the driver sends.
LEMMA DriverSendKeepsMaps ==
  ASSUME NEW p, NEW e, NEW type, NEW arg, Send(<<>>, p, e, type, arg), NEW list,
         type \notin {"MDSMAPUPDATE", "FINDMDSACK"}
  PROVE  StackOK(list, stack')
<1>1. DOMAIN <<>> = {} /\ IsStack(<<>>)
  BY EmptySeq DEF IsStack
<1>2. StackOK(list, <<>>)
  BY <1>1 DEF StackOK
<1> QED
  BY <1>1, <1>2, SendKeepsMaps

\* What a handler sends.
LEMMA HandlerSendKeepsMaps ==
  ASSUME RevIInv, stack # <<>>, NEW list, StackOK(list, stack),
         NEW pc, NEW p, NEW e, NEW type, NEW arg, Send(TopAt(pc), p, e, type, arg),
         type \in {"MDSMAPUPDATE", "FINDMDSACK"} => EarlierOf(list, arg)
  PROVE  StackOK(list, stack')
<1>1. StackOK(list, TopAt(pc)) /\ IsStack(TopAt(pc))
  BY TopKeepsMaps, TopAtFrames
<1> QED
  BY <1>1, SendKeepsMaps

\* The maps that have arrived.
EarlierMaps ==
  /\ mds_map = [m \in MDSs |-> mds_map[m]]
  /\ mdsmap = [c \in Clients |-> mdsmap[c]]
  /\ \A m \in MDSs : EarlierOf(mds_active_list, mds_map[m])
  /\ \A c \in Clients : EarlierOf(mds_active_list, mdsmap[c])

\* The inductive invariant of the maps, on their way and arrived.
MapsIInv == RevIInv /\ RanksIInv /\ StackOK(mds_active_list, stack) /\ EarlierMaps

\* Every map on its way is the monitor's list as it is now, or one that
\* arrives; so none that is sent is wrong.
LEMMA NextKeepsSentMaps ==
  ASSUME MapsIInv, [Next]_vars
  PROVE  StackOK(mds_active_list', stack')
<1> SUFFICES ASSUME NEW L, L = mds_active_list' PROVE StackOK(L, stack')
  OBVIOUS
<1>1. RanksIInv' /\ GrownFrom(mds_active_list, L)
  BY NextKeepsRanks DEF MapsIInv, GrownFrom
<1>2. StackOK(L, stack) /\ RevIInv
  BY <1>1, GrowthKeepsMaps DEF MapsIInv
<1>3. EarlierOf(L, L)
  BY <1>1 DEF RanksIInv, DenseRanks, EarlierOf
<1>4. ~HandleMDSRegister => mds_active_list = L
  BY OthersKeepRanks
<1>5. CASE StartMon
  BY <1>2, <1>5 DEF StartMon
<1>6. ASSUME NEW m \in MDSs, Start(m) PROVE StackOK(L, stack')
  BY <1>6, DriverSendKeepsMaps DEF Start
<1>7. ASSUME NEW s \in Services, Stop(s) PROVE StackOK(L, stack')
  BY <1>2, <1>7 DEF Stop
<1>8. ASSUME NEW c \in Clients, Connect(c) PROVE StackOK(L, stack')
  BY <1>8, DriverSendKeepsMaps DEF Connect
<1>9. ASSUME NEW c \in Clients, ConnectAgain(c) PROVE StackOK(L, stack')
  BY <1>2, <1>9 DEF ConnectAgain, vars, msgVars
<1>10. CASE HandleMDSRegister
  BY <1>2, <1>10, HandlerSendKeepsMaps DEF HandleMDSRegister, Called
<1>11. CASE BroadcastMap
  <2>1. mds_active_list = L
    BY <1>11 DEF BroadcastMap
  <2>2. /\ stack # <<>>
        /\ Send(TopAt("bcast"), Mon, mds_active_list[LowestUnsent], "MDSMAPUPDATE", L)
    BY <1>11, <2>1 DEF BroadcastMap, Resumed
  <2> QED
    BY <1>2, <1>3, <2>2, HandlerSendKeepsMaps
<1>12. CASE EndMDSRegister
  BY <1>2, <1>12, ReturnKeepsMaps DEF EndMDSRegister, Resumed
<1>13. CASE HandleMDSMapUpdateAck
  BY <1>2, <1>13, ReturnKeepsMaps DEF HandleMDSMapUpdateAck, Called
<1>14. CASE HandleFindMDS
  <2>1. mds_active_list = L
    BY <1>14 DEF HandleFindMDS, monVars
  <2>2. stack # <<>> /\ Send(TopAt("tail"), Mon, Top.src, "FINDMDSACK", L)
    BY <1>14, <2>1 DEF HandleFindMDS, Called
  <2> QED
    BY <1>2, <1>3, <2>2, HandlerSendKeepsMaps
<1>15. ASSUME NEW m \in MDSs, HandleMDSRegAck(m) PROVE StackOK(L, stack')
  BY <1>2, <1>15, ReturnKeepsMaps DEF HandleMDSRegAck, Called
<1>16. ASSUME NEW m \in MDSs, HandleMDSMapUpdate(m) PROVE StackOK(L, stack')
  BY <1>2, <1>16, HandlerSendKeepsMaps DEF HandleMDSMapUpdate, Called
<1>17. ASSUME NEW c \in Clients, HandleFindMDSAck(c) PROVE StackOK(L, stack')
  BY <1>2, <1>17, ReturnKeepsMaps DEF HandleFindMDSAck, Called
<1>18. ASSUME NEW c \in Clients, ConnectReturns(c) PROVE StackOK(L, stack')
  BY <1>2, <1>18 DEF ConnectReturns, msgVars
<1>19. CASE HandleUnknown
  BY <1>2, <1>19, ReturnKeepsMaps DEF HandleUnknown, Resumed
<1>20. CASE HandleReturn
  BY <1>2, <1>20, ReturnKeepsMaps DEF HandleReturn, ReturnTail, Resumed
<1>21. CASE UNCHANGED vars
  BY <1>2, <1>21 DEF vars, msgVars
<1> QED
  BY <1>5, <1>6, <1>7, <1>8, <1>9, <1>10, <1>11, <1>12, <1>13, <1>14, <1>15, <1>16, <1>17,
     <1>18, <1>19, <1>20, <1>21 DEF Next, Step

\* A handed-over map is in the arguments of the top frame.
LEMMA TopMapIsEarlier ==
  ASSUME MapsIInv, stack # <<>>, CarriesMap(Top)
  PROVE  EarlierOf(mds_active_list, Top.arg)
<1>1. Len(stack) \in DOMAIN stack
  BY BelowFrames DEF MapsIInv, RevIInv
<1> QED
  BY <1>1 DEF MapsIInv, StackOK, FrameOK, Top

\* Who stores a map that has arrived stores what was sent.
LEMMA NextKeepsArrivedMaps ==
  ASSUME MapsIInv, [Next]_vars
  PROVE  EarlierMaps'
<1> DEFINE L == mds_active_list'
<1>1. GrownFrom(mds_active_list, L)
  BY NextKeepsRanks DEF MapsIInv, GrownFrom
<1>2. \A map : EarlierOf(mds_active_list, map) => EarlierOf(L, map)
  BY <1>1, GrowthKeepsMaps
<1> HIDE DEF L
<1>3. ASSUME NEW m \in MDSs, HandleMDSMapUpdate(m) PROVE EarlierMaps'
  <2>1. EarlierOf(L, Top.arg)
    BY <1>2, <1>3, TopMapIsEarlier DEF HandleMDSMapUpdate, Called, CarriesMap
  <2>2. mds_map' = [mds_map EXCEPT ![m] = Top.arg] /\ UNCHANGED mdsmap
    BY <1>3 DEF HandleMDSMapUpdate, clientVars
  <2>3. \A n \in MDSs : mds_map'[n] = IF n = m THEN Top.arg ELSE mds_map[n]
    BY <2>2 DEF MapsIInv, EarlierMaps
  <2>4. mds_map' = [n \in MDSs |-> mds_map'[n]]
    BY <2>2 DEF MapsIInv, EarlierMaps
  <2> QED
    BY <1>2, <2>1, <2>2, <2>3, <2>4 DEF MapsIInv, EarlierMaps, L
<1>4. ASSUME NEW c \in Clients, HandleFindMDSAck(c) PROVE EarlierMaps'
  <2>1. EarlierOf(L, Top.arg)
    BY <1>2, <1>4, TopMapIsEarlier DEF HandleFindMDSAck, Called, CarriesMap
  <2>2. mdsmap' = [mdsmap EXCEPT ![c] = Top.arg] /\ UNCHANGED mds_map
    BY <1>4 DEF HandleFindMDSAck, mdsVars
  <2>3. \A d \in Clients : mdsmap'[d] = IF d = c THEN Top.arg ELSE mdsmap[d]
    BY <2>2 DEF MapsIInv, EarlierMaps
  <2>4. mdsmap' = [d \in Clients |-> mdsmap'[d]]
    BY <2>2 DEF MapsIInv, EarlierMaps
  <2> QED
    BY <1>2, <2>1, <2>2, <2>3, <2>4 DEF MapsIInv, EarlierMaps, L
<1>5. CASE UNCHANGED <<mds_map, mdsmap>>
  BY <1>2, <1>5 DEF MapsIInv, EarlierMaps, L
<1>6. \/ UNCHANGED <<mds_map, mdsmap>>
      \/ \E m \in MDSs : HandleMDSMapUpdate(m)
      \/ \E c \in Clients : HandleFindMDSAck(c)
  BY DEF Next, Step, vars, mdsVars, clientVars, StartMon, Start, Stop, Connect, ConnectAgain,
         ConnectReturns, HandleMDSRegister, BroadcastMap, EndMDSRegister,
         HandleMDSMapUpdateAck, HandleFindMDS, HandleMDSRegAck, HandleUnknown, HandleReturn
<1> QED
  BY <1>3, <1>4, <1>5, <1>6

\* So no map becomes wrong.
LEMMA NextKeepsMaps ==
  ASSUME MapsIInv, [Next]_vars
  PROVE  MapsIInv'
<1>1. RevIInv' /\ RanksIInv'
  BY NextKeepsOwners, NextKeepsRanks DEF MapsIInv
<1>2. StackOK(mds_active_list, stack)'
  BY NextKeepsSentMaps
<1> QED
  BY <1>1, <1>2, NextKeepsArrivedMaps DEF MapsIInv

\* At first there is no map.
LEMMA InitMaps ==
  ASSUME Init
  PROVE  MapsIInv
<1>1. RevIInv /\ RanksIInv
  BY InitOwners, InitRanks DEF Init
<1>2. DOMAIN EmptyMap = {} /\ Cardinality({}) = 0
  BY FS_EmptySet DEF EmptyMap
<1>3. EarlierOf(mds_active_list, EmptyMap)
  BY <1>2 DEF EarlierOf
<1>4. StackOK(mds_active_list, stack)
  <2>1. DOMAIN stack = {}
    BY DEF Init, MessagingInit
  <2> QED
    BY <2>1 DEF StackOK
<1>5. EarlierMaps
  BY <1>3 DEF Init, EarlierMaps
<1> QED
  BY <1>1, <1>4, <1>5 DEF MapsIInv
-----------------------------------------------------------------------------
\* The client falls back to the entity of rank 0.
RootOK(c) == 0 \in DOMAIN mds_active_list /\ root_mds[c] = mds_active_list[0]

\* The tables are functions, and only services listen at service ports.
RootTypes ==
  /\ service_map = [h \in Hosts |-> service_map[h]]
  /\ \A h \in Hosts : \A i \in DOMAIN service_map[h] : service_map[h][i] \in Services
  /\ root_mds = [c \in Clients |-> root_mds[c]]
  /\ connected = [c \in Clients |-> connected[c]]

\* What is on the stack while client c asks for the map: nothing yet or no
\* more, or its request, or its request and the answer -- and the answer
\* does not lead to another client.
Request(c, f) == f.type = "FINDMDS" /\ f.by = c /\ f.src.host = HostOf[c]

Asking(c) ==
  \/ Len(stack) = 0 /\ (ret => RootOK(c))
  \/ /\ Len(stack) = 1 /\ Request(c, stack[1])
     /\ stack[1].pc = "call" \/ (stack[1].pc = "tail" /\ (ret => RootOK(c)))
  \/ /\ Len(stack) = 2 /\ Request(c, stack[1]) /\ stack[1].pc = "tail"
     /\ stack[2].type = "FINDMDSACK" /\ stack[2].pc = "call"
     /\ stack[2].to \in Clients => stack[2].to = c

\* The inductive invariant of the roots.
RootIInv ==
  /\ MapsIInv /\ RootTypes
  /\ \A c \in Clients : connected[c] => RootOK(c)
  /\ connecting # Nil => connecting \in Clients /\ Asking(connecting)

\* The tables stay functions, of services.
LEMMA NextKeepsRootTypes ==
  ASSUME RootTypes, [Next]_vars
  PROVE  RootTypes'
<1>1. ASSUME NEW s \in Services, RegisterService(s), UNCHANGED <<root_mds, connected>>
      PROVE  RootTypes'
  <2> DEFINE h == HostOf[s]
             p == FreePort(service_map[h], 0)
  <2>1. service_map' = [service_map EXCEPT ![h] = Bind(@, p, s)]
    BY <1>1 DEF RegisterService
  <2> HIDE DEF h, p
  <2> QED
    BY <1>1, <2>1 DEF RootTypes, Bind
<1>2. ASSUME NEW s \in Services, Stop(s) PROVE RootTypes'
  <2>1. /\ service_map' = [service_map EXCEPT ![HostOf[s]] = Unbind(@, port[s])]
        /\ UNCHANGED <<root_mds, connected>>
    BY <1>2 DEF Stop, clientVars
  <2> QED
    BY <2>1 DEF RootTypes, Unbind
<1>3. ASSUME NEW c \in Clients, HandleFindMDSAck(c) PROVE RootTypes'
  BY <1>3 DEF HandleFindMDSAck, RootTypes
<1>4. ASSUME NEW c \in Clients, ConnectReturns(c) PROVE RootTypes'
  BY <1>4 DEF ConnectReturns, RootTypes, msgVars
<1>5. CASE UNCHANGED <<service_map, root_mds, connected>>
  BY <1>5 DEF RootTypes
<1>6. CASE StartMon
  BY <1>1, <1>6 DEF StartMon, Services, clientVars
<1>7. ASSUME NEW m \in MDSs, Start(m) PROVE RootTypes'
  BY <1>1, <1>7 DEF Start, Services, clientVars
<1>8. \/ UNCHANGED <<service_map, root_mds, connected>>
      \/ StartMon \/ \E m \in MDSs : Start(m)
      \/ \E s \in Services : Stop(s)
      \/ \E c \in Clients : HandleFindMDSAck(c) \/ ConnectReturns(c)
  BY DEF Next, Step, vars, msgVars, clientVars, Connect, ConnectAgain, HandleMDSRegister,
         BroadcastMap, EndMDSRegister, HandleMDSMapUpdateAck, HandleFindMDS, HandleMDSRegAck,
         HandleMDSMapUpdate, HandleUnknown, HandleReturn, ReturnTail
<1> QED
  BY <1>2, <1>3, <1>4, <1>5, <1>6, <1>7, <1>8

\* A list that is not wrong and not empty has a rank 0, and its root is it.
LEMMA RootOfEarlier ==
  ASSUME RanksIInv, NEW map, EarlierOf(mds_active_list, map), DOMAIN map # {}
  PROVE  0 \in DOMAIN mds_active_list /\ RootOf(map) = mds_active_list[0]
<1>1. DOMAIN map \subseteq DOMAIN mds_active_list
  BY DEF EarlierOf
<1>2. IsFiniteSet(DOMAIN map) /\ Cardinality(DOMAIN map) \in Nat
  BY <1>1, FS_Subset, FS_CardinalityType DEF RanksIInv
<1>3. 0 \in DOMAIN map
  BY <1>2 DEF EarlierOf
<1> QED
  BY <1>3 DEF RootOf, EarlierOf

\* The answer sets the root, or fails and leaves it alone.
LEMMA AnswerSetsRoot ==
  ASSUME MapsIInv, RootTypes, NEW c \in Clients, HandleFindMDSAck(c)
  PROVE  /\ ret' => RootOK(c)'
         /\ \A d \in Clients : RootOK(d) => RootOK(d)'
<1>1. EarlierOf(mds_active_list, Top.arg)
  BY TopMapIsEarlier DEF HandleFindMDSAck, Called, CarriesMap
<1>2. UNCHANGED mds_active_list /\ (ret' <=> DOMAIN Top.arg # {})
  BY DEF HandleFindMDSAck, monVars, Return
<1>3. CASE DOMAIN Top.arg = {}
  BY <1>2, <1>3 DEF HandleFindMDSAck, RootOK
<1>4. CASE DOMAIN Top.arg # {}
  <2>1. 0 \in DOMAIN mds_active_list /\ RootOf(Top.arg) = mds_active_list[0]
    BY <1>1, <1>4, RootOfEarlier DEF MapsIInv
  <2>2. root_mds' = [root_mds EXCEPT ![c] = mds_active_list[0]]
    BY <1>4, <2>1 DEF HandleFindMDSAck
  <2> QED
    BY <1>2, <2>1, <2>2 DEF RootOK, RootTypes
<1> QED
  BY <1>3, <1>4

\* Rank 0 once found stays the root.
LEMMA NextKeepsRoots ==
  ASSUME MapsIInv, RootTypes, [Next]_vars
  PROVE  \A c \in Clients : RootOK(c) => RootOK(c)'
<1>1. CASE UNCHANGED root_mds
  BY <1>1, NextKeepsRanks DEF MapsIInv, RootOK
<1>2. ASSUME NEW c \in Clients, HandleFindMDSAck(c)
      PROVE  \A d \in Clients : RootOK(d) => RootOK(d)'
  BY <1>2, AnswerSetsRoot
<1>3. UNCHANGED root_mds \/ \E c \in Clients : HandleFindMDSAck(c)
  BY DEF Next, Step, vars, clientVars, StartMon, Start, Stop, Connect, ConnectAgain,
         ConnectReturns, HandleMDSRegister, BroadcastMap, EndMDSRegister,
         HandleMDSMapUpdateAck, HandleFindMDS, HandleMDSRegAck, HandleMDSMapUpdate,
         HandleUnknown, HandleReturn
<1> QED
  BY <1>1, <1>2, <1>3

\* A client that asks sends its request, or fails.
LEMMA ConnectAsks ==
  ASSUME NEW c \in Clients, Connect(c)
  PROVE  Asking(c)'
<1>1. IsStack(<<>>) /\ Len(<<>>) = 0
  <2>1. DOMAIN <<>> = {}
    OBVIOUS
  <2> QED
    BY <2>1, EmptySeq DEF IsStack
<1>2. Send(<<>>, c, monitors[1], "FINDMDS", Nil)
  BY DEF Connect
<1>3. \/ stack' = <<>> /\ ret' = FALSE
      \/ Pushes(<<>>, c, monitors[1], "FINDMDS", Nil)
  BY <1>1, <1>2, SendFrames
<1>4. CASE stack' = <<>> /\ ret' = FALSE
  BY <1>4 DEF Asking
<1>5. CASE Pushes(<<>>, c, monitors[1], "FINDMDS", Nil)
  <2>1. Len(stack') = 1 /\ Sent(c, monitors[1], "FINDMDS", Nil, stack'[1])
    BY <1>1, <1>5 DEF Pushes
  <2>2. stack'[1].type = "FINDMDS" /\ stack'[1].by = c /\ stack'[1].pc = "call"
        /\ stack'[1].src.host = HostOf[c]
    BY <2>1 DEF Sent, Entity
  <2> QED
    BY <2>1, <2>2 DEF Asking, Request
<1> QED
  BY <1>3, <1>4, <1>5

\* The answer goes where the request came from: to the client, as long as no
\* service has taken the port it waits on.
LEMMA FindMDSAnswers ==
  ASSUME MapsIInv, RootTypes, NEW c \in Clients, Asking(c), HandleFindMDS
  PROVE  Asking(c)'
<1>1. /\ Len(stack) = 1 /\ stack # <<>> /\ Top = stack[1] /\ Request(c, stack[1])
      /\ 1 \in DOMAIN stack /\ DOMAIN stack = 1 .. 1
  BY BelowFrames DEF HandleFindMDS, Called, Asking, Top, MapsIInv, RevIInv
<1>2. /\ Send(TopAt("tail"), Mon, Top.src, "FINDMDSACK", mds_active_list)
      /\ service_map' = service_map
  BY DEF HandleFindMDS
<1>3. /\ IsStack(TopAt("tail")) /\ Len(TopAt("tail")) = 1
      /\ TopAt("tail")[1] = [stack[1] EXCEPT !.pc = "tail"]
  BY <1>1, TopAtFrames DEF MapsIInv
<1>4. /\ Request(c, TopAt("tail")[1]) /\ TopAt("tail")[1].pc = "tail"
  <2>1. FrameOK(mds_active_list, stack[1])
    BY <1>1 DEF MapsIInv, StackOK
  <2> QED
    BY <1>1, <1>3, <2>1 DEF Request, FrameOK
<1>5. CASE stack' = TopAt("tail") /\ ret' = FALSE
  BY <1>3, <1>4, <1>5 DEF Asking
<1>6. CASE Pushes(TopAt("tail"), Mon, Top.src, "FINDMDSACK", mds_active_list)
  <2>1. /\ Len(stack') = 2 /\ stack'[1] = TopAt("tail")[1]
        /\ Sent(Mon, Top.src, "FINDMDSACK", mds_active_list, stack'[2])
    BY <1>3, <1>6 DEF Pushes
  <2> DEFINE h   == HostOf[Mon]
             i   == FindOrFreePort(proc_revmap[h], RevBase, Mon)
             rev == [proc_revmap EXCEPT ![h] = Bind(@, i, Mon)]
  <2>2. /\ stack'[2].type = "FINDMDSACK" /\ stack'[2].pc = "call"
        /\ stack'[2].to = Dispatch(service_map, rev, Top.src)
    BY <1>2, <2>1 DEF Sent
  <2>3. Top.src.host \in Hosts /\ h \in Hosts
    BY <1>1, ProcsType, HostsAssumption DEF Request
  <2> HIDE DEF h, i
  <2>4. \A g \in Hosts : \A j \in DOMAIN rev[g] : rev[g][j] \in {Mon, c}
    <3>1. \A g \in Hosts : \A j \in DOMAIN proc_revmap[g] : proc_revmap[g][j] = c
      BY <1>1 DEF MapsIInv, RevIInv, RevPortOwners, Request
    <3>2. \A g \in Hosts : rev[g] = IF g = h THEN Bind(proc_revmap[h], i, Mon) ELSE proc_revmap[g]
      BY DEF MapsIInv, RevIInv, RevTables
    <3> QED
      BY <2>3, <3>1, <3>2 DEF Bind
  <2> HIDE DEF rev
  <2>5. stack'[2].to \in Services \cup {Mon, c, Nil}
    BY <2>2, <2>3, <2>4 DEF Dispatch, RootTypes
  <2>6. stack'[2].to \in Clients => stack'[2].to = c
    BY <2>5, ProcsAssumption, NilAssumption, ProcsType DEF Services
  <2> QED
    BY <1>4, <2>1, <2>2, <2>6 DEF Asking
<1>7. Mon \in Procs
  BY ProcsType
<1> QED
  BY <1>2, <1>3, <1>5, <1>6, SendFrames

\* What a return leaves of the frames of Asking.
LEMMA AskingReturns ==
  ASSUME MapsIInv, NEW c \in Clients, Asking(c), stack # <<>>, NEW b, Return(b),
         b => RootOK(c)'
  PROVE  Asking(c)'
<1>1. /\ Len(stack) \in {1, 2} /\ stack' = Below /\ ret' = b
      /\ IsStack(Below) /\ DOMAIN Below = 1 .. Len(stack) - 1
      /\ \A k \in 1 .. Len(stack) - 1 : Below[k] = stack[k]
  BY BelowFrames DEF MapsIInv, RevIInv, Asking, Return
<1>2. Len(Below) = Len(stack) - 1
  <2>1. Len(Below) \in Nat /\ DOMAIN Below = 1 .. Len(Below)
    BY <1>1, StackIsSeq
  <2> QED
    BY <1>1, <2>1, IntervalLength
<1>3. CASE Len(stack) = 1
  BY <1>1, <1>2, <1>3 DEF Asking
<1>4. CASE Len(stack) = 2
  <2>1. /\ Len(stack') = 1 /\ stack'[1] = stack[1]
        /\ Request(c, stack[1]) /\ stack[1].pc = "tail"
    BY <1>1, <1>2, <1>4 DEF Asking
  <2>2. ret' => RootOK(c)'
    BY <1>1
  <2> QED
    BY <2>1, <2>2 DEF Asking, Request
<1> QED
  BY <1>1, <1>3, <1>4

\* As long as a client asks, the thread carries its request on.
LEMMA StepKeepsAsking ==
  ASSUME RootIInv, [Next]_vars, connecting' # Nil
  PROVE  connecting' \in Clients /\ Asking(connecting)'
<1>1. CASE connecting = Nil
  <2>1. PICK c \in Clients : Connect(c) \/ connecting' = connecting
    BY <1>1 DEF Next, Step, vars, clientVars, StartMon, Start, Stop, ConnectAgain,
         ConnectReturns, HandleMDSRegister, BroadcastMap, EndMDSRegister,
         HandleMDSMapUpdateAck, HandleFindMDS, HandleMDSRegAck, HandleMDSMapUpdate,
         HandleFindMDSAck, HandleUnknown, HandleReturn
  <2>2. Connect(c) /\ connecting' = c
    BY <1>1, <2>1 DEF Connect
  <2>3. Asking(c)'
    BY <2>2, ConnectAsks
  <2> QED
    BY <2>2, <2>3
<1>2. CASE connecting # Nil
  <2>1. PICK c \in Clients : c = connecting
    BY <1>2 DEF RootIInv
  <2>2. Asking(c) /\ MapsIInv /\ RootTypes
    BY <1>2, <2>1 DEF RootIInv
  <2>3. RootOK(c) => RootOK(c)'
    BY <2>2, NextKeepsRoots
  <2>4. stack # <<>> => /\ Top.pc = "call" \/ (Top.pc = "tail" /\ (ret => RootOK(c)))
                        /\ Top.type \in {"FINDMDS", "FINDMDSACK"}
                        /\ Top.type = "FINDMDSACK" =>
                             Top.pc = "call" /\ (Top.to \in Clients => Top.to = c)
    BY <2>2, BelowFrames DEF Asking, Request, Top, MapsIInv, RevIInv
  <2>5. ASSUME UNCHANGED connecting PROVE Asking(c)'
    <3>1. CASE HandleFindMDS
      BY <2>2, <3>1, FindMDSAnswers
    <3>2. ASSUME NEW d \in Clients, HandleFindMDSAck(d) PROVE Asking(c)'
      <4>1. /\ d = c /\ stack # <<>> /\ ret' = (DOMAIN Top.arg # {})
            /\ Return(DOMAIN Top.arg # {})
        BY <2>4, <3>2 DEF HandleFindMDSAck, Called, Return
      <4>2. ret' => RootOK(c)'
        BY <2>2, <3>2, <4>1, AnswerSetsRoot
      <4> QED
        BY <2>2, <4>1, <4>2, AskingReturns
    <3>3. CASE HandleUnknown
      BY <2>2, <3>3, AskingReturns DEF HandleUnknown, Resumed
    <3>4. CASE HandleReturn
      <4>1. stack # <<>> /\ Top.pc = "tail" /\ Return(ret)
        BY <3>4 DEF HandleReturn, ReturnTail, Resumed
      <4>2. ret => RootOK(c)'
        BY <2>3, <2>4, <4>1
      <4> QED
        BY <2>2, <4>1, <4>2, AskingReturns
    <3>5. CASE UNCHANGED vars
      <4>1. UNCHANGED <<stack, ret, root_mds, mds_active_list>>
        BY <3>5 DEF vars, msgVars, clientVars, monVars
      <4> QED
        BY <2>2, <4>1 DEF Asking, RootOK, Request
    <3>6. ~Idle /\ \A d \in Clients : ~ConnectReturns(d)
      BY <1>2, <2>1, <2>5 DEF Idle, ConnectReturns
    <3> QED
      BY <2>4, <3>1, <3>2, <3>3, <3>4, <3>5, <3>6
      DEF Next, Step, StartMon, Start, Stop, Connect, ConnectAgain, Called, Resumed,
          HandleMDSRegister, BroadcastMap, EndMDSRegister, HandleMDSMapUpdateAck,
          HandleMDSRegAck, HandleMDSMapUpdate
  <2>6. UNCHANGED connecting
    BY <1>2 DEF Next, Step, vars, clientVars, StartMon, Start, Stop, Connect, ConnectAgain,
         Idle, ConnectReturns, HandleMDSRegister, BroadcastMap, EndMDSRegister,
         HandleMDSMapUpdateAck, HandleFindMDS, HandleMDSRegAck, HandleMDSMapUpdate,
         HandleFindMDSAck, HandleUnknown, HandleReturn
  <2>7. connecting' = c
    BY <2>1, <2>6
  <2> QED
    BY <2>5, <2>6, <2>7
<1> QED
  BY <1>1, <1>2

\* A client is connected when its request has returned TRUE.
LEMMA NextKeepsConnected ==
  ASSUME RootIInv, [Next]_vars
  PROVE  \A c \in Clients : connected'[c] => RootOK(c)'
<1>1. \A c \in Clients : RootOK(c) => RootOK(c)'
  BY NextKeepsRoots DEF RootIInv
<1>2. CASE UNCHANGED connected
  BY <1>1, <1>2 DEF RootIInv
<1>3. ASSUME NEW c \in Clients, ConnectReturns(c)
      PROVE  \A d \in Clients : connected'[d] => RootOK(d)'
  <2>1. stack = <<>> /\ connecting = c /\ connected' = [connected EXCEPT ![c] = ret]
    BY <1>3 DEF ConnectReturns
  <2>2. c # Nil
    BY NilAssumption, ProcsType
  <2>3. ret => RootOK(c)
    BY <2>1, <2>2 DEF RootIInv, Asking
  <2> QED
    BY <1>1, <2>1, <2>3 DEF RootIInv, RootTypes
<1>4. UNCHANGED connected \/ \E c \in Clients : ConnectReturns(c)
  BY DEF Next, Step, vars, clientVars, StartMon, Start, Stop, Connect, ConnectAgain,
         HandleMDSRegister, BroadcastMap, EndMDSRegister, HandleMDSMapUpdateAck,
         HandleFindMDS, HandleMDSRegAck, HandleMDSMapUpdate, HandleFindMDSAck,
         HandleUnknown, HandleReturn
<1> QED
  BY <1>2, <1>3, <1>4

\* A map is never wrong, however stale, and a connected client falls back to
\* rank 0: for every cluster, and whatever its driver does to it.
THEOREM StaleMapsNeverWrong == Spec => []StaleMapsAreNotWrong
<1>1. Init => RootIInv
  <2>1. Init => RootTypes /\ connecting = Nil /\ \A c \in Clients : ~connected[c]
    BY DEF Init, RootTypes, EmptyMap
  <2> QED
    BY <2>1, InitMaps DEF RootIInv
<1>2. RootIInv /\ [Next]_vars => RootIInv'
  <2> SUFFICES ASSUME RootIInv, [Next]_vars PROVE RootIInv'
    OBVIOUS
  <2>1. MapsIInv' /\ RootTypes'
    BY NextKeepsMaps, NextKeepsRootTypes DEF RootIInv
  <2> QED
    BY <2>1, NextKeepsConnected, StepKeepsAsking DEF RootIInv
<1>3. RootIInv => StaleMapsAreNotWrong
  BY DEF RootIInv, MapsIInv, EarlierMaps, EarlierOf, StaleMapsAreNotWrong, EarlierList, RootOK
<1> QED
  BY <1>1, <1>2, <1>3, PTL DEF Spec
-----------------------------------------------------------------------------
(***************************************************************************)
(* Types.  What the tables, the lists and the messages hold: services,       *)
(* processes, entities of hosts and maps from ranks to entities.             *)
(***************************************************************************)
EntityType == [host : Hosts, port : Nat]

\* What the services and the driver leave.
ServiceTypes ==
  /\ service_map = [h \in Hosts |-> service_map[h]]
  /\ \A h \in Hosts : IsPortTable(service_map[h], 0, Services)
  /\ st \in [Services -> {"LOADED", "RUNNING", "STOPPED"}]
  /\ port \in [Services -> Nat \cup {NoPort}]
  /\ monitors \in Seq(EntityType)
  /\ upsets \in 0 .. MaxUpsets

\* A service that is registered is given a free port, and bound to it.
LEMMA RegisterIs ==
  ASSUME ServiceTypes, NEW s \in Services, RegisterService(s)
  PROVE  LET h == HostOf[s]
             p == FreePort(service_map[h], 0)
         IN /\ h \in Hosts /\ p \in 0 .. Cardinality(DOMAIN service_map[h]) /\ p \in Nat
            /\ p \notin DOMAIN service_map[h]
            /\ port' = [port EXCEPT ![s] = p]
            /\ service_map' = [g \in Hosts |-> IF g = h THEN Bind(service_map[h], p, s) ELSE service_map[g]]
<1> DEFINE h == HostOf[s]
           m == service_map[h]
           p == FreePort(m, 0)
<1>1. h \in Hosts
  BY HostsAssumption, ProcsAssumption
<1>2. IsFiniteSet(DOMAIN m)
  BY <1>1 DEF ServiceTypes, IsPortTable
<1>3. Cardinality(DOMAIN m) \in Nat
  BY <1>2, FS_CardinalityType
<1>4. p \in 0 .. 0 + Cardinality(DOMAIN m) /\ p \notin DOMAIN m
  BY <1>2, FreePortIsFree
<1>5. p \in 0 .. Cardinality(DOMAIN m) /\ p \in Nat
  BY <1>3, <1>4
<1>6. port' = [port EXCEPT ![s] = p] /\ service_map' = [service_map EXCEPT ![h] = Bind(@, p, s)]
  BY DEF RegisterService
<1> HIDE DEF p
<1>7. service_map' = [g \in Hosts |-> IF g = h THEN Bind(m, p, s) ELSE service_map[g]]
  BY <1>1, <1>6 DEF ServiceTypes
<1> QED
  BY <1>1, <1>4, <1>5, <1>6, <1>7 DEF p

\* A binding more, and one less.
LEMMA BindKeepsTable ==
  ASSUME NEW S, NEW m, IsPortTable(m, 0, S), NEW i \in Nat, NEW s \in S
  PROVE  IsPortTable(Bind(m, i, s), 0, S) /\ IsPortTable(Unbind(m, i), 0, S)
<1>1. IsFiniteSet(DOMAIN m \cup {i}) /\ IsFiniteSet(DOMAIN m \ {i})
  BY FS_AddElement, FS_RemoveElement DEF IsPortTable
<1> QED
  BY <1>1 DEF IsPortTable, Bind, Unbind

\* A registration keeps the types of the tables.
LEMMA RegisterKeepsTypes ==
  ASSUME ServiceTypes, NEW s \in Services, RegisterService(s)
  PROVE  /\ service_map' = [h \in Hosts |-> service_map'[h]]
         /\ \A h \in Hosts : IsPortTable(service_map'[h], 0, Services)
         /\ st' \in [Services -> {"LOADED", "RUNNING", "STOPPED"}]
         /\ port' \in [Services -> Nat \cup {NoPort}]
         /\ port'[s] \in Nat /\ HostOf[s] \in Hosts
         /\ upsets' \in 0 .. MaxUpsets
<1> DEFINE h == HostOf[s]
           p == FreePort(service_map[h], 0)
<1>1. /\ h \in Hosts /\ p \in Nat /\ port' = [port EXCEPT ![s] = p]
      /\ service_map' = [g \in Hosts |-> IF g = h THEN Bind(service_map[h], p, s) ELSE service_map[g]]
  BY RegisterIs
<1> HIDE DEF h, p
<1>2. IsPortTable(Bind(service_map[h], p, s), 0, Services)
  BY <1>1, BindKeepsTable DEF ServiceTypes
<1>3. /\ service_map' = [g \in Hosts |-> service_map'[g]]
      /\ \A g \in Hosts : IsPortTable(service_map'[g], 0, Services)
  BY <1>1, <1>2 DEF ServiceTypes
<1>4. port' \in [Services -> Nat \cup {NoPort}] /\ port'[s] \in Nat
  BY <1>1 DEF ServiceTypes
<1>5. st' \in [Services -> {"LOADED", "RUNNING", "STOPPED"}]
  BY DEF RegisterService, ServiceTypes
<1>6. upsets' \in 0 .. MaxUpsets
  BY MaxUpsetsAssumption DEF RegisterService, ServiceTypes, Upset, MayUpset
<1> QED
  BY <1>1, <1>3, <1>4, <1>5, <1>6 DEF h

\* So do the other steps of the driver.
LEMMA NextKeepsServiceTypes ==
  ASSUME ServiceTypes, [Next]_vars
  PROVE  ServiceTypes'
<1>1. CASE StartMon
  <2>1. RegisterService(Mon) /\ Mon \in Services
    BY <1>1 DEF StartMon, Services
  <2>2. port'[Mon] \in Nat /\ HostOf[Mon] \in Hosts
    BY <2>1, RegisterKeepsTypes
  <2>3. Entity(HostOf[Mon], port'[Mon]) \in EntityType
    BY <2>2 DEF Entity, EntityType
  <2>4. monitors' \in {monitors, Append(monitors, Entity(HostOf[Mon], port'[Mon]))}
    BY <1>1 DEF StartMon, RegisterMonitor
  <2>5. monitors' \in Seq(EntityType)
    BY <2>3, <2>4, AppendProperties DEF ServiceTypes
  <2> QED
    BY <2>1, <2>5, RegisterKeepsTypes DEF ServiceTypes
<1>2. ASSUME NEW m \in MDSs, Start(m) PROVE ServiceTypes'
  <2>1. RegisterService(m) /\ m \in Services /\ monitors' = monitors
    BY <1>2 DEF Start, Services
  <2> QED
    BY <2>1, RegisterKeepsTypes DEF ServiceTypes
<1>3. ASSUME NEW s \in Services, Stop(s) PROVE ServiceTypes'
  <2> DEFINE h == HostOf[s]
  <2>1. h \in Hosts
    BY HostsAssumption, ProcsAssumption
  <2>2. /\ service_map' = [service_map EXCEPT ![h] = Unbind(@, port[s])]
        /\ st' = IF st[s] = "RUNNING" THEN [st EXCEPT ![s] = "STOPPED"] ELSE st
        /\ port' = port /\ monitors' = monitors /\ MayUpset /\ upsets' = upsets + 1
    BY <1>3 DEF Stop, Upset
  <2> HIDE DEF h
  <2>3. IsPortTable(Unbind(service_map[h], port[s]), 0, Services)
    <3>1. CASE port[s] \in Nat
      BY <2>1, <3>1, BindKeepsTable DEF ServiceTypes
    <3>2. CASE port[s] = NoPort
      <4>1. NoPort \notin DOMAIN service_map[h]
        BY <2>1 DEF ServiceTypes, IsPortTable, NoPort
      <4>2. Unbind(service_map[h], port[s]) = service_map[h]
        BY <2>1, <3>2, <4>1 DEF Unbind, ServiceTypes, IsPortTable
      <4> QED
        BY <2>1, <4>2 DEF ServiceTypes
    <3> QED
      BY <3>1, <3>2 DEF ServiceTypes
  <2>4. /\ service_map' = [g \in Hosts |-> service_map'[g]]
        /\ \A g \in Hosts : IsPortTable(service_map'[g], 0, Services)
    BY <2>1, <2>2, <2>3 DEF ServiceTypes
  <2>5. st' \in [Services -> {"LOADED", "RUNNING", "STOPPED"}]
    BY <2>2 DEF ServiceTypes
  <2>6. upsets' \in 0 .. MaxUpsets
    BY <2>2, MaxUpsetsAssumption DEF ServiceTypes, MayUpset
  <2> QED
    BY <2>2, <2>4, <2>5, <2>6 DEF ServiceTypes
<1>4. CASE UNCHANGED <<service_map, st, port, monitors, upsets>>
  BY <1>4 DEF ServiceTypes
<1>5. \/ UNCHANGED <<service_map, st, port, monitors, upsets>>
      \/ StartMon \/ (\E m \in MDSs : Start(m)) \/ (\E s \in Services : Stop(s))
  BY DEF Next, Step, vars, msgVars, serviceVars, Connect, ConnectAgain, ConnectReturns,
         HandleMDSRegister, BroadcastMap, EndMDSRegister, HandleMDSMapUpdateAck, HandleFindMDS,
         HandleMDSRegAck, HandleMDSMapUpdate, HandleFindMDSAck, HandleUnknown, HandleReturn, ReturnTail
<1> QED
  BY <1>1, <1>2, <1>3, <1>4, <1>5

\* At first nobody listens.
LEMMA InitServiceTypes == Init => ServiceTypes
<1> SUFFICES ASSUME Init PROVE ServiceTypes
  OBVIOUS
<1>1. DOMAIN EmptyMap = {} /\ EmptyMap = [i \in {} |-> EmptyMap[i]] /\ EmptyMap \in Seq(EntityType)
  BY DEF EmptyMap
<1>2. IsPortTable(EmptyMap, 0, Services)
  BY <1>1, FS_EmptySet DEF IsPortTable
<1> QED
  BY <1>1, <1>2, MaxUpsetsAssumption DEF Init, ServiceTypes, EmptyMap
-----------------------------------------------------------------------------
(***************************************************************************)
(* The stack after a step of a handler: its send has failed, or has nested  *)
(* a call, or the handler has returned.                                     *)
(***************************************************************************)
\* Frame f is the top one at another control point.
Moved(f, pc) ==
  /\ f.type = Top.type /\ f.by = Top.by /\ f.src = Top.src /\ f.to = Top.to
  /\ f.arg = Top.arg /\ f.pc = pc

\* Frame f is that of a send of p's that waits for an answer.
Fresh(p, e, type, arg, f) ==
  /\ {"type", "by", "src", "to", "arg", "pc"} \subseteq DOMAIN f
  /\ f.type = type /\ f.arg = arg /\ f.by = p /\ f.pc = "call" /\ Waits(p, e, f)

FailsAt(pc) ==
  /\ ret' = FALSE
  /\ Len(stack') = Len(stack) /\ DOMAIN stack' = 1 .. Len(stack)
  /\ \A k \in 1 .. Len(stack) - 1 : stack'[k] = stack[k]
  /\ Moved(stack'[Len(stack)], pc)

Nests(p, e, type, arg, pc) ==
  /\ Len(stack') = Len(stack) + 1 /\ DOMAIN stack' = 1 .. Len(stack) + 1
  /\ \A k \in 1 .. Len(stack) - 1 : stack'[k] = stack[k]
  /\ Moved(stack'[Len(stack)], pc)
  /\ Fresh(p, e, type, arg, stack'[Len(stack) + 1])

Returns(b) ==
  /\ ret' = b
  /\ Len(stack') = Len(stack) - 1 /\ DOMAIN stack' = 1 .. Len(stack) - 1
  /\ \A k \in 1 .. Len(stack) - 1 : stack'[k] = stack[k]

\* The driver's send starts with an empty stack.
Begins(p, e, type, arg) ==
  \/ stack' = <<>> /\ ret' = FALSE
  \/ Len(stack') = 1 /\ DOMAIN stack' = 1 .. 1 /\ Fresh(p, e, type, arg, stack'[1])

\* What is known of the stack at any time.
LEMMA StackIs ==
  ASSUME MapsIInv, stack # <<>>
  PROVE  /\ Len(stack) \in Nat \ {0} /\ DOMAIN stack = 1 .. Len(stack)
         /\ Top = stack[Len(stack)] /\ Len(stack) \in DOMAIN stack /\ 1 \in DOMAIN stack
         /\ {"type", "by", "src", "to", "arg", "pc"} \subseteq DOMAIN Top
<1>1. Len(stack) \in Nat \ {0} /\ DOMAIN stack = 1 .. Len(stack) /\ Top = stack[Len(stack)]
  BY BelowFrames DEF MapsIInv, RevIInv, Top
<1>2. Len(stack) \in DOMAIN stack /\ 1 \in DOMAIN stack
  BY <1>1
<1> QED
  BY <1>1, <1>2 DEF MapsIInv, StackOK, FrameOK

\* The new frame of a send waits.
LEMMA PushIsFresh ==
  ASSUME NEW p, NEW e, NEW type, NEW arg, NEW f, Sent(p, e, type, arg, f), Waits(p, e, f)
  PROVE  Fresh(p, e, type, arg, f)
BY DEF Sent, Fresh

\* The two ends of a handler's send.
LEMMA HandlerSends ==
  ASSUME MapsIInv, stack # <<>>, NEW pc, NEW p \in Procs, NEW e, NEW type, NEW arg,
         Send(TopAt(pc), p, e, type, arg)
  PROVE  FailsAt(pc) \/ Nests(p, e, type, arg, pc)
<1> DEFINE n == Len(stack)
           caller == TopAt(pc)
<1>1. /\ n \in Nat \ {0} /\ IsStack(caller) /\ Len(caller) = n /\ DOMAIN caller = 1 .. n
      /\ \A k \in 1 .. n - 1 : caller[k] = stack[k]
      /\ caller[n] = [Top EXCEPT !.pc = pc]
  BY TopAtFrames DEF MapsIInv
<1>2. Moved(caller[n], pc)
  BY <1>1, StackIs DEF Moved
<1>3. \/ stack' = caller /\ ret' = FALSE
      \/ Pushes(caller, p, e, type, arg) /\ Waits(p, e, stack'[Len(caller) + 1])
  BY <1>1, SendWaits DEF MapsIInv
<1> HIDE DEF n, caller
<1>4. CASE stack' = caller /\ ret' = FALSE
  BY <1>1, <1>2, <1>4 DEF FailsAt, n
<1>5. CASE Pushes(caller, p, e, type, arg) /\ Waits(p, e, stack'[Len(caller) + 1])
  <2>1. /\ Len(stack') = n + 1 /\ DOMAIN stack' = 1 .. n + 1
        /\ \A k \in 1 .. n : stack'[k] = caller[k]
        /\ Sent(p, e, type, arg, stack'[n + 1]) /\ Waits(p, e, stack'[n + 1])
    BY <1>1, <1>5 DEF Pushes
  <2>2. stack'[n] = caller[n] /\ \A k \in 1 .. n - 1 : stack'[k] = stack[k]
    BY <1>1, <2>1
  <2>3. Moved(stack'[n], pc)
    BY <1>2, <2>2
  <2>4. Fresh(p, e, type, arg, stack'[n + 1])
    BY <2>1, PushIsFresh
  <2> QED
    BY <2>1, <2>2, <2>3, <2>4 DEF Nests, n
<1> QED
  BY <1>3, <1>4, <1>5

\* The two ends of a send of the driver's.
LEMMA DriverSends ==
  ASSUME MapsIInv, NEW p \in Procs, NEW e, NEW type, NEW arg, Send(<<>>, p, e, type, arg)
  PROVE  Begins(p, e, type, arg)
<1>1. IsStack(<<>>) /\ Len(<<>>) = 0
  <2>1. DOMAIN <<>> = {}
    OBVIOUS
  <2> QED
    BY <2>1, EmptySeq DEF IsStack
<1>2. \/ stack' = <<>> /\ ret' = FALSE
      \/ Pushes(<<>>, p, e, type, arg) /\ Waits(p, e, stack'[Len(<<>>) + 1])
  BY <1>1, SendWaits DEF MapsIInv
<1>3. CASE Pushes(<<>>, p, e, type, arg) /\ Waits(p, e, stack'[Len(<<>>) + 1])
  <2>1. /\ Len(stack') = 1 /\ DOMAIN stack' = 1 .. 1
        /\ Sent(p, e, type, arg, stack'[1]) /\ Waits(p, e, stack'[1])
    BY <1>1, <1>3 DEF Pushes
  <2> QED
    BY <2>1, PushIsFresh DEF Begins
<1> QED
  BY <1>2, <1>3 DEF Begins

\* A return.
LEMMA HandlerReturns ==
  ASSUME MapsIInv, stack # <<>>, NEW b, Return(b)
  PROVE  Returns(b)
<1>1. /\ Len(stack) \in Nat \ {0} /\ stack' = Below /\ ret' = b
      /\ IsStack(Below) /\ DOMAIN Below = 1 .. Len(stack) - 1
      /\ \A k \in 1 .. Len(stack) - 1 : Below[k] = stack[k]
  BY BelowFrames DEF MapsIInv, RevIInv, Return
<1>2. Len(Below) = Len(stack) - 1
  <2>1. Len(Below) \in Nat /\ DOMAIN Below = 1 .. Len(Below)
    BY <1>1, StackIsSeq
  <2> QED
    BY <1>1, <2>1, IntervalLength
<1> QED
  BY <1>1, <1>2 DEF Returns
-----------------------------------------------------------------------------
(***************************************************************************)
(* How the messages nest: the driver's call starts a registration or a       *)
(* look-up of the map, and what a handler sends it sends at one point.       *)
(***************************************************************************)
\* What a message of a type carries, and the control points of its handler.
Carries(type, arg, pc) ==
  \/ type = "MDSREG" /\ arg \in Nat /\ pc \in {"call", "ack", "bcast"}
  \/ type = "MDSREGACK" /\ arg \in Nat /\ pc = "call"
  \/ type = "MDSMAPUPDATE" /\ IsRankMap(arg) /\ pc \in {"call", "tail"}
  \/ type = "FINDMDS" /\ pc \in {"call", "tail"}
  \/ type = "FINDMDSACK" /\ IsRankMap(arg) /\ pc = "call"
  \/ type = "MDSMAPUPDATEACK" /\ pc = "call"

\* The ends of a send.
Ends(f) ==
  /\ f.by \in Procs /\ f.to \in Procs
  /\ f.src = Entity(HostOf[f.by], f.src.port)
  /\ f.src.host = HostOf[f.by] /\ f.src.port \in Nat

\* What a handler of type "in" sends at pc.
SentAt(type, in, pc) ==
  \/ type = "MDSREGACK" /\ in = "MDSREG" /\ pc = "ack"
  \/ type = "MDSMAPUPDATE" /\ in = "MDSREG" /\ pc = "bcast"
  \/ type = "MDSMAPUPDATEACK" /\ in = "MDSMAPUPDATE" /\ pc = "tail"
  \/ type = "FINDMDSACK" /\ in = "FINDMDS" /\ pc = "tail"

FrameFits(s, k) ==
  /\ Ends(s[k]) /\ Carries(s[k].type, s[k].arg, s[k].pc)
  /\ IF k = 1 THEN s[k].type \in {"MDSREG", "FINDMDS"}
     ELSE SentAt(s[k].type, s[k - 1].type, s[k - 1].pc)

StackFits(s) == \A k \in DOMAIN s : FrameFits(s, k)

\* An entity of a host leads to a process or to nobody.
LEMMA DispatchIsProc ==
  ASSUME NEW smap, NEW rev,
         \A h \in Hosts : \A i \in DOMAIN smap[h] : smap[h][i] \in Procs,
         \A h \in Hosts : \A i \in DOMAIN rev[h] : rev[h][i] \in Procs,
         NEW e, e.host \in Hosts
  PROVE  Dispatch(smap, rev, e) \in Procs \cup {Nil}
BY DEF Dispatch

\* The services that listen are processes.
LEMMA ListenersAreProcs ==
  ASSUME ServiceTypes, NEW h \in Hosts, NEW i \in DOMAIN service_map[h]
  PROVE  service_map[h][i] \in Procs
BY ProcsAssumption DEF ServiceTypes, IsPortTable

\* The new frame has its ends among the processes.
LEMMA FreshEnds ==
  ASSUME RevIInv', ServiceTypes', \A k \in DOMAIN stack' : stack'[k].by \in Procs,
         NEW p \in Procs, NEW e, e.host \in Hosts, NEW type, NEW arg, NEW f,
         Fresh(p, e, type, arg, f)
  PROVE  Ends(f)
<1>1. \A h \in Hosts : \A i \in DOMAIN service_map'[h] : service_map'[h][i] \in Procs
  BY ProcsAssumption DEF ServiceTypes, IsPortTable
<1>2. \A h \in Hosts : \A i \in DOMAIN proc_revmap'[h] : proc_revmap'[h][i] \in Procs
  BY DEF RevIInv, RevPortOwners
<1>3. f.to \in Procs
  <2>1. f.to = Dispatch(service_map', proc_revmap', e) /\ f.to # Nil
    BY DEF Fresh, Waits
  <2>2. Dispatch(service_map', proc_revmap', e) \in Procs \cup {Nil}
    BY <1>1, <1>2, DispatchIsProc
  <2> QED
    BY <2>1, <2>2
<1>4. f.by = p /\ f.src = Entity(HostOf[p], f.src.port) /\ f.src.port \in RevPorts
  BY DEF Fresh, Waits
<1> QED
  BY <1>3, <1>4 DEF Ends, Entity, RevPorts

\* The frame at the top fits with what it sends.
LEMMA MovedFits ==
  ASSUME StackFits(stack), NEW n \in Nat \ {0}, n = Len(stack), DOMAIN stack = 1 .. n, Top = stack[n],
         NEW s, \A k \in 1 .. n - 1 : s[k] = stack[k], NEW pc, Moved(s[n], pc),
         Carries(Top.type, Top.arg, pc)
  PROVE  \A k \in 1 .. n : FrameFits(s, k)
<1> SUFFICES ASSUME NEW k \in 1 .. n PROVE FrameFits(s, k)
  OBVIOUS
<1>1. FrameFits(stack, k)
  BY DEF StackFits
<1>2. CASE k = n
  <2>1. k # 1 => s[k - 1] = stack[k - 1]
    BY <1>2
  <2>2. /\ s[k].type = stack[k].type /\ s[k].by = stack[k].by /\ s[k].src = stack[k].src
        /\ s[k].to = stack[k].to /\ s[k].arg = stack[k].arg /\ s[k].pc = pc
    BY <1>2 DEF Moved
  <2>3. Carries(s[k].type, s[k].arg, s[k].pc)
    BY <1>2, <2>2
  <2> QED
    BY <1>1, <2>1, <2>2, <2>3 DEF FrameFits, Ends
<1>3. CASE k # n
  <2>1. s[k] = stack[k] /\ (k # 1 => s[k - 1] = stack[k - 1])
    BY <1>3
  <2> QED
    BY <1>1, <2>1 DEF FrameFits
<1> QED
  BY <1>2, <1>3

\* A send that has failed leaves a stack that fits.
LEMMA FailsFits ==
  ASSUME MapsIInv, StackFits(stack), stack # <<>>, NEW pc, Carries(Top.type, Top.arg, pc),
         FailsAt(pc)
  PROVE  StackFits(stack')
<1>1. PICK n \in Nat \ {0} : n = Len(stack) /\ DOMAIN stack = 1 .. n /\ Top = stack[n]
  BY StackIs
<1>2. /\ DOMAIN stack' = 1 .. n /\ \A k \in 1 .. n - 1 : stack'[k] = stack[k]
      /\ Moved(stack'[n], pc)
  BY <1>1 DEF FailsAt
<1>3. PICK s : s = stack'
  OBVIOUS
<1>4. \A k \in 1 .. n : FrameFits(s, k)
  BY <1>1, <1>2, <1>3, MovedFits
<1> QED
  BY <1>2, <1>3, <1>4 DEF StackFits

\* So does one that nests a call,
LEMMA NestsFits ==
  ASSUME MapsIInv, RevIInv', ServiceTypes', StackFits(stack), stack # <<>>,
         NEW p \in Procs, NEW e, e.host \in Hosts, NEW type, NEW arg, NEW pc,
         Carries(Top.type, Top.arg, pc), Carries(type, arg, "call"), SentAt(type, Top.type, pc),
         Nests(p, e, type, arg, pc)
  PROVE  StackFits(stack')
<1>1. PICK n \in Nat \ {0} : n = Len(stack) /\ DOMAIN stack = 1 .. n /\ Top = stack[n]
  BY StackIs
<1>2. /\ DOMAIN stack' = 1 .. n + 1 /\ \A k \in 1 .. n - 1 : stack'[k] = stack[k]
      /\ Moved(stack'[n], pc) /\ Fresh(p, e, type, arg, stack'[n + 1])
  BY <1>1 DEF Nests
<1>3. PICK s : s = stack'
  OBVIOUS
<1>4. \A k \in 1 .. n : FrameFits(s, k)
  BY <1>1, <1>2, <1>3, MovedFits
<1>5. \A k \in 1 .. n : s[k].by \in Procs
  BY <1>4 DEF FrameFits, Ends
<1>6. s[n + 1].by = p
  BY <1>2, <1>3 DEF Fresh
<1>7. \A k \in 1 .. n + 1 : k = n + 1 \/ k \in 1 .. n
  BY <1>1
<1>8. \A k \in DOMAIN stack' : stack'[k].by \in Procs
  BY <1>2, <1>3, <1>5, <1>6, <1>7
<1>9. Ends(s[n + 1])
  BY <1>2, <1>3, <1>8, FreshEnds
<1>10. FrameFits(s, n + 1)
  <2>1. s[n + 1].type = type /\ s[n + 1].arg = arg /\ s[n + 1].pc = "call"
    BY <1>2, <1>3 DEF Fresh
  <2>2. (n + 1) - 1 = n /\ n + 1 # 1
    BY <1>1
  <2>3. s[n].type = Top.type /\ s[n].pc = pc
    BY <1>2, <1>3 DEF Moved
  <2> QED
    BY <1>9, <2>1, <2>2, <2>3 DEF FrameFits
<1> QED
  BY <1>2, <1>3, <1>4, <1>7, <1>10 DEF StackFits

\* a return,
LEMMA ReturnsFits ==
  ASSUME MapsIInv, StackFits(stack), stack # <<>>, NEW b, Returns(b)
  PROVE  StackFits(stack')
<1>1. PICK n \in Nat \ {0} : n = Len(stack) /\ DOMAIN stack = 1 .. n
  BY StackIs
<1>2. DOMAIN stack' = 1 .. n - 1 /\ \A k \in 1 .. n - 1 : stack'[k] = stack[k]
  BY <1>1 DEF Returns
<1>3. ASSUME NEW k \in 1 .. n - 1 PROVE FrameFits(stack', k)
  <2>1. k \in DOMAIN stack /\ stack'[k] = stack[k] /\ (k # 1 => stack'[k - 1] = stack[k - 1])
    BY <1>1, <1>2
  <2>2. FrameFits(stack, k)
    BY <2>1 DEF StackFits
  <2> QED
    BY <2>1, <2>2 DEF FrameFits
<1> QED
  BY <1>2, <1>3 DEF StackFits

\* and a call of the driver's.
LEMMA BeginsFits ==
  ASSUME RevIInv', ServiceTypes', NEW p \in Procs, NEW e, e.host \in Hosts, NEW type, NEW arg,
         Carries(type, arg, "call"), type \in {"MDSREG", "FINDMDS"}, Begins(p, e, type, arg)
  PROVE  StackFits(stack')
<1>1. CASE stack' = <<>>
  BY <1>1 DEF StackFits
<1>2. CASE Len(stack') = 1 /\ DOMAIN stack' = 1 .. 1 /\ Fresh(p, e, type, arg, stack'[1])
  <2>1. /\ stack'[1].type = type /\ stack'[1].arg = arg /\ stack'[1].pc = "call"
        /\ stack'[1].by = p
    BY <1>2 DEF Fresh
  <2>2. Ends(stack'[1])
    <3>1. \A k \in DOMAIN stack' : stack'[k].by \in Procs
      BY <1>2, <2>1
    <3> QED
      BY <1>2, <3>1, FreshEnds
  <2> QED
    BY <1>2, <2>1, <2>2 DEF StackFits, FrameFits
<1> QED
  BY <1>1, <1>2 DEF Begins

\* The maps of ranks, the monitor's and the copies.
RankMaps ==
  /\ IsRankMap(mds_active_list)
  /\ \A m \in MDSs : IsRankMap(mds_map[m])
  /\ \A c \in Clients : IsRankMap(mdsmap[c])

Scalars ==
  /\ bcast \in Nat \cup {NoPort}
  /\ whoami \in [MDSs -> Nat \cup {Nil}]
  /\ connecting \in Clients \cup {Nil}

Booleans == ret \in BOOLEAN /\ connected \in [Clients -> BOOLEAN]

\* The inductive invariant of the types.
TypesIInv == MapsIInv /\ ServiceTypes /\ StackFits(stack) /\ RankMaps /\ Scalars /\ Booleans

\* The broadcast goes on with the lowest rank it has not sent to.
LEMMA LowestUnsentIs ==
  ASSUME RanksIInv, Unsent # {}
  PROVE  /\ LowestUnsent \in Unsent /\ LowestUnsent \in DOMAIN mds_active_list
         /\ LowestUnsent \in Nat /\ \A q \in Unsent : LowestUnsent <= q
<1>1. Unsent \in SUBSET (DOMAIN mds_active_list) /\ DOMAIN mds_active_list \subseteq Nat
  BY NewRankIsSize DEF Unsent
<1>2. \E r \in Unsent : \A q \in Unsent : r <= q
  BY <1>1, LeastExists
<1>3. LowestUnsent \in Unsent /\ \A q \in Unsent : LowestUnsent <= q
  BY <1>2 DEF LowestUnsent
<1> QED
  BY <1>1, <1>3

\* What the top frame is, by the point its handler is at.
LEMMA TopFits ==
  ASSUME MapsIInv, StackFits(stack), stack # <<>>
  PROVE  /\ Ends(Top) /\ Carries(Top.type, Top.arg, Top.pc)
         /\ Top.src.host \in Hosts
         /\ Top.pc \in {"ack", "bcast"} => Top.type = "MDSREG"
         /\ Top.type \in {"MDSREG", "FINDMDS"} => Len(stack) = 1
         /\ Top.type \in {"MDSREGACK", "MDSMAPUPDATE", "FINDMDSACK"} => Len(stack) = 2
         /\ Top.type = "MDSMAPUPDATEACK" => Len(stack) = 3
<1>1. PICK n \in Nat \ {0} : n = Len(stack) /\ DOMAIN stack = 1 .. n /\ Top = stack[n]
  BY StackIs
<1>2. \A k \in 1 .. n : FrameFits(stack, k)
  BY <1>1 DEF StackFits
<1>3. Ends(Top) /\ Carries(Top.type, Top.arg, Top.pc)
  BY <1>1, <1>2 DEF FrameFits
<1>4. Top.src.host \in Hosts /\ (Top.pc \in {"ack", "bcast"} => Top.type = "MDSREG")
  BY <1>3, HostsAssumption DEF Ends, Carries
<1>5. Top.type \in {"MDSREG", "FINDMDS"} => n = 1
  BY <1>1, <1>2 DEF FrameFits, SentAt
<1>6. ASSUME NEW k \in 1 .. n, stack[k].type \in {"MDSREG", "FINDMDS"} PROVE k = 1
  BY <1>2, <1>6 DEF FrameFits, SentAt
<1>7. ASSUME NEW k \in 1 .. n, stack[k].type \in {"MDSREGACK", "MDSMAPUPDATE", "FINDMDSACK"} PROVE k = 2
  <2>1. k # 1 /\ SentAt(stack[k].type, stack[k - 1].type, stack[k - 1].pc)
    BY <1>2, <1>7 DEF FrameFits
  <2>2. k - 1 \in 1 .. n /\ stack[k - 1].type \in {"MDSREG", "FINDMDS"}
    BY <1>7, <2>1 DEF SentAt
  <2> QED
    BY <1>6, <2>2
<1>8. ASSUME Top.type = "MDSMAPUPDATEACK" PROVE n = 3
  <2>1. n # 1 /\ SentAt(stack[n].type, stack[n - 1].type, stack[n - 1].pc)
    BY <1>1, <1>2, <1>8 DEF FrameFits
  <2>2. n - 1 \in 1 .. n /\ stack[n - 1].type = "MDSMAPUPDATE"
    BY <1>1, <1>8, <2>1 DEF SentAt
  <2> QED
    BY <1>7, <2>2
<1> QED
  BY <1>1, <1>3, <1>4, <1>5, <1>7, <1>8

\* Every step keeps the stack fitting.
LEMMA NextKeepsFits ==
  ASSUME TypesIInv, [Next]_vars
  PROVE  StackFits(stack')
<1>1. /\ RevIInv' /\ ServiceTypes' /\ MapsIInv /\ StackFits(stack) /\ RanksIInv
      /\ Mon \in Procs /\ MDSs \subseteq Procs /\ Clients \subseteq Procs
  BY NextKeepsOwners, NextKeepsServiceTypes, ProcsType DEF TypesIInv, MapsIInv
<1>2. monitors # <<>> => monitors[1].host \in Hosts
  <2>1. monitors \in Seq(EntityType)
    BY DEF TypesIInv, ServiceTypes
  <2>2. monitors # <<>> => monitors[1] \in EntityType
    BY <2>1, HeadTailProperties
  <2> QED
    BY <2>2 DEF EntityType
<1>3. CASE UNCHANGED stack
  BY <1>1, <1>3
<1>4. ASSUME NEW m \in MDSs, Start(m) PROVE StackFits(stack')
  <2>1. /\ Send(<<>>, m, monitors[1], "MDSREG", port'[m]) /\ monitors # <<>>
        /\ RegisterService(m) /\ m \in Services /\ m \in Procs
    BY <1>1, <1>4 DEF Start, Services
  <2>2. port'[m] \in Nat
    BY <2>1, RegisterKeepsTypes DEF TypesIInv
  <2>3. Begins(m, monitors[1], "MDSREG", port'[m])
    BY <1>1, <2>1, DriverSends
  <2>4. Carries("MDSREG", port'[m], "call")
    BY <2>2 DEF Carries
  <2> QED
    BY <1>1, <1>2, <2>1, <2>3, <2>4, BeginsFits
<1>5. ASSUME NEW c \in Clients, Connect(c) PROVE StackFits(stack')
  <2>1. Send(<<>>, c, monitors[1], "FINDMDS", Nil) /\ monitors # <<>> /\ c \in Procs
    BY <1>1, <1>5 DEF Connect
  <2>2. Begins(c, monitors[1], "FINDMDS", Nil)
    BY <1>1, <2>1, DriverSends
  <2>3. Carries("FINDMDS", Nil, "call")
    BY DEF Carries
  <2> QED
    BY <1>1, <1>2, <2>1, <2>2, <2>3, BeginsFits
<1>6. ASSUME NEW b, stack # <<>>, Return(b) PROVE StackFits(stack')
  BY <1>1, <1>6, HandlerReturns, ReturnsFits
<1>7. ASSUME stack # <<>>, NEW p \in Procs, NEW e, e.host \in Hosts, NEW type, NEW arg, NEW pc,
             Carries(Top.type, Top.arg, pc), Carries(type, arg, "call"), SentAt(type, Top.type, pc),
             Send(TopAt(pc), p, e, type, arg)
      PROVE  StackFits(stack')
  <2>1. FailsAt(pc) \/ Nests(p, e, type, arg, pc)
    BY <1>1, <1>7, HandlerSends
  <2> QED
    BY <1>1, <1>7, <2>1, FailsFits, NestsFits
<1>8. CASE HandleMDSRegister
  <2>1. /\ stack # <<>> /\ Top.type = "MDSREG"
        /\ Send(TopAt("ack"), Mon, Top.src, "MDSREGACK", NewRank)
    BY <1>8 DEF HandleMDSRegister, Called
  <2>2. Carries(Top.type, Top.arg, Top.pc) /\ Top.src.host \in Hosts /\ NewRank \in Nat
    BY <1>1, <2>1, TopFits, NewRankIsSize
  <2>3. /\ Carries(Top.type, Top.arg, "ack") /\ Carries("MDSREGACK", NewRank, "call")
        /\ SentAt("MDSREGACK", Top.type, "ack")
    BY <2>1, <2>2 DEF Carries, SentAt
  <2> QED
    BY <1>1, <1>7, <2>1, <2>2, <2>3
<1>9. CASE BroadcastMap
  <2> DEFINE e == mds_active_list[LowestUnsent]
  <2>1. /\ stack # <<>> /\ Top.pc \in {"ack", "bcast"} /\ Unsent # {}
        /\ Send(TopAt("bcast"), Mon, e, "MDSMAPUPDATE", mds_active_list)
    BY <1>9 DEF BroadcastMap, Resumed
  <2>2. Carries(Top.type, Top.arg, Top.pc) /\ Top.type = "MDSREG"
    BY <1>1, <2>1, TopFits
  <2>3. IsRankMap(mds_active_list) /\ e.host \in Hosts
    BY <1>1, <2>1, LowestUnsentIs DEF TypesIInv, RankMaps, IsRankMap
  <2> HIDE DEF e
  <2>4. /\ Carries(Top.type, Top.arg, "bcast") /\ Carries("MDSMAPUPDATE", mds_active_list, "call")
        /\ SentAt("MDSMAPUPDATE", Top.type, "bcast")
    BY <2>2, <2>3 DEF Carries, SentAt
  <2> QED
    BY <1>1, <1>7, <2>1, <2>3, <2>4
<1>10. CASE HandleFindMDS
  <2>1. /\ stack # <<>> /\ Top.type = "FINDMDS"
        /\ Send(TopAt("tail"), Mon, Top.src, "FINDMDSACK", mds_active_list)
    BY <1>10 DEF HandleFindMDS, Called
  <2>2. Top.src.host \in Hosts /\ IsRankMap(mds_active_list)
    BY <1>1, <2>1, TopFits DEF TypesIInv, RankMaps
  <2>3. /\ Carries(Top.type, Top.arg, "tail") /\ Carries("FINDMDSACK", mds_active_list, "call")
        /\ SentAt("FINDMDSACK", Top.type, "tail")
    BY <2>1, <2>2 DEF Carries, SentAt
  <2> QED
    BY <1>1, <1>7, <2>1, <2>2, <2>3
<1>11. ASSUME NEW m \in MDSs, HandleMDSMapUpdate(m) PROVE StackFits(stack')
  <2>1. /\ stack # <<>> /\ Top.type = "MDSMAPUPDATE" /\ m \in Procs
        /\ Send(TopAt("tail"), m, Top.src, "MDSMAPUPDATEACK", Nil)
    BY <1>1, <1>11 DEF HandleMDSMapUpdate, Called
  <2>2. Top.src.host \in Hosts /\ Carries(Top.type, Top.arg, Top.pc)
    BY <1>1, <2>1, TopFits
  <2>3. /\ Carries(Top.type, Top.arg, "tail") /\ Carries("MDSMAPUPDATEACK", Nil, "call")
        /\ SentAt("MDSMAPUPDATEACK", Top.type, "tail")
    BY <2>1, <2>2 DEF Carries, SentAt
  <2> QED
    BY <1>7, <2>1, <2>2, <2>3
<1>12. \/ UNCHANGED stack
       \/ (\E m \in MDSs : Start(m) \/ HandleMDSMapUpdate(m)) \/ (\E c \in Clients : Connect(c))
       \/ HandleMDSRegister \/ BroadcastMap \/ HandleFindMDS
       \/ \E b : stack # <<>> /\ Return(b)
  BY DEF Next, Step, vars, msgVars, StartMon, Stop, ConnectAgain, ConnectReturns, EndMDSRegister,
         HandleMDSMapUpdateAck, HandleMDSRegAck, HandleFindMDSAck, HandleUnknown, HandleReturn,
         ReturnTail, Called, Resumed
<1> QED
  BY <1>3, <1>4, <1>5, <1>6, <1>8, <1>9, <1>10, <1>11, <1>12

\* Every map is a map of ranks: an entry more in the monitor's, and what is
\* sent of it and stored.
LEMMA NextKeepsRankMaps ==
  ASSUME TypesIInv, [Next]_vars
  PROVE  RankMaps'
<1>1. MapsIInv /\ StackFits(stack) /\ RanksIInv /\ RankMaps
  BY DEF TypesIInv, MapsIInv
<1>2. CASE HandleMDSRegister
  <2> DEFINE e == Entity(Top.src.host, Top.arg)
  <2>1. /\ stack # <<>> /\ Top.type = "MDSREG" /\ mds_active_list' = Bind(mds_active_list, NewRank, e)
        /\ UNCHANGED <<mds_map, mdsmap>>
    BY <1>2 DEF HandleMDSRegister, Called, AddMDS, mdsVars, clientVars
  <2>2. Top.src.host \in Hosts /\ Top.arg \in Nat /\ NewRank \in Nat
    BY <1>1, <2>1, TopFits, NewRankIsSize DEF Carries
  <2>3. e.host \in Hosts /\ e.port \in Nat
    BY <2>2 DEF Entity
  <2> HIDE DEF e
  <2>4. IsFiniteSet(DOMAIN mds_active_list \cup {NewRank})
    BY <1>1, FS_AddElement DEF RanksIInv
  <2>5. IsRankMap(mds_active_list')
    BY <1>1, <2>1, <2>2, <2>3, <2>4 DEF RankMaps, IsRankMap, Bind
  <2> QED
    BY <1>1, <2>1, <2>5 DEF RankMaps
<1>3. ASSUME NEW m \in MDSs, HandleMDSMapUpdate(m) PROVE RankMaps'
  <2>1. /\ stack # <<>> /\ Top.type = "MDSMAPUPDATE" /\ mds_map' = [mds_map EXCEPT ![m] = Top.arg]
        /\ UNCHANGED <<mds_active_list, mdsmap>>
    BY <1>3 DEF HandleMDSMapUpdate, Called, monVars, clientVars
  <2>2. IsRankMap(Top.arg)
    BY <1>1, <2>1, TopFits DEF Carries
  <2>3. \A n \in MDSs : mds_map'[n] = IF n = m THEN Top.arg ELSE mds_map[n]
    BY <1>1, <2>1 DEF MapsIInv, EarlierMaps
  <2> QED
    BY <1>1, <2>1, <2>2, <2>3 DEF RankMaps
<1>4. ASSUME NEW c \in Clients, HandleFindMDSAck(c) PROVE RankMaps'
  <2>1. /\ stack # <<>> /\ Top.type = "FINDMDSACK" /\ mdsmap' = [mdsmap EXCEPT ![c] = Top.arg]
        /\ UNCHANGED <<mds_active_list, mds_map>>
    BY <1>4 DEF HandleFindMDSAck, Called, monVars, mdsVars
  <2>2. IsRankMap(Top.arg)
    BY <1>1, <2>1, TopFits DEF Carries
  <2>3. \A d \in Clients : mdsmap'[d] = IF d = c THEN Top.arg ELSE mdsmap[d]
    BY <1>1, <2>1 DEF MapsIInv, EarlierMaps
  <2> QED
    BY <1>1, <2>1, <2>2, <2>3 DEF RankMaps
<1>5. CASE UNCHANGED <<mds_active_list, mds_map, mdsmap>>
  BY <1>1, <1>5 DEF RankMaps
<1>6. \/ UNCHANGED <<mds_active_list, mds_map, mdsmap>> \/ HandleMDSRegister
      \/ \E m \in MDSs : HandleMDSMapUpdate(m)
      \/ \E c \in Clients : HandleFindMDSAck(c)
  BY DEF Next, Step, vars, monVars, mdsVars, clientVars, StartMon, Start, Stop, Connect,
         ConnectAgain, ConnectReturns, BroadcastMap, EndMDSRegister, HandleMDSMapUpdateAck,
         HandleFindMDS, HandleMDSRegAck, HandleUnknown, HandleReturn
<1> QED
  BY <1>2, <1>3, <1>4, <1>5, <1>6

\* The broadcast is at a rank, an MDS has one or none, and one client at a
\* time connects.
LEMMA NextKeepsScalars ==
  ASSUME TypesIInv, [Next]_vars
  PROVE  Scalars'
<1>1. MapsIInv /\ StackFits(stack) /\ RanksIInv /\ Scalars
  BY DEF TypesIInv, MapsIInv
<1>2. bcast' \in Nat \cup {NoPort}
  <2>1. CASE BroadcastMap
    BY <1>1, <2>1, LowestUnsentIs DEF BroadcastMap
  <2>2. CASE ~BroadcastMap
    <3>1. bcast' = bcast \/ bcast' = NoPort
      BY <2>2 DEF Next, Step, vars, monVars, StartMon, Start, Stop, Connect,
         ConnectAgain, ConnectReturns, HandleMDSRegister, EndMDSRegister, HandleMDSMapUpdateAck,
         HandleFindMDS, HandleMDSRegAck, HandleMDSMapUpdate, HandleFindMDSAck, HandleUnknown, HandleReturn
    <3> QED
      BY <1>1, <3>1 DEF Scalars
  <2> QED
    BY <2>1, <2>2
<1>3. whoami' \in [MDSs -> Nat \cup {Nil}]
  <2>1. ASSUME NEW m \in MDSs, HandleMDSRegAck(m) PROVE whoami' \in [MDSs -> Nat \cup {Nil}]
    <3>1. stack # <<>> /\ Top.type = "MDSREGACK" /\ whoami' = [whoami EXCEPT ![m] = Top.arg]
      BY <2>1 DEF HandleMDSRegAck, Called
    <3>2. Top.arg \in Nat
      BY <1>1, <3>1, TopFits DEF Carries
    <3> QED
      BY <1>1, <3>1, <3>2 DEF Scalars
  <2>2. UNCHANGED whoami \/ \E m \in MDSs : HandleMDSRegAck(m)
    BY DEF Next, Step, vars, mdsVars, StartMon, Start, Stop, Connect, ConnectAgain, ConnectReturns,
         HandleMDSRegister, BroadcastMap, EndMDSRegister, HandleMDSMapUpdateAck,
         HandleFindMDS, HandleMDSMapUpdate, HandleFindMDSAck, HandleUnknown, HandleReturn
  <2> QED
    BY <1>1, <2>1, <2>2 DEF Scalars
<1>4. connecting' \in Clients \cup {Nil}
  <2>1. connecting' \in {connecting, Nil} \/ \E c \in Clients : connecting' = c
    BY DEF Next, Step, vars, clientVars, StartMon, Start, Stop, Connect, ConnectAgain, ConnectReturns,
         HandleMDSRegister, BroadcastMap, EndMDSRegister, HandleMDSMapUpdateAck, HandleFindMDS,
         HandleMDSRegAck, HandleMDSMapUpdate, HandleFindMDSAck, HandleUnknown, HandleReturn
  <2> QED
    BY <1>1, <2>1 DEF Scalars
<1> QED
  BY <1>2, <1>3, <1>4 DEF Scalars

\* What a send or a return leaves is a boolean.
LEMMA SendIsBoolean ==
  ASSUME NEW caller, NEW p, NEW e, NEW type, NEW arg, Send(caller, p, e, type, arg)
  PROVE  ret' \in BOOLEAN
BY Zenon DEF Send

\* So is what a return leaves.
LEMMA ReturnIsBoolean == ASSUME NEW b \in BOOLEAN, Return(b) PROVE ret' \in BOOLEAN
BY Zenon DEF Return

\* All the program sets its result by is these two.
LEMMA RetIsBoolean ==
  ASSUME Booleans, [Next]_vars
  PROVE  ret' \in BOOLEAN
<1>1. ret \in BOOLEAN
  BY Zenon DEF Booleans
<1>2. ASSUME UNCHANGED ret PROVE ret' \in BOOLEAN
  BY <1>1, <1>2, Zenon
<1>3. ASSUME NEW caller, NEW p, NEW e, NEW type, NEW arg, Send(caller, p, e, type, arg)
      PROVE  ret' \in BOOLEAN
  BY <1>3, SendIsBoolean, Zenon
<1>4. ASSUME NEW b \in BOOLEAN, Return(b) PROVE ret' \in BOOLEAN
  BY <1>4, ReturnIsBoolean, Zenon
<1>5. ASSUME NEW m \in MDSs, Start(m) PROVE ret' \in BOOLEAN
  BY <1>3, <1>5, Zenon DEF Start
<1>6. ASSUME NEW c \in Clients, Connect(c) PROVE ret' \in BOOLEAN
  BY <1>3, <1>6, Zenon DEF Connect
<1>7. CASE HandleMDSRegister
  BY <1>3, <1>7, Zenon DEF HandleMDSRegister
<1>8. CASE BroadcastMap
  BY <1>3, <1>8, Zenon DEF BroadcastMap
<1>9. CASE EndMDSRegister
  BY <1>1, <1>4, <1>9, Zenon DEF EndMDSRegister
<1>10. CASE HandleMDSMapUpdateAck
  <2>1. TRUE \in BOOLEAN
    BY Zenon
  <2> QED
    BY <1>4, <1>10, <2>1, Zenon DEF HandleMDSMapUpdateAck
<1>11. CASE HandleFindMDS
  BY <1>3, <1>11, Zenon DEF HandleFindMDS
<1>12. ASSUME NEW m \in MDSs, HandleMDSRegAck(m) PROVE ret' \in BOOLEAN
  <2>1. TRUE \in BOOLEAN
    BY Zenon
  <2> QED
    BY <1>4, <1>12, <2>1, Zenon DEF HandleMDSRegAck
<1>13. ASSUME NEW m \in MDSs, HandleMDSMapUpdate(m) PROVE ret' \in BOOLEAN
  BY <1>3, <1>13, Zenon DEF HandleMDSMapUpdate
<1>14. ASSUME NEW c \in Clients, HandleFindMDSAck(c) PROVE ret' \in BOOLEAN
  <2>1. (DOMAIN Top.arg # {}) \in BOOLEAN
    BY Zenon
  <2> QED
    BY <1>4, <1>14, <2>1, Zenon DEF HandleFindMDSAck
<1>15. CASE HandleUnknown
  <2>1. FALSE \in BOOLEAN
    BY Zenon
  <2> QED
    BY <1>4, <1>15, <2>1, Zenon DEF HandleUnknown
<1>16. CASE HandleReturn
  BY <1>1, <1>4, <1>16, Zenon DEF HandleReturn, ReturnTail
<1>17. \/ UNCHANGED ret
       \/ HandleMDSRegister \/ BroadcastMap \/ EndMDSRegister \/ HandleMDSMapUpdateAck
       \/ HandleFindMDS \/ HandleUnknown \/ HandleReturn
       \/ \E m \in MDSs : Start(m) \/ HandleMDSRegAck(m) \/ HandleMDSMapUpdate(m)
       \/ \E c \in Clients : Connect(c) \/ HandleFindMDSAck(c)
  BY DEF Next, Step, vars, msgVars, StartMon, Stop, ConnectAgain, ConnectReturns
<1> QED
  BY <1>2, <1>5, <1>6, <1>7, <1>8, <1>9, <1>10, <1>11, <1>12, <1>13, <1>14, <1>15, <1>16, <1>17

\* A client's status is the result of its call.
LEMMA NextKeepsBooleans ==
  ASSUME Booleans, [Next]_vars
  PROVE  Booleans'
<1>1. connected' \in [Clients -> BOOLEAN]
  <2>1. ret \in BOOLEAN /\ connected \in [Clients -> BOOLEAN]
    BY Zenon DEF Booleans
  <2>2. UNCHANGED connected \/ \E c \in Clients : connected' = [connected EXCEPT ![c] = ret]
    BY DEF Next, Step, vars, clientVars, StartMon, Start, Stop, Connect, ConnectAgain, ConnectReturns,
         HandleMDSRegister, BroadcastMap, EndMDSRegister, HandleMDSMapUpdateAck, HandleFindMDS,
         HandleMDSRegAck, HandleMDSMapUpdate, HandleFindMDSAck, HandleUnknown, HandleReturn
  <2> QED
    BY <2>1, <2>2
<1> QED
  BY <1>1, RetIsBoolean, Zenon DEF Booleans

\* The types are an inductive invariant.
LEMMA NextKeepsTypes == TypesIInv /\ [Next]_vars => TypesIInv'
BY NextKeepsMaps, NextKeepsServiceTypes, NextKeepsFits, NextKeepsRankMaps, NextKeepsScalars,
   NextKeepsBooleans DEF TypesIInv

\* At first there is nothing that could be of a wrong type.
LEMMA InitTypes == Init => TypesIInv
<1> SUFFICES ASSUME Init PROVE TypesIInv
  OBVIOUS
<1>1. MapsIInv /\ ServiceTypes
  BY InitMaps, InitServiceTypes
<1>2. StackFits(stack)
  BY DEF Init, MessagingInit, StackFits
<1>3. IsRankMap(EmptyMap)
  <2>1. DOMAIN EmptyMap = {} /\ EmptyMap = [i \in {} |-> EmptyMap[i]]
    BY DEF EmptyMap
  <2> QED
    BY <2>1, FS_EmptySet DEF IsRankMap
<1>4. RankMaps
  BY <1>3 DEF Init, RankMaps
<1>5. Scalars
  BY DEF Init, Scalars
<1>6. Booleans
  <2>1. ret = TRUE /\ connected = [c \in Clients |-> FALSE]
    BY DEF Init, MessagingInit
  <2> QED
    BY <2>1 DEF Booleans
<1> QED
  BY <1>1, <1>2, <1>4, <1>5, <1>6 DEF TypesIInv

\* While a cluster forms every variable and every message has its type, for
\* any hosts, services and clients and however often it is upset.
THEOREM TypesHold == Spec => []TypeOK
<1>1. TypesIInv => TypeOK
  <2> SUFFICES ASSUME TypesIInv PROVE TypeOK
    OBVIOUS
  <2>1. /\ RevIInv /\ ServiceTypes /\ StackFits(stack) /\ RankMaps /\ Scalars /\ Booleans
        /\ \A k \in DOMAIN stack : Ends(stack[k]) /\ Carries(stack[k].type, stack[k].arg, stack[k].pc)
    BY DEF TypesIInv, MapsIInv, StackFits, FrameFits
  <2>2. \A h \in Hosts : IsPortTable(proc_revmap[h], RevBase, Procs)
    <3>1. \A h \in Hosts : \A i \in DOMAIN proc_revmap[h] : proc_revmap[h][i] \in Procs
      BY <2>1 DEF RevIInv, RevPortOwners, Ends
    <3> QED
      BY <2>1, <3>1, RevBaseAssumption DEF RevIInv, RevTables, RevPorts, IsPortTable
  <2>3. \A i \in DOMAIN monitors : monitors[i].host \in Hosts /\ monitors[i].port \in Nat
    <3>1. \A i \in DOMAIN monitors : monitors[i] \in EntityType
      BY <2>1, ElementOfSeq DEF ServiceTypes
    <3> QED
      BY <3>1 DEF EntityType
  <2>4. ret \in BOOLEAN /\ connected \in [Clients -> BOOLEAN]
    BY <2>1, Zenon DEF Booleans
  <2>5. \A k \in DOMAIN stack :
          LET f == stack[k]
          IN /\ f.by \in Procs /\ f.to \in Procs
             /\ f.src.host = HostOf[f.by] /\ f.src.port \in Nat
             /\ CASE f.type = "MDSREG" -> f.arg \in Nat /\ f.pc \in {"call", "ack", "bcast"}
                  [] f.type = "MDSREGACK" -> f.arg \in Nat /\ f.pc = "call"
                  [] f.type = "MDSMAPUPDATE" -> IsRankMap(f.arg) /\ f.pc \in {"call", "tail"}
                  [] f.type = "FINDMDS" -> f.pc \in {"call", "tail"}
                  [] f.type = "FINDMDSACK" -> IsRankMap(f.arg) /\ f.pc = "call"
                  [] f.type = "MDSMAPUPDATEACK" -> f.pc = "call"
    BY <2>1 DEF Ends, Carries
  <2> QED
    BY <2>1, <2>2, <2>3, <2>4, <2>5 DEF TypeOK, ServiceTypes, RankMaps, Scalars
<1> QED
  BY <1>1, InitTypes, NextKeepsTypes, PTL DEF Spec
-----------------------------------------------------------------------------
(***************************************************************************)
(* Service ports stay below the reverse ports: a host has no more of them    *)
(* than services that run, and one more for every upset.  So no service      *)
(* hides a process that waits for an answer.                                *)
(***************************************************************************)
ServicesOf(h) == {s \in Services : HostOf[s] = h}

RunningOn(h) == {s \in ServicesOf(h) : st[s] = "RUNNING"}

\* No host has more service ports than that, and none is a reverse port.
LowTables ==
  \A h \in Hosts :
    /\ Cardinality(DOMAIN service_map[h]) <= Cardinality(RunningOn(h)) + upsets
    /\ \A i \in DOMAIN service_map[h] : i < RevBase

\* Nor is a port at which an MDS registers.
LowLists ==
  /\ \A r \in DOMAIN mds_active_list : mds_active_list[r].port < RevBase
  /\ \A k \in DOMAIN stack : stack[k].type = "MDSREG" => stack[k].arg < RevBase

\* There are finitely many services of a host.
LEMMA ServicesAreFinite ==
  ASSUME NEW h
  PROVE  /\ IsFiniteSet(ServicesOf(h)) /\ IsFiniteSet(RunningOn(h))
         /\ Cardinality(ServicesOf(h)) \in Nat /\ Cardinality(RunningOn(h)) \in Nat
         /\ Cardinality(RunningOn(h)) <= Cardinality(ServicesOf(h))
<1>1. IsFiniteSet(ServicesOf(h))
  BY FS_Subset, ProcsAssumption DEF ServicesOf
<1>2. RunningOn(h) \in SUBSET ServicesOf(h)
  BY DEF RunningOn
<1> QED
  BY <1>1, <1>2, FS_Subset, FS_CardinalityType

\* The port of a service that is registered is below the reverse ports, and
\* the table grows by that one.
LEMMA RegisterKeepsLow ==
  ASSUME ServiceTypes, LowTables, NEW s \in Services, RegisterService(s)
  PROVE  LowTables' /\ port'[s] < RevBase
<1> DEFINE h == HostOf[s]
           m == service_map[h]
           p == FreePort(m, 0)
<1>1. /\ h \in Hosts /\ p \in 0 .. Cardinality(DOMAIN m) /\ p \in Nat /\ p \notin DOMAIN m
      /\ port' = [port EXCEPT ![s] = p]
      /\ service_map' = [g \in Hosts |-> IF g = h THEN Bind(m, p, s) ELSE service_map[g]]
  BY RegisterIs
<1>2. /\ IsFiniteSet(DOMAIN m) /\ Cardinality(DOMAIN m) \in Nat
      /\ upsets \in Nat /\ MaxUpsets \in Nat /\ upsets <= MaxUpsets /\ RevBase \in Nat
  BY <1>1, FS_CardinalityType, MaxUpsetsAssumption, RevBaseAssumption DEF ServiceTypes, IsPortTable
<1>3. /\ Cardinality(DOMAIN m) <= Cardinality(RunningOn(h)) + upsets
      /\ \A i \in DOMAIN m : i < RevBase
  BY <1>1 DEF LowTables
<1>4. Cardinality(ServicesOf(h)) + MaxUpsets <= RevBase
  BY <1>1, ServicePortsAssumption DEF ServicesOf
<1>5. st' = [st EXCEPT ![s] = "RUNNING"] /\ st \in [Services -> {"LOADED", "RUNNING", "STOPPED"}]
  BY DEF RegisterService, ServiceTypes
<1>6. s \in ServicesOf(h)
  BY DEF ServicesOf
<1>7. RunningOn(h)' = RunningOn(h) \cup {s} /\ \A g \in Hosts \ {h} : RunningOn(g)' = RunningOn(g)
  BY <1>5, <1>6 DEF RunningOn, ServicesOf
<1>8. /\ IsFiniteSet(RunningOn(h)) /\ IsFiniteSet(ServicesOf(h))
      /\ Cardinality(RunningOn(h)) \in Nat /\ Cardinality(ServicesOf(h)) \in Nat
      /\ Cardinality(RunningOn(h)) <= Cardinality(ServicesOf(h))
  BY ServicesAreFinite
<1>9. /\ p < RevBase
      /\ upsets' \in Nat /\ upsets <= upsets'
      /\ Cardinality(DOMAIN m) + 1 <= Cardinality(RunningOn(h)') + upsets'
  <2>1. CASE st[s] = "RUNNING"
    <3>1. upsets < MaxUpsets /\ upsets' = upsets + 1
      BY <2>1 DEF RegisterService, Upset, MayUpset
    <3>2. s \in RunningOn(h)
      BY <1>6, <2>1 DEF RunningOn
    <3>3. RunningOn(h)' = RunningOn(h)
      BY <1>7, <3>2
    <3> HIDE DEF h, m, p
    <3> QED
      BY <1>1, <1>2, <1>3, <1>4, <1>8, <3>1, <3>3
  <2>2. CASE st[s] # "RUNNING"
    <3>1. upsets' = upsets
      BY <2>2 DEF RegisterService
    <3>2. s \notin RunningOn(h)
      BY <2>2 DEF RunningOn
    <3>3. Cardinality(RunningOn(h)') = Cardinality(RunningOn(h)) + 1
      BY <1>7, <1>8, <3>2, FS_AddElement
    <3>4. Cardinality(RunningOn(h)') <= Cardinality(ServicesOf(h))
      <4>1. RunningOn(h)' \in SUBSET ServicesOf(h)
        BY <1>6, <1>7 DEF RunningOn
      <4> QED
        BY <1>8, <4>1, FS_Subset
    <3> HIDE DEF h, m, p
    <3> QED
      BY <1>1, <1>2, <1>3, <1>4, <1>8, <3>1, <3>3, <3>4
  <2> QED
    BY <2>1, <2>2
<1>10. port'[s] < RevBase
  BY <1>1, <1>9 DEF ServiceTypes
<1>11. Cardinality(DOMAIN service_map'[h]) = Cardinality(DOMAIN m) + 1
  <2>1. DOMAIN service_map'[h] = DOMAIN m \cup {p}
    BY <1>1 DEF Bind
  <2> QED
    BY <1>1, <1>2, <2>1, FS_AddElement
<1>12. \A i \in DOMAIN service_map'[h] : i < RevBase
  BY <1>1, <1>3, <1>9 DEF Bind
<1>13. ASSUME NEW g \in Hosts \ {h}
       PROVE  /\ Cardinality(DOMAIN service_map'[g]) <= Cardinality(RunningOn(g)') + upsets'
              /\ \A i \in DOMAIN service_map'[g] : i < RevBase
  <2>1. service_map'[g] = service_map[g] /\ RunningOn(g)' = RunningOn(g)
    BY <1>1, <1>7
  <2>2. /\ Cardinality(DOMAIN service_map[g]) <= Cardinality(RunningOn(g)) + upsets
        /\ \A i \in DOMAIN service_map[g] : i < RevBase
    BY DEF LowTables
  <2>3. Cardinality(DOMAIN service_map[g]) \in Nat /\ Cardinality(RunningOn(g)) \in Nat
    BY FS_CardinalityType, ServicesAreFinite DEF ServiceTypes, IsPortTable
  <2> QED
    BY <1>2, <1>9, <2>1, <2>2, <2>3
<1> HIDE DEF h, m, p
<1>14. \A g \in Hosts :
         /\ Cardinality(DOMAIN service_map'[g]) <= Cardinality(RunningOn(g)') + upsets'
         /\ \A i \in DOMAIN service_map'[g] : i < RevBase
  BY <1>9, <1>11, <1>12, <1>13
<1> QED
  BY <1>10, <1>14 DEF LowTables

\* A stop frees a port, or none, and is an upset.
LEMMA StopKeepsLow ==
  ASSUME ServiceTypes, LowTables, NEW s \in Services, Stop(s)
  PROVE  LowTables'
<1> DEFINE h == HostOf[s]
<1>1. /\ service_map' = [service_map EXCEPT ![h] = Unbind(@, port[s])]
      /\ st' = IF st[s] = "RUNNING" THEN [st EXCEPT ![s] = "STOPPED"] ELSE st
      /\ upsets' = upsets + 1 /\ upsets \in Nat
  BY MaxUpsetsAssumption DEF Stop, Upset, ServiceTypes
<1>2. st \in [Services -> {"LOADED", "RUNNING", "STOPPED"}]
  BY DEF ServiceTypes
<1> SUFFICES ASSUME NEW g \in Hosts
             PROVE  /\ Cardinality(DOMAIN service_map'[g]) <= Cardinality(RunningOn(g)') + upsets'
                    /\ \A i \in DOMAIN service_map'[g] : i < RevBase
  BY DEF LowTables
<1>3. /\ Cardinality(DOMAIN service_map[g]) <= Cardinality(RunningOn(g)) + upsets
      /\ \A i \in DOMAIN service_map[g] : i < RevBase
      /\ IsFiniteSet(DOMAIN service_map[g])
  BY DEF LowTables, ServiceTypes, IsPortTable
<1>4. DOMAIN service_map'[g] \in SUBSET DOMAIN service_map[g]
  BY <1>1 DEF Unbind, ServiceTypes
<1>5. /\ Cardinality(DOMAIN service_map'[g]) <= Cardinality(DOMAIN service_map[g])
      /\ Cardinality(DOMAIN service_map'[g]) \in Nat /\ Cardinality(DOMAIN service_map[g]) \in Nat
  BY <1>3, <1>4, FS_Subset, FS_CardinalityType
<1>6. IsFiniteSet(RunningOn(g)) /\ Cardinality(RunningOn(g)) \in Nat
  BY ServicesAreFinite
<1>7. \/ RunningOn(g)' = RunningOn(g)
      \/ RunningOn(g)' = RunningOn(g) \ {s} /\ s \in RunningOn(g)
  BY <1>1, <1>2 DEF RunningOn, ServicesOf
<1>8. Cardinality(RunningOn(g)') \in {Cardinality(RunningOn(g)), Cardinality(RunningOn(g)) - 1}
  BY <1>6, <1>7, FS_RemoveElement
<1> HIDE DEF h
<1>9. Cardinality(DOMAIN service_map'[g]) <= Cardinality(RunningOn(g)') + upsets'
  BY <1>1, <1>3, <1>5, <1>6, <1>8
<1> QED
  BY <1>3, <1>4, <1>9

\* Every step keeps the ports below.
LEMMA NextKeepsLowTables ==
  ASSUME ServiceTypes, LowTables, [Next]_vars
  PROVE  LowTables'
<1>1. CASE UNCHANGED <<service_map, st, upsets>>
  BY <1>1 DEF LowTables, RunningOn
<1>2. ASSUME NEW s \in Services, RegisterService(s) PROVE LowTables'
  BY <1>2, RegisterKeepsLow
<1>3. ASSUME NEW s \in Services, Stop(s) PROVE LowTables'
  BY <1>3, StopKeepsLow
<1>4. \/ UNCHANGED <<service_map, st, upsets>>
      \/ StartMon \/ (\E m \in MDSs : Start(m)) \/ (\E s \in Services : Stop(s))
  BY DEF Next, Step, vars, msgVars, serviceVars, Connect, ConnectAgain, ConnectReturns,
         HandleMDSRegister, BroadcastMap, EndMDSRegister, HandleMDSMapUpdateAck, HandleFindMDS,
         HandleMDSRegAck, HandleMDSMapUpdate, HandleFindMDSAck, HandleUnknown, HandleReturn, ReturnTail
<1> QED
  BY <1>1, <1>2, <1>3, <1>4 DEF StartMon, Start, Services

\* What registers, or has registered, did so with a port of a service.
LEMMA NextKeepsLowLists ==
  ASSUME TypesIInv, LowTables, LowLists, [Next]_vars
  PROVE  LowLists'
<1>1. MapsIInv /\ StackFits(stack) /\ ServiceTypes /\ MDSs \subseteq Procs /\ Mon \in Procs /\ Clients \subseteq Procs
  BY ProcsType DEF TypesIInv
<1>2. \A r \in DOMAIN mds_active_list' : mds_active_list'[r].port < RevBase
  <2>1. CASE HandleMDSRegister
    <3> DEFINE e == Entity(Top.src.host, Top.arg)
    <3>1. /\ stack # <<>> /\ Top.type = "MDSREG"
          /\ mds_active_list' = Bind(mds_active_list, NewRank, e)
      BY <2>1 DEF HandleMDSRegister, Called, AddMDS
    <3>2. Top.arg < RevBase
      BY <1>1, <3>1, StackIs DEF LowLists
    <3>3. e.port < RevBase
      BY <3>2 DEF Entity
    <3> HIDE DEF e
    <3> QED
      BY <3>1, <3>3 DEF LowLists, Bind
  <2>2. CASE ~HandleMDSRegister
    BY <2>2, OthersKeepRanks DEF LowLists
  <2> QED
    BY <2>1, <2>2
<1>3. \A k \in DOMAIN stack' : stack'[k].type = "MDSREG" => stack'[k].arg < RevBase
  <2>1. ASSUME stack # <<>>, NEW pc, NEW p \in Procs, NEW e, NEW type, NEW arg, type # "MDSREG",
               Send(TopAt(pc), p, e, type, arg)
        PROVE  \A k \in DOMAIN stack' : stack'[k].type = "MDSREG" => stack'[k].arg < RevBase
    <3>1. FailsAt(pc) \/ Nests(p, e, type, arg, pc)
      BY <1>1, <2>1, HandlerSends
    <3>2. PICK n \in Nat \ {0} : n = Len(stack) /\ DOMAIN stack = 1 .. n /\ Top = stack[n]
      BY <1>1, <2>1, StackIs
    <3>3. /\ DOMAIN stack' \subseteq 1 .. n + 1
          /\ \A k \in 1 .. n - 1 : stack'[k] = stack[k]
          /\ stack'[n].type = Top.type /\ stack'[n].arg = Top.arg
          /\ n + 1 \in DOMAIN stack' => stack'[n + 1].type = type
      BY <3>1, <3>2 DEF FailsAt, Nests, Moved, Fresh
    <3>4. \A k \in 1 .. n + 1 : k = n + 1 \/ k = n \/ k \in 1 .. n - 1
      BY <3>2
    <3> QED
      BY <2>1, <3>2, <3>3, <3>4 DEF LowLists
  <2>2. ASSUME stack # <<>>, NEW b, Return(b)
        PROVE  \A k \in DOMAIN stack' : stack'[k].type = "MDSREG" => stack'[k].arg < RevBase
    <3>1. PICK n \in Nat \ {0} : n = Len(stack) /\ DOMAIN stack = 1 .. n
      BY <1>1, <2>2, StackIs
    <3>2. DOMAIN stack' = 1 .. n - 1 /\ \A k \in 1 .. n - 1 : stack'[k] = stack[k]
      BY <1>1, <2>2, <3>1, HandlerReturns DEF Returns
    <3>3. \A k \in 1 .. n - 1 : k \in 1 .. n
      BY <3>1
    <3> QED
      BY <3>1, <3>2, <3>3 DEF LowLists
  <2>3. ASSUME NEW m \in MDSs, Start(m)
        PROVE  \A k \in DOMAIN stack' : stack'[k].type = "MDSREG" => stack'[k].arg < RevBase
    <3>1. RegisterService(m) /\ m \in Services /\ Begins(m, monitors[1], "MDSREG", port'[m])
      BY <1>1, <2>3, DriverSends DEF Start, Services
    <3>2. port'[m] < RevBase
      BY <1>1, <3>1, RegisterKeepsLow
    <3> QED
      BY <3>1, <3>2 DEF Begins, Fresh
  <2>4. ASSUME NEW c \in Clients, Connect(c)
        PROVE  \A k \in DOMAIN stack' : stack'[k].type = "MDSREG" => stack'[k].arg < RevBase
    <3>1. Begins(c, monitors[1], "FINDMDS", Nil)
      BY <1>1, <2>4, DriverSends DEF Connect
    <3> QED
      BY <3>1 DEF Begins, Fresh
  <2>5. CASE UNCHANGED stack
    BY <2>5 DEF LowLists
  <2>6. \/ UNCHANGED stack
        \/ (\E m \in MDSs : Start(m)) \/ (\E c \in Clients : Connect(c))
        \/ \E b : stack # <<>> /\ Return(b)
        \/ \E pc, e, type, arg : \E p \in Procs :
             stack # <<>> /\ type # "MDSREG" /\ Send(TopAt(pc), p, e, type, arg)
    <3>1. HandleMDSRegister => stack # <<>> /\ Send(TopAt("ack"), Mon, Top.src, "MDSREGACK", NewRank)
      BY DEF HandleMDSRegister, Called
    <3>2. BroadcastMap => /\ stack # <<>>
                          /\ Send(TopAt("bcast"), Mon, mds_active_list[LowestUnsent], "MDSMAPUPDATE", mds_active_list)
      BY DEF BroadcastMap, Resumed
    <3>3. HandleFindMDS => stack # <<>> /\ Send(TopAt("tail"), Mon, Top.src, "FINDMDSACK", mds_active_list)
      BY DEF HandleFindMDS, Called
    <3>4. \A m \in MDSs : HandleMDSMapUpdate(m) =>
            stack # <<>> /\ m \in Procs /\ Send(TopAt("tail"), m, Top.src, "MDSMAPUPDATEACK", Nil)
      BY <1>1 DEF HandleMDSMapUpdate, Called
    <3>5. \/ UNCHANGED stack
          \/ (\E m \in MDSs : Start(m) \/ HandleMDSMapUpdate(m)) \/ (\E c \in Clients : Connect(c))
          \/ HandleMDSRegister \/ BroadcastMap \/ HandleFindMDS
          \/ \E b : stack # <<>> /\ Return(b)
      BY DEF Next, Step, vars, msgVars, StartMon, Stop, ConnectAgain, ConnectReturns, EndMDSRegister,
             HandleMDSMapUpdateAck, HandleMDSRegAck, HandleFindMDSAck, HandleUnknown, HandleReturn,
             ReturnTail, Called, Resumed
    <3> QED
      BY <1>1, <3>1, <3>2, <3>3, <3>4, <3>5
  <2> QED
    BY <2>1, <2>2, <2>3, <2>4, <2>5, <2>6
<1> QED
  BY <1>2, <1>3 DEF LowLists

\* The process of the top frame waits at a reverse port, as long as its
\* message has not been looked at.
TopWaits ==
  stack # <<>> /\ Top.pc = "call" =>
    /\ Top.src.port \in RevPorts /\ Top.src.port \in DOMAIN proc_revmap[Top.src.host]
    /\ proc_revmap[Top.src.host][Top.src.port] = Top.by

\* The frame that a send pushes does.
LEMMA NextKeepsTopWaits ==
  ASSUME TypesIInv, TopWaits, [Next]_vars
  PROVE  TopWaits'
<1>1. /\ MapsIInv /\ StackFits(stack) /\ MDSs \subseteq Procs /\ Mon \in Procs /\ Clients \subseteq Procs
      /\ TypesIInv'
  BY ProcsType, NextKeepsTypes DEF TypesIInv
<1>2. ASSUME NEW p, NEW e, NEW type, NEW arg, NEW f, Fresh(p, e, type, arg, f), f = Top'
      PROVE  TopWaits'
  BY <1>2 DEF Fresh, Waits, Entity, TopWaits
<1>3. ASSUME stack # <<>>, NEW pc \in {"ack", "bcast", "tail"}, NEW p \in Procs, NEW e, NEW type, NEW arg,
             Send(TopAt(pc), p, e, type, arg)
      PROVE  TopWaits'
  <2>1. PICK n \in Nat \ {0} : n = Len(stack) /\ DOMAIN stack = 1 .. n /\ Top = stack[n]
    BY <1>1, <1>3, StackIs
  <2>2. CASE FailsAt(pc)
    <3>1. Top'.pc = pc
      BY <2>1, <2>2 DEF FailsAt, Moved, Top
    <3> QED
      BY <1>3, <3>1 DEF TopWaits
  <2>3. CASE Nests(p, e, type, arg, pc)
    <3>1. Top' = stack'[n + 1] /\ Fresh(p, e, type, arg, stack'[n + 1])
      BY <2>1, <2>3 DEF Nests, Top
    <3> QED
      BY <1>2, <3>1
  <2> QED
    BY <1>1, <1>3, <2>2, <2>3, HandlerSends
<1>4. ASSUME stack # <<>>, NEW b, Return(b)
      PROVE  TopWaits'
  <2>1. PICK n \in Nat \ {0} : n = Len(stack) /\ DOMAIN stack = 1 .. n /\ Top = stack[n]
    BY <1>1, <1>4, StackIs
  <2>2. /\ Len(stack') = n - 1 /\ DOMAIN stack' = 1 .. n - 1
        /\ \A k \in 1 .. n - 1 : stack'[k] = stack[k]
    BY <1>1, <1>4, <2>1, HandlerReturns DEF Returns
  <2>3. CASE n = 1
    <3>1. stack' = <<>>
      <4>1. MapsIInv'
        BY <1>1 DEF TypesIInv
      <4>2. IsStack(stack')
        BY <4>1 DEF MapsIInv, RevIInv
      <4>3. PICK s : s = stack'
        OBVIOUS
      <4> QED
        BY <2>2, <2>3, <4>2, <4>3, EmptySeq DEF IsStack
    <3> QED
      BY <3>1 DEF TopWaits
  <2>4. CASE n # 1
    <3>1. Top' = stack[n - 1] /\ n - 1 \in 1 .. n - 1
      BY <2>1, <2>2, <2>4 DEF Top
    <3>2. SentAt(stack[n].type, stack[n - 1].type, stack[n - 1].pc)
      BY <1>1, <2>1, <2>4 DEF StackFits, FrameFits
    <3> QED
      BY <3>1, <3>2 DEF TopWaits, SentAt
  <2> QED
    BY <2>3, <2>4
<1>5. ASSUME NEW p \in Procs, NEW e, NEW type, NEW arg, Send(<<>>, p, e, type, arg) PROVE TopWaits'
  <2>1. CASE stack' = <<>>
    BY <2>1 DEF TopWaits
  <2>2. CASE Len(stack') = 1 /\ DOMAIN stack' = 1 .. 1 /\ Fresh(p, e, type, arg, stack'[1])
    <3>1. Top' = stack'[1]
      BY <2>2 DEF Top
    <3> QED
      BY <1>2, <2>2, <3>1
  <2> QED
    BY <1>1, <1>5, <2>1, <2>2, DriverSends DEF Begins
<1>6. CASE UNCHANGED <<stack, proc_revmap>>
  BY <1>6 DEF TopWaits, Top
<1>7. CASE HandleMDSRegister
  BY <1>1, <1>3, <1>7 DEF HandleMDSRegister, Called
<1>8. CASE BroadcastMap
  BY <1>1, <1>3, <1>8 DEF BroadcastMap, Resumed
<1>9. CASE HandleFindMDS
  BY <1>1, <1>3, <1>9 DEF HandleFindMDS, Called
<1>10. ASSUME NEW m \in MDSs, HandleMDSMapUpdate(m) PROVE TopWaits'
  BY <1>1, <1>3, <1>10 DEF HandleMDSMapUpdate, Called
<1>11. ASSUME NEW m \in MDSs, Start(m) PROVE TopWaits'
  BY <1>1, <1>5, <1>11 DEF Start
<1>12. ASSUME NEW c \in Clients, Connect(c) PROVE TopWaits'
  BY <1>1, <1>5, <1>12 DEF Connect
<1>13. \/ UNCHANGED <<stack, proc_revmap>>
       \/ (\E m \in MDSs : Start(m) \/ HandleMDSMapUpdate(m)) \/ (\E c \in Clients : Connect(c))
       \/ HandleMDSRegister \/ BroadcastMap \/ HandleFindMDS
       \/ \E b : stack # <<>> /\ Return(b)
  BY DEF Next, Step, vars, msgVars, StartMon, Stop, ConnectAgain, ConnectReturns, EndMDSRegister,
         HandleMDSMapUpdateAck, HandleMDSRegAck, HandleFindMDSAck, HandleUnknown, HandleReturn,
         ReturnTail, Called, Resumed
<1> QED
  BY <1>4, <1>6, <1>7, <1>8, <1>9, <1>10, <1>11, <1>12, <1>13

\* What the answers rest on.
AnswersIInv == TypesIInv /\ LowTables /\ LowLists /\ TopWaits

\* It is inductive.
LEMMA NextKeepsAnswers == AnswersIInv /\ [Next]_vars => AnswersIInv'
BY NextKeepsTypes, NextKeepsLowTables, NextKeepsLowLists, NextKeepsTopWaits DEF AnswersIInv, TypesIInv

\* At first nobody listens, and nobody waits.
LEMMA InitAnswers == Init => AnswersIInv
<1> SUFFICES ASSUME Init PROVE AnswersIInv
  OBVIOUS
<1>1. TypesIInv
  BY InitTypes
<1>2. LowTables
  <2> SUFFICES ASSUME NEW h \in Hosts
               PROVE  /\ Cardinality(DOMAIN service_map[h]) <= Cardinality(RunningOn(h)) + upsets
                      /\ \A i \in DOMAIN service_map[h] : i < RevBase
    BY DEF LowTables
  <2>1. DOMAIN service_map[h] = {} /\ upsets = 0
    BY DEF Init, EmptyMap
  <2>2. Cardinality(RunningOn(h)) \in Nat
    BY ServicesAreFinite
  <2> QED
    BY <2>1, <2>2, FS_EmptySet
<1>3. LowLists /\ TopWaits
  BY DEF Init, MessagingInit, LowLists, TopWaits, EmptyMap
<1> QED
  BY <1>1, <1>2, <1>3 DEF AnswersIInv

\* The address that a handler answers to leads to who has asked, whatever
\* services were stopped and started before.
THEOREM AnswersReachAskers == Spec => []AnswerReachesAsker
<1>1. AnswersIInv => AnswerReachesAsker
  <2> SUFFICES ASSUME AnswersIInv, NEW k \in DOMAIN stack, Answering(stack[k])
               PROVE  Dispatch(service_map, proc_revmap, stack[k].src) = stack[k].by
    BY DEF AnswerReachesAsker
  <2>1. stack # <<>> /\ MapsIInv /\ StackFits(stack) /\ LowTables /\ TopWaits
    BY DEF AnswersIInv, TypesIInv
  <2>2. PICK n \in Nat \ {0} : n = Len(stack) /\ DOMAIN stack = 1 .. n /\ Top = stack[n]
    BY <2>1, StackIs
  <2>3. k = n
    <3> SUFFICES ASSUME k # n PROVE FALSE
      OBVIOUS
    <3>1. k + 1 \in 1 .. n /\ k + 1 # 1 /\ (k + 1) - 1 = k
      BY <2>2
    <3>2. SentAt(stack[k + 1].type, stack[k].type, stack[k].pc)
      BY <2>1, <2>2, <3>1 DEF StackFits, FrameFits
    <3> QED
      BY <3>2 DEF SentAt, Answering
  <2>4. /\ Top.pc = "call" /\ Top.src.host \in Hosts
        /\ Top.src.port \in RevPorts /\ Top.src.port \in DOMAIN proc_revmap[Top.src.host]
        /\ proc_revmap[Top.src.host][Top.src.port] = Top.by
    BY <2>1, <2>2, <2>3, TopFits DEF TopWaits, Answering
  <2>5. Top.src.port \notin DOMAIN service_map[Top.src.host]
    BY <2>1, <2>4, RevBaseAssumption DEF LowTables, RevPorts
  <2> QED
    BY <2>2, <2>3, <2>4, <2>5 DEF Dispatch
<1> QED
  BY <1>1, InitAnswers, NextKeepsAnswers, PTL DEF Spec
-----------------------------------------------------------------------------
(***************************************************************************)
(* The broadcast goes up the ranks.  A rank it has passed was told: whoever  *)
(* listens at its entity has the list as it is.                             *)
(***************************************************************************)
ServiceAt(e) == IF e.port \in DOMAIN service_map[e.host] THEN service_map[e.host][e.port] ELSE Nil

Listener(r) == ServiceAt(mds_active_list[r])

Told(r) == Listener(r) \in MDSs => mds_map[Listener(r)] = mds_active_list

Broadcasting == stack # <<>> /\ stack[1].pc = "bcast"

\* The inductive invariant of the broadcast: it is at a rank, which it has
\* told when the handler of the update has stored the map, or is telling.
BroadcastIInv ==
  /\ bcast # NoPort => Broadcasting
  /\ Broadcasting =>
       /\ bcast \in DOMAIN mds_active_list
       /\ \A r \in DOMAIN mds_active_list : r < bcast => Told(r)
       /\ Len(stack) = 1 /\ ret => Told(bcast)
       /\ Len(stack) > 1 => /\ stack[2].arg = mds_active_list /\ stack[2].to = Listener(bcast)
                            /\ stack[2].pc = "tail" => Told(bcast)

\* No reverse port is among the ports of the list.
LEMMA ListenerIs ==
  ASSUME AnswersIInv, NEW rev, \A h \in Hosts : DOMAIN rev[h] \subseteq RevPorts,
         NEW r \in DOMAIN mds_active_list
  PROVE  Dispatch(service_map, rev, mds_active_list[r]) = Listener(r)
<1> DEFINE e == mds_active_list[r]
<1>1. e.host \in Hosts /\ e.port \in Nat /\ e.port < RevBase
  BY DEF AnswersIInv, LowLists, TypesIInv, RankMaps, IsRankMap
<1> HIDE DEF e
<1>2. e.port \notin DOMAIN rev[e.host]
  BY <1>1, RevBaseAssumption DEF RevPorts
<1>3. Dispatch(service_map, rev, e) = ServiceAt(e)
  BY <1>2 DEF Dispatch, ServiceAt
<1> QED
  BY <1>3 DEF Listener, e

\* What the first frame does when there is one above it: it broadcasts when
\* the second is an update, and only then.
LEMMA FirstFrame ==
  ASSUME MapsIInv, StackFits(stack), stack # <<>>
  PROVE  /\ Len(stack) = 1 => Top = stack[1]
         /\ Len(stack) > 1 => /\ 2 \in DOMAIN stack /\ 1 \in DOMAIN stack
                              /\ stack[1].pc = "bcast" <=> stack[2].type = "MDSMAPUPDATE"
         /\ Len(stack) = 2 => Top = stack[2]
         /\ Len(stack) \in {1, 2, 3}
         /\ Len(stack) = 3 => /\ stack[2].type = "MDSMAPUPDATE" /\ stack[2].pc = "tail"
                              /\ Top.type = "MDSMAPUPDATEACK"
<1>1. PICK n \in Nat \ {0} : n = Len(stack) /\ DOMAIN stack = 1 .. n /\ Top = stack[n]
  BY StackIs
<1>2. n \in {1, 2, 3}
  BY <1>1, TopFits DEF Carries
<1>3. n > 1 => SentAt(stack[2].type, stack[1].type, stack[1].pc)
  <2>1. n > 1 => 2 \in DOMAIN stack /\ 2 - 1 = 1 /\ 2 # 1
    BY <1>1
  <2> QED
    BY <2>1 DEF StackFits, FrameFits
<1>4. n = 3 => SentAt(stack[3].type, stack[2].type, stack[2].pc) /\ stack[3].type = "MDSMAPUPDATEACK"
  <2>1. n = 3 => 3 \in DOMAIN stack /\ 3 - 1 = 2 /\ 3 # 1
    BY <1>1
  <2>2. n = 3 => stack[3].type = "MDSMAPUPDATEACK"
    BY <1>1, TopFits DEF Carries
  <2> QED
    BY <2>1, <2>2 DEF StackFits, FrameFits
<1>5. n > 1 => 2 \in DOMAIN stack /\ 1 \in DOMAIN stack
  BY <1>1
<1> QED
  BY <1>1, <1>2, <1>3, <1>4, <1>5 DEF SentAt

\* A step that leaves the tables, the maps and the broadcast alone and no
\* broadcast behind.
LEMMA NotBroadcasting ==
  ASSUME BroadcastIInv, ~Broadcasting, UNCHANGED bcast, ~Broadcasting'
  PROVE  BroadcastIInv'
BY DEF BroadcastIInv

\* A return during a broadcast: of the first frame's nested send it is TRUE
\* only if the rank was told.
LEMMA ReturnKeepsBroadcast ==
  ASSUME AnswersIInv, BroadcastIInv, UNCHANGED <<service_map, mds_active_list, mds_map, bcast>>,
         stack # <<>>, NEW b, Return(b), Len(stack) = 1 => ~Broadcasting,
         Len(stack) = 2 /\ b => Top.pc = "tail" \/ Top.type # "MDSMAPUPDATE"
  PROVE  BroadcastIInv'
<1>1. MapsIInv /\ StackFits(stack)
  BY DEF AnswersIInv, TypesIInv
<1>2. PICK n \in Nat \ {0} : n = Len(stack) /\ DOMAIN stack = 1 .. n
  BY <1>1, StackIs
<1>3. /\ ret' = b /\ Len(stack') = n - 1 /\ DOMAIN stack' = 1 .. n - 1
      /\ \A k \in 1 .. n - 1 : stack'[k] = stack[k]
  BY <1>1, <1>2, HandlerReturns DEF Returns
<1>4. \A r : Told(r)' = Told(r) /\ Listener(r)' = Listener(r)
  BY DEF Told, Listener, ServiceAt
<1>5. CASE n = 1
  <2>1. stack' = <<>>
    <3>1. stack' = Below /\ IsStack(Below)
      BY <1>1, BelowFrames DEF MapsIInv, RevIInv, Return
    <3>2. PICK s : s = stack'
      OBVIOUS
    <3> QED
      BY <1>3, <1>5, <3>1, <3>2, EmptySeq DEF IsStack
  <2>2. ~Broadcasting' /\ ~Broadcasting
    BY <1>2, <1>5, <2>1 DEF Broadcasting
  <2> QED
    BY <2>2, NotBroadcasting
<1>6. CASE n > 1
  <2>1. stack'[1] = stack[1] /\ Len(stack') # 0 /\ stack' # <<>>
    BY <1>2, <1>3, <1>6
  <2>2. Broadcasting' = Broadcasting
    BY <2>1 DEF Broadcasting
  <2>3. CASE ~Broadcasting
    BY <2>2, <2>3, NotBroadcasting
  <2>4. CASE Broadcasting
    <3>1. /\ bcast \in DOMAIN mds_active_list
          /\ \A r \in DOMAIN mds_active_list : r < bcast => Told(r)
          /\ stack[2].arg = mds_active_list /\ stack[2].to = Listener(bcast)
          /\ stack[2].pc = "tail" => Told(bcast)
      BY <1>2, <1>6, <2>4 DEF BroadcastIInv
    <3>2. n = 2 /\ b => Told(bcast)
      BY <1>1, <1>2, <2>4, <3>1, FirstFrame DEF Broadcasting
    <3>3. n > 2 => stack'[2] = stack[2]
      BY <1>3
    <3>4. /\ Len(stack') = 1 => n = 2
          /\ Len(stack') > 1 => n > 2
      BY <1>3
    <3>5. Len(stack') = 1 /\ ret' => Told(bcast)
      BY <1>3, <3>2, <3>4
    <3>6. Len(stack') > 1 => /\ stack'[2].arg = mds_active_list /\ stack'[2].to = Listener(bcast)
                             /\ stack'[2].pc = "tail" => Told(bcast)
      BY <3>1, <3>3, <3>4
    <3> QED
      BY <1>4, <2>2, <2>4, <3>1, <3>5, <3>6 DEF BroadcastIInv
  <2> QED
    BY <2>3, <2>4
<1> QED
  BY <1>5, <1>6

\* What has a first element is not empty.
LEMMA HasFirst ==
  ASSUME NEW s, 1 \in DOMAIN s
  PROVE  s # <<>>
<1>1. DOMAIN <<>> = {}
  OBVIOUS
<1> QED
  BY <1>1

\* A send that fails of a stack of one frame.
LEMMA OneFails ==
  ASSUME Len(stack) = 1, NEW pc, FailsAt(pc)
  PROVE  Len(stack') = 1 /\ ret' = FALSE /\ stack'[1].pc = pc /\ stack' # <<>>
<1>1. PICK n \in Nat \ {0} : n = Len(stack) /\ n = 1
  OBVIOUS
<1>2. ret' = FALSE /\ Len(stack') = 1 /\ DOMAIN stack' = 1 .. 1 /\ Moved(stack'[1], pc)
  BY <1>1 DEF FailsAt
<1>3. PICK s : s = stack'
  OBVIOUS
<1>4. 1 \in DOMAIN s
  BY <1>2, <1>3
<1> QED
  BY <1>2, <1>3, <1>4, HasFirst DEF Moved

\* A send of a stack of one frame that waits.
LEMMA OneNests ==
  ASSUME Len(stack) = 1, NEW pc, NEW p, NEW e, NEW type, NEW arg, Nests(p, e, type, arg, pc)
  PROVE  /\ Len(stack') = 2 /\ stack'[1].pc = pc /\ stack' # <<>>
         /\ Fresh(p, e, type, arg, stack'[2])
<1>1. PICK n \in Nat \ {0} : n = Len(stack) /\ n = 1 /\ n + 1 = 2
  OBVIOUS
<1>2. Len(stack') = 2 /\ DOMAIN stack' = 1 .. 2 /\ Moved(stack'[1], pc)
      /\ Fresh(p, e, type, arg, stack'[2])
  BY <1>1 DEF Nests
<1>3. PICK s : s = stack'
  OBVIOUS
<1>4. 1 \in DOMAIN s
  BY <1>2, <1>3
<1> QED
  BY <1>2, <1>3, <1>4, HasFirst DEF Moved

\* A send above the first frame leaves the first frame.
LEMMA AboveFirst ==
  ASSUME Len(stack) \in {2, 3}, NEW pc, NEW p, NEW e, NEW type, NEW arg,
         FailsAt(pc) \/ Nests(p, e, type, arg, pc)
  PROVE  /\ stack'[1] = stack[1] /\ stack' # <<>> /\ Len(stack') > 1
         /\ Len(stack) = 2 => Moved(stack'[2], pc)
         /\ Len(stack) = 3 => stack'[2] = stack[2]
<1>1. PICK n \in {2, 3} : n = Len(stack)
  OBVIOUS
<1>2. CASE FailsAt(pc)
  <2>1. Len(stack') = n /\ DOMAIN stack' = 1 .. n /\ Moved(stack'[n], pc)
        /\ \A k \in 1 .. n - 1 : stack'[k] = stack[k]
    BY <1>1, <1>2 DEF FailsAt
  <2>2. PICK s : s = stack'
    OBVIOUS
  <2>3. 1 \in DOMAIN s
    BY <2>1, <2>2
  <2> QED
    BY <1>1, <2>1, <2>2, <2>3, HasFirst
<1>3. CASE Nests(p, e, type, arg, pc)
  <2>1. Len(stack') = n + 1 /\ DOMAIN stack' = 1 .. n + 1 /\ Moved(stack'[n], pc)
        /\ \A k \in 1 .. n - 1 : stack'[k] = stack[k]
    BY <1>1, <1>3 DEF Nests
  <2>2. PICK s : s = stack'
    OBVIOUS
  <2>3. 1 \in DOMAIN s
    BY <2>1, <2>2
  <2> QED
    BY <1>1, <2>1, <2>2, <2>3, HasFirst
<1> QED
  BY <1>2, <1>3

\* The broadcast moves on once the last rank was told.
LEMMA BroadcastMapKeepsBroadcast ==
  ASSUME AnswersIInv, BroadcastIInv, [Next]_vars, BroadcastMap
  PROVE  BroadcastIInv'
<1> DEFINE b == LowestUnsent
           e == mds_active_list[b]
<1>1. /\ MapsIInv /\ StackFits(stack) /\ RanksIInv /\ Mon \in Procs /\ AnswersIInv'
      /\ DOMAIN mds_active_list \subseteq Nat
  BY ProcsType, NextKeepsAnswers, NewRankIsSize DEF AnswersIInv, TypesIInv, MapsIInv
<1>2. /\ stack # <<>> /\ Top.pc \in {"ack", "bcast"} /\ Unsent # {} /\ ret
      /\ bcast' = b /\ UNCHANGED <<service_map, mds_active_list, mds_map>>
      /\ Send(TopAt("bcast"), Mon, e, "MDSMAPUPDATE", mds_active_list)
  BY DEF BroadcastMap, Resumed, mdsVars
<1>3. Len(stack) = 1 /\ Top = stack[1] /\ Top.type = "MDSREG"
  BY <1>1, <1>2, TopFits, FirstFrame
<1>4. b \in Unsent /\ b \in DOMAIN mds_active_list /\ b \in Nat /\ \A q \in Unsent : b <= q
  BY <1>1, <1>2, LowestUnsentIs
<1>5. \A r : Told(r)' = Told(r) /\ Listener(r)' = Listener(r)
  BY <1>2 DEF Told, Listener, ServiceAt
<1> HIDE DEF b
<1>6. \A r \in DOMAIN mds_active_list : r < b => Told(r)
  <2> SUFFICES ASSUME NEW r \in DOMAIN mds_active_list, r < b PROVE Told(r)
    OBVIOUS
  <2>1. r \notin Unsent /\ r \in Nat
    BY <1>1, <1>4
  <2>2. Top.pc = "bcast" /\ ~(r > bcast)
    BY <1>2, <2>1 DEF Unsent
  <2>3. Broadcasting
    BY <1>2, <1>3, <2>2 DEF Broadcasting
  <2>4. bcast \in Nat /\ (r < bcast => Told(r)) /\ Told(bcast)
    BY <1>1, <1>2, <1>3, <2>3 DEF BroadcastIInv
  <2>5. r = bcast \/ r < bcast
    BY <2>1, <2>2, <2>4
  <2> QED
    BY <2>4, <2>5
<1>7. FailsAt("bcast") \/ Nests(Mon, e, "MDSMAPUPDATE", mds_active_list, "bcast")
  BY <1>1, <1>2, HandlerSends
<1>8. CASE FailsAt("bcast")
  <2>1. Len(stack') = 1 /\ ret' = FALSE /\ stack'[1].pc = "bcast" /\ stack' # <<>>
    BY <1>3, <1>8, OneFails
  <2> QED
    BY <1>2, <1>4, <1>5, <1>6, <2>1 DEF BroadcastIInv, Broadcasting
<1>9. CASE Nests(Mon, e, "MDSMAPUPDATE", mds_active_list, "bcast")
  <2>1. /\ Len(stack') = 2 /\ stack'[1].pc = "bcast" /\ stack' # <<>>
        /\ Fresh(Mon, e, "MDSMAPUPDATE", mds_active_list, stack'[2])
    BY <1>3, <1>9, OneNests
  <2>2. stack'[2].arg = mds_active_list /\ stack'[2].pc = "call"
        /\ stack'[2].to = Dispatch(service_map', proc_revmap', e)
    BY <2>1 DEF Fresh, Waits
  <2>3. \A h \in Hosts : DOMAIN proc_revmap'[h] \subseteq RevPorts
    BY <1>1 DEF AnswersIInv, TypesIInv, MapsIInv, RevIInv, RevTables
  <2>4. PICK rev : rev = proc_revmap'
    OBVIOUS
  <2>5. Dispatch(service_map, rev, e) = Listener(b)
    BY <1>4, <2>3, <2>4, ListenerIs
  <2>6. stack'[2].to = Listener(b)
    BY <1>2, <2>2, <2>4, <2>5
  <2> QED
    BY <1>2, <1>4, <1>5, <1>6, <2>1, <2>2, <2>6 DEF BroadcastIInv, Broadcasting
<1> QED
  BY <1>7, <1>8, <1>9
\* The entry of a handler whose frame is the first: no broadcast is on, and
\* none is after a send at another point.
LEMMA FirstSendKeepsBroadcast ==
  ASSUME AnswersIInv, BroadcastIInv, UNCHANGED bcast, Len(stack) = 1, stack # <<>>, Top.pc = "call",
         NEW pc \in {"ack", "tail"}, NEW p \in Procs, NEW e, NEW type, NEW arg,
         Send(TopAt(pc), p, e, type, arg)
  PROVE  BroadcastIInv'
<1>1. MapsIInv /\ StackFits(stack)
  BY DEF AnswersIInv, TypesIInv
<1>2. ~Broadcasting
  BY <1>1, FirstFrame DEF Broadcasting
<1>3. stack'[1].pc = pc
  BY <1>1, HandlerSends, OneFails, OneNests
<1>4. ~Broadcasting'
  BY <1>3 DEF Broadcasting
<1> QED
  BY <1>2, <1>4, NotBroadcasting

\* A call of the driver's starts with no broadcast on.
LEMMA DriverKeepsBroadcast ==
  ASSUME AnswersIInv, BroadcastIInv, UNCHANGED bcast, stack = <<>>,
         NEW p \in Procs, NEW e, NEW type, NEW arg, Send(<<>>, p, e, type, arg)
  PROVE  BroadcastIInv'
<1>1. MapsIInv
  BY DEF AnswersIInv, TypesIInv
<1>2. stack' = <<>> \/ Fresh(p, e, type, arg, stack'[1])
  BY <1>1, DriverSends DEF Begins
<1>3. ~Broadcasting /\ ~Broadcasting'
  BY <1>2 DEF Broadcasting, Fresh
<1> QED
  BY <1>3, NotBroadcasting

\* The handler of the update stores the list in the MDS that listens at the
\* rank: it is told.
LEMMA StoreKeepsBroadcast ==
  ASSUME AnswersIInv, BroadcastIInv, NEW m \in MDSs, HandleMDSMapUpdate(m)
  PROVE  BroadcastIInv'
<1>1. /\ MapsIInv /\ StackFits(stack) /\ m \in Procs
      /\ mds_map = [d \in MDSs |-> mds_map[d]]
  BY ProcsType DEF AnswersIInv, TypesIInv, MapsIInv, EarlierMaps
<1>2. /\ stack # <<>> /\ Top.to = m /\ Top.type = "MDSMAPUPDATE" /\ Top.pc = "call"
      /\ mds_map' = [mds_map EXCEPT ![m] = Top.arg]
      /\ UNCHANGED <<service_map, mds_active_list, bcast>>
      /\ Send(TopAt("tail"), m, Top.src, "MDSMAPUPDATEACK", Nil)
  BY DEF HandleMDSMapUpdate, Called, monVars
<1>3. Len(stack) = 2 /\ Top = stack[2] /\ stack[1].pc = "bcast"
  <2>1. Len(stack) = 2
    BY <1>1, <1>2, TopFits
  <2>2. Len(stack) > 1
    BY <2>1
  <2> QED
    BY <1>1, <1>2, <2>1, <2>2, FirstFrame
<1>4. Broadcasting
  BY <1>2, <1>3 DEF Broadcasting
<1>5. /\ bcast \in DOMAIN mds_active_list
      /\ \A r \in DOMAIN mds_active_list : r < bcast => Told(r)
      /\ Top.arg = mds_active_list /\ m = Listener(bcast)
  <2>1. Len(stack) > 1
    BY <1>3
  <2> QED
    BY <1>2, <1>3, <1>4, <2>1 DEF BroadcastIInv
<1>6. \A d \in MDSs : mds_map'[d] = IF d = m THEN mds_active_list ELSE mds_map[d]
  BY <1>1, <1>2, <1>5
<1>7. \A r : Listener(r)' = Listener(r)
  BY <1>2 DEF Listener, ServiceAt
<1>8. (\A r : Told(r) => Told(r)') /\ Told(bcast)'
  <2>1. mds_active_list' = mds_active_list /\ bcast' = bcast
    BY <1>2
  <2>2. ASSUME NEW r, Told(r), Listener(r) \in MDSs PROVE mds_map'[Listener(r)] = mds_active_list
    BY <1>6, <2>2 DEF Told
  <2>3. mds_map'[Listener(bcast)] = mds_active_list
    BY <1>5, <1>6
  <2> QED
    BY <1>7, <2>1, <2>2, <2>3 DEF Told
<1>9. /\ stack'[1] = stack[1] /\ stack' # <<>> /\ Len(stack') > 1 /\ Moved(stack'[2], "tail")
  <2>1. FailsAt("tail") \/ Nests(m, Top.src, "MDSMAPUPDATEACK", Nil, "tail")
    BY <1>1, <1>2, HandlerSends
  <2>2. Len(stack) \in {2, 3}
    BY <1>3
  <2> QED
    BY <1>3, <2>1, <2>2, AboveFirst
<1>10. /\ stack'[2].arg = mds_active_list' /\ stack'[2].to = Listener(bcast)'
  BY <1>2, <1>5, <1>7, <1>9 DEF Moved
<1>11. /\ bcast' \in DOMAIN mds_active_list'
       /\ \A r \in DOMAIN mds_active_list' : r < bcast' => Told(r)'
  BY <1>2, <1>5, <1>8
<1>12. Broadcasting'
  BY <1>3, <1>9 DEF Broadcasting
<1>13. ~(Len(stack') = 1)
  BY <1>9
<1> QED
  BY <1>8, <1>10, <1>11, <1>12, <1>13 DEF BroadcastIInv

\* Every step keeps the invariant of the broadcast.
LEMMA NextKeepsBroadcast ==
  ASSUME AnswersIInv, BroadcastIInv, [Next]_vars
  PROVE  BroadcastIInv'
<1>1. /\ MapsIInv /\ StackFits(stack) /\ Mon \in Procs /\ MDSs \subseteq Procs /\ Clients \subseteq Procs
      /\ MapsIInv'
  BY ProcsType, NextKeepsAnswers DEF AnswersIInv, TypesIInv
<1>2. ASSUME stack # <<>>, NEW b, Return(b), Top.pc # "bcast",
             UNCHANGED <<service_map, mds_active_list, mds_map, bcast>>,
             b => Top.pc = "tail" \/ Top.type # "MDSMAPUPDATE"
      PROVE  BroadcastIInv'
  <2>1. Len(stack) = 1 => ~Broadcasting
    BY <1>1, <1>2, FirstFrame DEF Broadcasting
  <2> QED
    BY <1>2, <2>1, ReturnKeepsBroadcast
<1>3. CASE HandleMDSRegister
  <2>1. /\ stack # <<>> /\ Top.type = "MDSREG" /\ Top.pc = "call" /\ UNCHANGED bcast
        /\ Send(TopAt("ack"), Mon, Top.src, "MDSREGACK", NewRank)
    BY <1>3 DEF HandleMDSRegister, Called
  <2> QED
    BY <1>1, <2>1, TopFits, FirstSendKeepsBroadcast
<1>4. CASE HandleFindMDS
  <2>1. /\ stack # <<>> /\ Top.type = "FINDMDS" /\ Top.pc = "call" /\ UNCHANGED bcast
        /\ Send(TopAt("tail"), Mon, Top.src, "FINDMDSACK", mds_active_list)
    BY <1>4 DEF HandleFindMDS, Called, monVars
  <2> QED
    BY <1>1, <2>1, TopFits, FirstSendKeepsBroadcast
<1>5. CASE EndMDSRegister
  <2>1. /\ stack # <<>> /\ Top.pc \in {"ack", "bcast"} /\ bcast' = NoPort /\ Return(ret)
    BY <1>5 DEF EndMDSRegister, Resumed
  <2>2. Len(stack) = 1
    BY <1>1, <2>1, TopFits
  <2>3. Len(stack') = 0
    BY <1>1, <2>1, <2>2, HandlerReturns DEF Returns
  <2>4. stack' = <<>>
    <3>1. IsStack(stack') /\ DOMAIN stack' = 1 .. 0
      BY <1>1, <2>1, <2>2, HandlerReturns DEF Returns, MapsIInv, RevIInv
    <3>2. PICK s : s = stack'
      OBVIOUS
    <3> QED
      BY <3>1, <3>2, EmptySeq DEF IsStack
  <2>5. ~Broadcasting'
    BY <2>4 DEF Broadcasting
  <2> QED
    BY <2>1, <2>5 DEF BroadcastIInv
<1>6. CASE HandleMDSMapUpdateAck
  <2>1. /\ stack # <<>> /\ Top.type = "MDSMAPUPDATEACK" /\ Top.pc = "call" /\ Return(TRUE)
        /\ UNCHANGED <<service_map, mds_active_list, mds_map, bcast>>
    BY <1>6 DEF HandleMDSMapUpdateAck, Called, monVars, mdsVars
  <2> QED
    BY <1>2, <2>1
<1>7. ASSUME NEW m \in MDSs, HandleMDSRegAck(m) PROVE BroadcastIInv'
  <2>1. /\ stack # <<>> /\ Top.type = "MDSREGACK" /\ Top.pc = "call" /\ Return(TRUE)
        /\ UNCHANGED <<service_map, mds_active_list, mds_map, bcast>>
    BY <1>7 DEF HandleMDSRegAck, Called, monVars
  <2> QED
    BY <1>2, <2>1
<1>8. ASSUME NEW c \in Clients, HandleFindMDSAck(c) PROVE BroadcastIInv'
  <2>1. /\ stack # <<>> /\ Top.type = "FINDMDSACK" /\ Top.pc = "call" /\ Return(DOMAIN Top.arg # {})
        /\ UNCHANGED <<service_map, mds_active_list, mds_map, bcast>>
    BY <1>8 DEF HandleFindMDSAck, Called, monVars, mdsVars
  <2> QED
    BY <1>2, <2>1
<1>9. CASE HandleUnknown
  <2>1. /\ stack # <<>> /\ Top.pc = "call" /\ Return(FALSE)
        /\ UNCHANGED <<service_map, mds_active_list, mds_map, bcast>>
    BY <1>9 DEF HandleUnknown, Resumed, monVars, mdsVars
  <2> QED
    BY <1>2, <2>1
<1>10. CASE HandleReturn
  <2>1. /\ stack # <<>> /\ Top.pc = "tail" /\ Return(ret)
        /\ UNCHANGED <<service_map, mds_active_list, mds_map, bcast>>
    BY <1>10 DEF HandleReturn, ReturnTail, Resumed, monVars, mdsVars
  <2> QED
    BY <1>2, <2>1
<1>11. ASSUME NEW m \in MDSs, Start(m) PROVE BroadcastIInv'
  <2>1. m \in Procs /\ stack = <<>> /\ UNCHANGED bcast /\ Send(<<>>, m, monitors[1], "MDSREG", port'[m])
    BY <1>1, <1>11 DEF Start, Idle, monVars
  <2> QED
    BY <2>1, DriverKeepsBroadcast
<1>12. ASSUME NEW c \in Clients, Connect(c) PROVE BroadcastIInv'
  <2>1. c \in Procs /\ stack = <<>> /\ UNCHANGED bcast /\ Send(<<>>, c, monitors[1], "FINDMDS", Nil)
    BY <1>1, <1>12 DEF Connect, Idle, monVars
  <2> QED
    BY <2>1, DriverKeepsBroadcast
<1>13. CASE stack = <<>> /\ UNCHANGED <<stack, bcast>>
  BY <1>13, NotBroadcasting DEF Broadcasting
<1>14. CASE UNCHANGED vars
  <2>1. UNCHANGED <<service_map, mds_active_list, mds_map, bcast, stack, ret>>
    BY <1>14 DEF vars, msgVars, monVars, mdsVars
  <2>2. Broadcasting' = Broadcasting /\ \A r : Told(r)' = Told(r) /\ Listener(r)' = Listener(r)
    BY <2>1 DEF Broadcasting, Told, Listener, ServiceAt
  <2> QED
    BY <2>1, <2>2 DEF BroadcastIInv
<1>15. StartMon => stack = <<>> /\ UNCHANGED <<stack, bcast>>
  BY DEF StartMon, Idle, monVars
<1>16. (\E s \in Services : Stop(s)) => stack = <<>> /\ UNCHANGED <<stack, bcast>>
  BY DEF Stop, Idle, monVars
<1>17. (\E c \in Clients : ConnectReturns(c)) => stack = <<>> /\ UNCHANGED <<stack, bcast>>
  BY DEF ConnectReturns, msgVars, monVars
<1>18. (\E c \in Clients : ConnectAgain(c)) => UNCHANGED vars
  BY DEF ConnectAgain
<1> QED
  BY <1>3, <1>4, <1>5, <1>6, <1>7, <1>8, <1>9, <1>10, <1>11, <1>12, <1>13, <1>14, <1>15, <1>16,
     <1>17, <1>18, BroadcastMapKeepsBroadcast, StoreKeepsBroadcast DEF Next, Step

\* Whoever listens at a rank that the broadcast has passed has the new map,
\* also when the broadcast then fails at a higher one.
THEOREM BroadcastGoesUp == Spec => []BroadcastInOrder
<1>1. AnswersIInv /\ BroadcastIInv => BroadcastInOrder
  <2> SUFFICES ASSUME AnswersIInv, BroadcastIInv, NEW r \in DOMAIN mds_active_list, r < bcast,
                      Dispatch(service_map, proc_revmap, mds_active_list[r]) \in MDSs
               PROVE  mds_map[Dispatch(service_map, proc_revmap, mds_active_list[r])] = mds_active_list
    BY DEF BroadcastInOrder
  <2>1. r \in Nat /\ \A h \in Hosts : DOMAIN proc_revmap[h] \subseteq RevPorts
    BY DEF AnswersIInv, TypesIInv, MapsIInv, RevIInv, RevTables, RankMaps, IsRankMap
  <2>2. bcast # NoPort
    BY <2>1 DEF NoPort
  <2>3. Told(r)
    BY <2>2 DEF BroadcastIInv
  <2>4. PICK rev : rev = proc_revmap
    OBVIOUS
  <2>5. Dispatch(service_map, rev, mds_active_list[r]) = Listener(r)
    BY <2>1, <2>4, ListenerIs
  <2> QED
    BY <2>3, <2>4, <2>5 DEF Told
<1>2. Init => BroadcastIInv
  BY DEF Init, MessagingInit, BroadcastIInv, Broadcasting
<1>3. AnswersIInv /\ BroadcastIInv /\ [Next]_vars => AnswersIInv' /\ BroadcastIInv'
  BY NextKeepsAnswers, NextKeepsBroadcast
<1> QED
  BY <1>1, <1>2, <1>3, InitAnswers, PTL DEF Spec
-----------------------------------------------------------------------------
(***************************************************************************)
(* The views agree as long as nothing was upset.  What makes it hard is the *)
(* registration: from the start of an MDS to the end of the broadcast it    *)
(* takes part in, its rank is known to the monitor, then to itself, and the *)
(* new map to one rank after the other.                                    *)
(***************************************************************************)
EntityOf(s) == Entity(HostOf[s], port[s])

Runs(s) == st[s] = "RUNNING"

\* Entity e leads to process s by a service port.
Serves(e, s) == e.port \in DOMAIN service_map[e.host] /\ service_map[e.host][e.port] = s

\* A service that runs listens at its port; the monitor is where the cluster
\* has it; each rank is that of an MDS that runs, and no two are of one.
TablesAgree ==
  /\ \A s \in Services : Runs(s) => Serves(EntityOf(s), s)
  /\ monitors # <<>> => Runs(Mon) /\ monitors[1] = EntityOf(Mon)
  /\ \A r \in DOMAIN mds_active_list : \E m \in MDSs : Runs(m) /\ mds_active_list[r] = EntityOf(m)
  /\ \A q, r \in DOMAIN mds_active_list : mds_active_list[q] = mds_active_list[r] => q = r

\* An MDS knows its rank.
AtRank(m) == whoami[m] \in DOMAIN mds_active_list /\ mds_active_list[whoami[m]] = EntityOf(m)

Registering == stack # <<>> /\ stack[1].type = "MDSREG"

\* It does so unless it registers and has not been acknowledged.
Unranked(m) ==
  /\ Registering /\ stack[1].by = m
  /\ \/ stack[1].pc = "call"
     \/ stack[1].pc = "ack" /\ Len(stack) > 1

Ranked == \A m \in MDSs : Runs(m) => AtRank(m) \/ Unranked(m)

\* Every rank has the map, unless a new rank is being announced.
AllTold ==
  ~Registering \/ stack[1].pc = "call" => \A r \in DOMAIN mds_active_list : Told(r)

\* A registration of m gets through: it reaches the monitor, its answer
\* reaches m, and no send of the broadcast fails.
RegistrationOf(m) ==
  /\ m \in MDSs /\ Runs(m) /\ stack[1].to = Mon /\ stack[1].arg = port[m]
  /\ stack[1].pc = "call" => \A r \in DOMAIN mds_active_list : mds_active_list[r] # EntityOf(m)
  /\ Len(stack) > 1 => stack[2].by = Mon
  /\ Len(stack) > 1 /\ stack[1].pc = "ack" =>
       /\ stack[2].to = m
       /\ stack[2].arg \in DOMAIN mds_active_list /\ mds_active_list[stack[2].arg] = EntityOf(m)
  /\ Len(stack) = 1 /\ stack[1].pc # "call" => ret
  /\ Len(stack) = 2 /\ stack[2].pc = "tail" => ret
  /\ Len(stack) = 3 => stack[3].to = Mon

Flow == Ranked /\ AllTold /\ (Registering => RegistrationOf(stack[1].by))

\* The inductive invariant of the views.
AgreeIInv == upsets = 0 => TablesAgree /\ Flow

\* What was not upset now was not upset before, and no step of it stops a
\* service or starts one that runs.
LEMMA NotUpset ==
  ASSUME ServiceTypes, [Next]_vars, upsets' = 0
  PROVE  /\ upsets = 0 /\ \A s \in Services : ~Stop(s) /\ (RegisterService(s) => ~Runs(s))
<1>1. upsets \in Nat
  BY MaxUpsetsAssumption DEF ServiceTypes
<1>2. ~Upset
  BY <1>1 DEF Upset
<1>3. \A s \in Services : ~Stop(s) /\ (RegisterService(s) => ~Runs(s) /\ upsets' = upsets)
  BY <1>2 DEF Stop, RegisterService, Runs
<1>4. upsets' = upsets
  <2>1. StartMon => upsets' = upsets
    BY <1>3 DEF StartMon, Services
  <2>2. \A m \in MDSs : Start(m) => upsets' = upsets
    BY <1>3 DEF Start, Services
  <2>3. UNCHANGED upsets \/ StartMon \/ (\E m \in MDSs : Start(m)) \/ (\E s \in Services : Stop(s))
    BY DEF Next, Step, vars, msgVars, serviceVars, Connect, ConnectAgain, ConnectReturns,
           HandleMDSRegister, BroadcastMap, EndMDSRegister, HandleMDSMapUpdateAck, HandleFindMDS,
           HandleMDSRegAck, HandleMDSMapUpdate, HandleFindMDSAck, HandleUnknown, HandleReturn, ReturnTail
  <2> QED
    BY <1>3, <2>1, <2>2, <2>3
<1> QED
  BY <1>3, <1>4

\* Entity e leads to process "to" by a service port, or by a reverse port
\* that no service port hides, when a send is made.
Leads(e, to) ==
  /\ e # Nil /\ to # Nil
  /\ \/ e.port \in DOMAIN service_map'[e.host] /\ service_map'[e.host][e.port] = to
     \/ /\ e.port \notin DOMAIN service_map'[e.host] /\ e.host \in Hosts
        /\ e.port \in DOMAIN proc_revmap[e.host] /\ proc_revmap[e.host][e.port] = to

\* A send to it does not fail.
LEMMA LedSendSucceeds ==
  ASSUME RevIInv, NEW caller, NEW p \in Procs, NEW e, NEW to, Leads(e, to), NEW type, NEW arg,
         Send(caller, p, e, type, arg)
  PROVE  ret' = TRUE /\ Dispatch(service_map', proc_revmap', e) = to
<1> DEFINE h   == HostOf[p]
           i   == FindOrFreePort(proc_revmap[h], RevBase, p)
           rev == [proc_revmap EXCEPT ![h] = Bind(@, i, p)]
<1>1. rev = [g \in Hosts |-> IF g = h THEN Bind(proc_revmap[h], i, p) ELSE proc_revmap[g]]
  BY DEF RevIInv, RevTables
<1>2. \A g \in Hosts : \A j \in DOMAIN proc_revmap[g] : j \in DOMAIN rev[g] /\ rev[g][j] = proc_revmap[g][j]
  BY <1>1 DEF Bind
<1>3. \/ e = Nil
      \/ Dispatch(service_map', rev, e) = Nil
      \/ ret' = TRUE /\ proc_revmap' = rev
  BY DEF Send
<1> HIDE DEF rev
<1>4. Dispatch(service_map', rev, e) = to
  BY <1>2 DEF Dispatch, Leads
<1> QED
  BY <1>3, <1>4 DEF Leads

\* It nests a call for that process,
LEMMA LedSendNests ==
  ASSUME MapsIInv, stack # <<>>, NEW pc, NEW p \in Procs, NEW e, NEW to, Leads(e, to),
         NEW type, NEW arg, Send(TopAt(pc), p, e, type, arg)
  PROVE  /\ Nests(p, e, type, arg, pc) /\ stack'[Len(stack) + 1].to = to
<1>1. ret' = TRUE /\ Dispatch(service_map', proc_revmap', e) = to
  BY LedSendSucceeds DEF MapsIInv
<1>2. Nests(p, e, type, arg, pc)
  BY <1>1, HandlerSends DEF FailsAt
<1> QED
  BY <1>1, <1>2 DEF Nests, Fresh, Waits

\* or begins one.
LEMMA LedSendBegins ==
  ASSUME MapsIInv, NEW p \in Procs, NEW e, NEW to, Leads(e, to),
         NEW type, NEW arg, Send(<<>>, p, e, type, arg)
  PROVE  /\ Len(stack') = 1 /\ DOMAIN stack' = 1 .. 1
         /\ Fresh(p, e, type, arg, stack'[1]) /\ stack'[1].to = to
<1>1. ret' = TRUE /\ Dispatch(service_map', proc_revmap', e) = to
  BY LedSendSucceeds DEF MapsIInv
<1>2. Len(stack') = 1 /\ DOMAIN stack' = 1 .. 1 /\ Fresh(p, e, type, arg, stack'[1])
  BY <1>1, DriverSends DEF Begins
<1> QED
  BY <1>1, <1>2 DEF Fresh, Waits

\* The answer of a handler leads to who has asked.
LEMMA AnswerLeads ==
  ASSUME AnswersIInv, stack # <<>>, Top.pc = "call", UNCHANGED service_map
  PROVE  Leads(Top.src, Top.by)
<1>1. /\ MapsIInv /\ StackFits(stack) /\ LowTables /\ TopWaits
  BY DEF AnswersIInv, TypesIInv
<1>2. /\ Top.src.host \in Hosts /\ Top.src.port \in RevPorts
      /\ Top.src.port \in DOMAIN proc_revmap[Top.src.host]
      /\ proc_revmap[Top.src.host][Top.src.port] = Top.by
      /\ Top.by \in Procs
  BY <1>1, TopFits DEF TopWaits, Ends
<1>3. Top.src.port \notin DOMAIN service_map[Top.src.host]
  BY <1>1, <1>2, RevBaseAssumption DEF LowTables, RevPorts
<1>4. Top.src # Nil
  <2>1. Top.src = Entity(Top.src.host, Top.src.port) /\ Top.src.port \in Nat
    BY <1>1, TopFits DEF Ends
  <2> QED
    BY <1>2, <2>1, NilIsNoEntity DEF Entity
<1> QED
  BY <1>2, <1>3, <1>4, NilAssumption DEF Leads
\* A service that starts takes a free port: it listens there, and those that
\* ran listen where they did, at other entities.
LEMMA RegisterBinds ==
  ASSUME ServiceTypes, TablesAgree, NEW s \in Services, ~Runs(s), RegisterService(s)
  PROVE  /\ Runs(s)' /\ Serves(EntityOf(s), s)' /\ HostOf[s] \in Hosts /\ port'[s] \in Nat
         /\ \A t \in Services : t # s => (Runs(t)' <=> Runs(t)) /\ EntityOf(t)' = EntityOf(t)
         /\ \A t \in Services : Runs(t) => Serves(EntityOf(t), t)' /\ EntityOf(t) # EntityOf(s)'
<1> DEFINE h == HostOf[s]
           p == FreePort(service_map[h], 0)
<1>1. /\ h \in Hosts /\ p \in Nat /\ p \notin DOMAIN service_map[h]
      /\ port' = [port EXCEPT ![s] = p]
      /\ service_map' = [g \in Hosts |-> IF g = h THEN Bind(service_map[h], p, s) ELSE service_map[g]]
  BY RegisterIs
<1>2. /\ st' = [st EXCEPT ![s] = "RUNNING"]
      /\ st \in [Services -> {"LOADED", "RUNNING", "STOPPED"}]
      /\ port \in [Services -> Nat \cup {NoPort}]
  BY DEF RegisterService, ServiceTypes
<1> HIDE DEF p
<1>3. port'[s] = p /\ (\A t \in Services : t # s => port'[t] = port[t])
  BY <1>1, <1>2
<1>4. st'[s] = "RUNNING" /\ (\A t \in Services : t # s => st'[t] = st[t])
  BY <1>2
<1>5. /\ p \in DOMAIN service_map'[h] /\ service_map'[h][p] = s
      /\ \A g \in Hosts : \A i \in DOMAIN service_map[g] :
           i \in DOMAIN service_map'[g] /\ service_map'[g][i] = service_map[g][i]
  BY <1>1 DEF Bind
<1>6. Runs(s)' /\ Serves(EntityOf(s), s)' /\ HostOf[s] \in Hosts /\ port'[s] \in Nat
  BY <1>1, <1>3, <1>4, <1>5 DEF Runs, Serves, EntityOf, Entity
<1>7. \A t \in Services : t # s => (Runs(t)' <=> Runs(t)) /\ EntityOf(t)' = EntityOf(t)
  BY <1>3, <1>4 DEF Runs, EntityOf
<1>8. ASSUME NEW t \in Services, Runs(t) PROVE Serves(EntityOf(t), t)' /\ EntityOf(t) # EntityOf(s)'
  <2>1. t # s /\ HostOf[t] \in Hosts
    BY <1>8, HostsAssumption, ProcsAssumption
  <2>2. port[t] \in DOMAIN service_map[HostOf[t]] /\ service_map[HostOf[t]][port[t]] = t
    BY <1>8 DEF TablesAgree, Serves, EntityOf, Entity
  <2>3. Serves(EntityOf(t), t)'
    BY <1>3, <1>5, <2>1, <2>2 DEF Serves, EntityOf, Entity
  <2>4. HostOf[t] = h => port[t] # p
    BY <1>1, <2>2
  <2> QED
    BY <1>3, <2>3, <2>4 DEF EntityOf, Entity
<1> QED
  BY <1>6, <1>7, <1>8

\* The cluster is told of the monitor, and of nobody else.
MonitorsFollow(s) ==
  IF s = Mon THEN RegisterMonitor(Entity(HostOf[Mon], port'[Mon])) ELSE UNCHANGED monitors

\* So the tables still agree, and each rank has the listener it had.
LEMMA RegisterKeepsTables ==
  ASSUME ServiceTypes, TablesAgree, NEW s \in Services, ~Runs(s), RegisterService(s),
         UNCHANGED mds_active_list, MonitorsFollow(s)
  PROVE  /\ TablesAgree'
         /\ \A r \in DOMAIN mds_active_list : Listener(r)' = Listener(r) /\ mds_active_list[r] # EntityOf(s)'
<1>1. /\ Runs(s)' /\ Serves(EntityOf(s), s)'
      /\ \A t \in Services : t # s => (Runs(t)' <=> Runs(t)) /\ EntityOf(t)' = EntityOf(t)
      /\ \A t \in Services : Runs(t) => Serves(EntityOf(t), t)' /\ EntityOf(t) # EntityOf(s)'
  BY RegisterBinds
<1>2. \A t \in Services : Runs(t)' => Serves(EntityOf(t), t)'
  <2> TAKE t \in Services
  <2>1. CASE t = s
    BY <1>1, <2>1
  <2>2. CASE t # s
    BY <1>1, <2>2
  <2> QED
    BY <2>1, <2>2
<1>3. monitors' # <<>> => Runs(Mon)' /\ monitors'[1] = EntityOf(Mon)'
  <2>1. CASE s = Mon /\ RegisterMonitor(Entity(HostOf[Mon], port'[Mon]))
    <3>1. monitors = <<>>
      BY <2>1 DEF TablesAgree
    <3>2. monitors' = <<EntityOf(Mon)'>>
      BY <2>1, <3>1 DEF RegisterMonitor, EntityOf, Entity
    <3> QED
      BY <1>1, <2>1, <3>2
  <2>2. CASE s # Mon /\ UNCHANGED monitors
    BY <1>1, <2>2 DEF TablesAgree, Services
  <2> QED
    BY <2>1, <2>2 DEF MonitorsFollow
<1>4. ASSUME NEW r \in DOMAIN mds_active_list
      PROVE  /\ \E m \in MDSs : Runs(m)' /\ mds_active_list[r] = EntityOf(m)'
             /\ Listener(r)' = Listener(r) /\ mds_active_list[r] # EntityOf(s)'
  <2>1. PICK m \in MDSs : Runs(m) /\ mds_active_list[r] = EntityOf(m)
    BY DEF TablesAgree
  <2>2. m \in Services /\ m # s
    BY <2>1 DEF Services
  <2>3. Runs(m)' /\ EntityOf(m)' = EntityOf(m) /\ EntityOf(m) # EntityOf(s)' /\ Serves(EntityOf(m), m)'
    BY <1>1, <2>1, <2>2
  <2>4. Serves(EntityOf(m), m)
    BY <2>1, <2>2 DEF TablesAgree
  <2>5. Listener(r) = m
    BY <2>1, <2>4 DEF Listener, ServiceAt, Serves
  <2>6. Listener(r)' = m
    BY <2>1, <2>3 DEF Listener, ServiceAt, Serves
  <2> QED
    BY <2>1, <2>3, <2>5, <2>6
<1> QED
  BY <1>2, <1>3, <1>4 DEF TablesAgree

\* An MDS listens at each rank.
LEMMA ListenerRuns ==
  ASSUME TablesAgree, NEW r \in DOMAIN mds_active_list
  PROVE  /\ Listener(r) \in MDSs /\ Runs(Listener(r)) /\ mds_active_list[r] = EntityOf(Listener(r))
         /\ Serves(mds_active_list[r], Listener(r))
<1>1. PICK m \in MDSs : Runs(m) /\ mds_active_list[r] = EntityOf(m)
  BY DEF TablesAgree
<1>2. Serves(EntityOf(m), m)
  BY <1>1 DEF TablesAgree, Services
<1>3. Listener(r) = m
  BY <1>1, <1>2 DEF Listener, ServiceAt, Serves
<1> QED
  BY <1>1, <1>2, <1>3

\* What leaves the tables alone leaves them in agreement.
LEMMA SameTables ==
  ASSUME TablesAgree, UNCHANGED <<service_map, st, port, monitors, mds_active_list>>
  PROVE  /\ TablesAgree' /\ \A r : Listener(r)' = Listener(r)
         /\ \A s : (Runs(s)' <=> Runs(s)) /\ EntityOf(s)' = EntityOf(s)
<1>1. /\ \A r : Listener(r)' = Listener(r)
      /\ \A s : (Runs(s)' <=> Runs(s)) /\ EntityOf(s)' = EntityOf(s)
      /\ \A e, s : Serves(e, s)' <=> Serves(e, s)
  BY DEF Listener, ServiceAt, Runs, EntityOf, Serves
<1> QED
  BY <1>1 DEF TablesAgree

\* The stack of a registration, by its height.
LEMMA RegistrationStack ==
  ASSUME MapsIInv, StackFits(stack), stack # <<>>
  PROVE  /\ Len(stack) \in {1, 2, 3}
         /\ stack[1].type \in {"MDSREG", "FINDMDS"}
         /\ Registering => stack[1].pc \in {"call", "ack", "bcast"} /\ stack[1].by \in Procs
                           /\ stack[1].src.host = HostOf[stack[1].by] /\ stack[1].arg \in Nat
         /\ Len(stack) = 1 => Top = stack[1]
         /\ Registering /\ Len(stack) = 2 =>
              /\ Top = stack[2]
              /\ \/ stack[1].pc = "ack" /\ Top.type = "MDSREGACK" /\ Top.pc = "call"
                 \/ stack[1].pc = "bcast" /\ Top.type = "MDSMAPUPDATE" /\ Top.pc \in {"call", "tail"}
         /\ Len(stack) = 3 =>
              /\ Top = stack[3] /\ Top.type = "MDSMAPUPDATEACK" /\ Top.pc = "call"
              /\ stack[2].type = "MDSMAPUPDATE" /\ stack[2].pc = "tail"
              /\ Registering /\ stack[1].pc = "bcast"
         /\ Top.type \in {"MDSREG", "MDSREGACK", "MDSMAPUPDATE", "MDSMAPUPDATEACK"} => Registering
         /\ Top.type \in {"FINDMDS", "FINDMDSACK"} => ~Registering
<1>1. PICK n \in Nat \ {0} : n = Len(stack) /\ DOMAIN stack = 1 .. n /\ Top = stack[n]
  BY StackIs
<1>2. \A k \in 1 .. n : FrameFits(stack, k)
  BY <1>1 DEF StackFits
<1>3. n \in {1, 2, 3}
  BY <1>1, TopFits DEF Carries
<1>4. Ends(stack[1]) /\ Carries(stack[1].type, stack[1].arg, stack[1].pc) /\ stack[1].type \in {"MDSREG", "FINDMDS"}
  BY <1>2 DEF FrameFits
<1>5. n > 1 => Carries(stack[2].type, stack[2].arg, stack[2].pc)
               /\ SentAt(stack[2].type, stack[1].type, stack[1].pc)
  <2>1. n > 1 => 2 \in 1 .. n /\ 2 - 1 = 1 /\ 2 # 1
    OBVIOUS
  <2> QED
    BY <1>2, <2>1 DEF FrameFits
<1>6. n = 3 => Carries(stack[3].type, stack[3].arg, stack[3].pc)
               /\ SentAt(stack[3].type, stack[2].type, stack[2].pc)
  <2>1. n = 3 => 3 \in 1 .. n /\ 3 - 1 = 2 /\ 3 # 1
    OBVIOUS
  <2> QED
    BY <1>2, <2>1 DEF FrameFits
<1>7. CASE n = 1
  BY <1>1, <1>4, <1>7 DEF Registering, Carries, Ends
<1>8. CASE n = 2
  BY <1>1, <1>4, <1>5, <1>8 DEF Registering, Carries, Ends, SentAt
<1>9. CASE n = 3
  <2>1. Top.type = "MDSMAPUPDATEACK" /\ Top.pc = "call"
    BY <1>1, <1>6, <1>9, TopFits DEF Carries
  <2>2. stack[2].type = "MDSMAPUPDATE" /\ stack[2].pc = "tail"
    BY <1>1, <1>6, <1>9, <2>1 DEF SentAt
  <2>3. stack[1].type = "MDSREG" /\ stack[1].pc = "bcast"
    BY <1>5, <1>9, <2>2 DEF SentAt
  <2> QED
    BY <1>1, <1>4, <1>9, <2>1, <2>2, <2>3 DEF Registering, Ends, Carries
<1> QED
  BY <1>3, <1>7, <1>8, <1>9
\* A step that neither starts nor ends in a registration keeps the flow, if
\* it leaves tables, maps and ranks alone.
LEMMA NoRegistration ==
  ASSUME TablesAgree, Flow, ~Registering, ~Registering',
         UNCHANGED <<service_map, st, port, monitors, mds_active_list, mds_map, whoami>>
  PROVE  Flow'
<1>1. /\ \A r : Listener(r)' = Listener(r)
      /\ \A s : (Runs(s)' <=> Runs(s)) /\ EntityOf(s)' = EntityOf(s)
  BY SameTables
<1>2. AllTold'
  <2>1. \A r \in DOMAIN mds_active_list : Told(r)
    BY DEF Flow, AllTold
  <2>2. \A r \in DOMAIN mds_active_list : Told(r)'
    BY <1>1, <2>1 DEF Told
  <2> QED
    BY <2>2 DEF AllTold
<1>3. Ranked'
  <2> SUFFICES ASSUME NEW m \in MDSs, Runs(m)' PROVE AtRank(m)'
    BY DEF Ranked
  <2>1. AtRank(m)
    BY <1>1 DEF Flow, Ranked, Unranked
  <2> QED
    BY <1>1, <2>1 DEF AtRank
<1> QED
  BY <1>2, <1>3 DEF Flow

\* A handler of a look-up of the map starts no registration.
LEMMA SendOutsideRegistration ==
  ASSUME MapsIInv, StackFits(stack), stack # <<>>, Top.type = "FINDMDS",
         NEW pc, NEW p \in Procs, NEW e, NEW type, NEW arg, Send(TopAt(pc), p, e, type, arg)
  PROVE  ~Registering /\ ~Registering'
<1>1. Len(stack) = 1 /\ Top = stack[1] /\ ~Registering
  BY TopFits, RegistrationStack
<1>2. PICK n \in Nat \ {0} : n = Len(stack) /\ n = 1
  BY <1>1
<1>3. Moved(stack'[n], pc)
  BY <1>2, HandlerSends DEF FailsAt, Nests
<1> QED
  BY <1>1, <1>2, <1>3 DEF Moved, Registering

\* A return takes no frame away but the top.
LEMMA ReturnLeavesFirst ==
  ASSUME MapsIInv, stack # <<>>, NEW b, Return(b)
  PROVE  /\ Len(stack) = 1 => stack' = <<>>
         /\ Len(stack) > 1 => /\ stack' # <<>> /\ stack'[1] = stack[1]
                              /\ Len(stack') = Len(stack) - 1
         /\ Len(stack) = 3 => stack'[2] = stack[2]
         /\ ret' = b
<1>1. PICK n \in Nat \ {0} : n = Len(stack) /\ DOMAIN stack = 1 .. n
  BY StackIs
<1>2. /\ ret' = b /\ Len(stack') = n - 1 /\ DOMAIN stack' = 1 .. n - 1
      /\ \A k \in 1 .. n - 1 : stack'[k] = stack[k]
  BY <1>1, HandlerReturns DEF Returns
<1>3. n = 1 => stack' = <<>>
  <2>1. stack' = Below /\ IsStack(Below)
    BY BelowFrames DEF MapsIInv, RevIInv, Return
  <2>2. PICK s : s = stack'
    OBVIOUS
  <2> QED
    BY <1>2, <2>1, <2>2, EmptySeq DEF IsStack
<1>4. n > 1 => stack' # <<>> /\ stack'[1] = stack[1]
  <2>1. n > 1 => 1 \in DOMAIN stack' /\ stack'[1] = stack[1]
    BY <1>2
  <2>2. PICK s : s = stack'
    OBVIOUS
  <2> QED
    BY <2>1, <2>2, HasFirst
<1>5. n = 3 => stack'[2] = stack[2]
  BY <1>2
<1> QED
  BY <1>1, <1>2, <1>3, <1>4, <1>5

\* A return outside a registration.
LEMMA ReturnOutsideRegistration ==
  ASSUME MapsIInv, StackFits(stack), stack # <<>>, ~Registering, NEW b, Return(b)
  PROVE  ~Registering'
<1>1. Len(stack) \in {1, 2, 3}
  BY RegistrationStack
<1>2. CASE Len(stack) = 1
  BY <1>2, ReturnLeavesFirst DEF Registering
<1>3. CASE Len(stack) \in {2, 3}
  <2>1. Len(stack) > 1
    BY <1>3
  <2> QED
    BY <2>1, ReturnLeavesFirst DEF Registering
<1> QED
  BY <1>1, <1>2, <1>3

\* The monitor gives an MDS that registers a rank that nobody has, and the
\* entity at it is that of the MDS.
LEMMA RankIsGiven ==
  ASSUME AnswersIInv, TablesAgree, Flow, HandleMDSRegister
  PROVE  LET m == stack[1].by
         IN /\ Registering /\ Len(stack) = 1 /\ Top = stack[1] /\ stack[1].pc = "call"
            /\ m \in MDSs /\ Runs(m) /\ RegistrationOf(m)
            /\ NewRank \notin DOMAIN mds_active_list
            /\ DOMAIN mds_active_list' = DOMAIN mds_active_list \cup {NewRank}
            /\ mds_active_list'[NewRank] = EntityOf(m)
            /\ \A r \in DOMAIN mds_active_list :
                 mds_active_list'[r] = mds_active_list[r] /\ mds_active_list[r] # EntityOf(m)
<1> DEFINE m == stack[1].by
<1>1. MapsIInv /\ StackFits(stack) /\ RanksIInv
  BY DEF AnswersIInv, TypesIInv, MapsIInv
<1>2. /\ stack # <<>> /\ Top.type = "MDSREG" /\ Top.pc = "call"
      /\ mds_active_list' = Bind(mds_active_list, NewRank, Entity(Top.src.host, Top.arg))
  BY DEF HandleMDSRegister, Called, AddMDS
<1>3. Registering /\ Len(stack) = 1 /\ Top = stack[1] /\ stack[1].src.host = HostOf[m]
  BY <1>1, <1>2, TopFits, RegistrationStack
<1>4. RegistrationOf(m)
  BY <1>3 DEF Flow
<1>5. /\ m \in MDSs /\ Runs(m) /\ stack[1].arg = port[m]
      /\ \A r \in DOMAIN mds_active_list : mds_active_list[r] # EntityOf(m)
  BY <1>2, <1>3, <1>4 DEF RegistrationOf
<1>6. Entity(Top.src.host, Top.arg) = EntityOf(m)
  BY <1>3, <1>5 DEF EntityOf
<1>7. PICK k : k = NewRank
  OBVIOUS
<1>8. k \notin DOMAIN mds_active_list
  <2>1. k \in Nat /\ DOMAIN mds_active_list = 0 .. k - 1
    BY <1>1, <1>7, NewRankIsSize
  <2> QED
    BY <2>1
<1>9. mds_active_list' = Bind(mds_active_list, k, EntityOf(m))
  BY <1>2, <1>6, <1>7
<1> HIDE DEF m
<1>10. /\ DOMAIN mds_active_list' = DOMAIN mds_active_list \cup {k}
       /\ mds_active_list'[k] = EntityOf(m)
       /\ \A r \in DOMAIN mds_active_list : mds_active_list'[r] = mds_active_list[r]
  BY <1>8, <1>9 DEF Bind
<1> QED
  BY <1>2, <1>3, <1>4, <1>5, <1>7, <1>8, <1>10 DEF m

\* The tables agree after it.
LEMMA RankKeepsTables ==
  ASSUME AnswersIInv, TablesAgree, Flow, HandleMDSRegister
  PROVE  TablesAgree'
<1>1. PICK m : m = stack[1].by
  OBVIOUS
<1>2. PICK k : k = NewRank
  OBVIOUS
<1>3. /\ m \in MDSs /\ Runs(m)
      /\ DOMAIN mds_active_list' = DOMAIN mds_active_list \cup {k}
      /\ mds_active_list'[k] = EntityOf(m)
      /\ \A r \in DOMAIN mds_active_list :
           mds_active_list'[r] = mds_active_list[r] /\ mds_active_list[r] # EntityOf(m)
  BY <1>1, <1>2, RankIsGiven
<1>4. UNCHANGED <<service_map, st, port, monitors>>
  BY DEF HandleMDSRegister, serviceVars
<1>5. /\ \A s : (Runs(s)' <=> Runs(s)) /\ EntityOf(s)' = EntityOf(s)
      /\ \A e, s : Serves(e, s)' <=> Serves(e, s)
  BY <1>4 DEF Runs, EntityOf, Serves
<1>6. \A r \in DOMAIN mds_active_list' : \E d \in MDSs : Runs(d) /\ mds_active_list'[r] = EntityOf(d)
  BY <1>3 DEF TablesAgree
<1>7. \A q, r \in DOMAIN mds_active_list' : mds_active_list'[q] = mds_active_list'[r] => q = r
  BY <1>3 DEF TablesAgree
<1> QED
  BY <1>4, <1>5, <1>6, <1>7 DEF TablesAgree

\* The MDS is being told its rank, and every other has the one it had.
LEMMA RankKeepsFlow ==
  ASSUME AnswersIInv, TablesAgree, Flow, HandleMDSRegister
  PROVE  Flow'
<1>1. PICK m : m = stack[1].by
  OBVIOUS
<1>2. PICK k : k = NewRank
  OBVIOUS
<1>3. /\ Registering /\ Len(stack) = 1 /\ Top = stack[1] /\ stack[1].pc = "call"
      /\ m \in MDSs /\ Runs(m) /\ RegistrationOf(m)
      /\ DOMAIN mds_active_list' = DOMAIN mds_active_list \cup {k}
      /\ mds_active_list'[k] = EntityOf(m)
      /\ \A r \in DOMAIN mds_active_list : mds_active_list'[r] = mds_active_list[r]
  BY <1>1, <1>2, RankIsGiven
<1>4. /\ MapsIInv /\ Mon \in Procs /\ UNCHANGED <<service_map, st, port, whoami>> /\ stack # <<>>
      /\ Send(TopAt("ack"), Mon, Top.src, "MDSREGACK", k)
  BY <1>2, ProcsType DEF AnswersIInv, TypesIInv, HandleMDSRegister, Called, serviceVars, mdsVars
<1>5. Leads(Top.src, m)
  BY <1>1, <1>3, <1>4, AnswerLeads
<1>6. PICK n \in Nat \ {0} : n = Len(stack) /\ n = 1 /\ n + 1 = 2
  BY <1>3
<1>7. Nests(Mon, Top.src, "MDSREGACK", k, "ack") /\ stack'[2].to = m
  BY <1>4, <1>5, <1>6, LedSendNests
<1>8. /\ Len(stack') = 2 /\ stack' # <<>> /\ Fresh(Mon, Top.src, "MDSREGACK", k, stack'[2])
  BY <1>3, <1>7, OneNests
<1>9. Moved(stack'[1], "ack")
  BY <1>6, <1>7 DEF Nests
<1>10. /\ stack'[1].type = "MDSREG" /\ stack'[1].by = m /\ stack'[1].to = stack[1].to
       /\ stack'[1].arg = stack[1].arg /\ stack'[1].pc = "ack"
       /\ stack'[2].by = Mon /\ stack'[2].arg = k /\ stack'[2].pc = "call"
  BY <1>1, <1>3, <1>8, <1>9 DEF Moved, Fresh, Registering
<1>11. \A s : (Runs(s)' <=> Runs(s)) /\ EntityOf(s)' = EntityOf(s)
  BY <1>4 DEF Runs, EntityOf
<1>12. Registering' /\ Unranked(m)'
  BY <1>8, <1>10 DEF Registering, Unranked
<1>13. RegistrationOf(m)'
  BY <1>3, <1>7, <1>8, <1>10, <1>11, <1>4 DEF RegistrationOf
<1>14. AllTold'
  BY <1>10, <1>12 DEF AllTold
<1>15. Ranked'
  <2> SUFFICES ASSUME NEW d \in MDSs, Runs(d)', d # m PROVE AtRank(d)'
    BY <1>12 DEF Ranked
  <2>1. AtRank(d)
    BY <1>1, <1>11 DEF Flow, Ranked, Unranked
  <2> QED
    BY <1>3, <1>4, <1>11, <2>1 DEF AtRank
<1> QED
  BY <1>10, <1>13, <1>14, <1>15 DEF Flow
\* A return to the first frame of a registration: all are ranked, and the
\* result is TRUE.
LEMMA ReturnToMonitor ==
  ASSUME AnswersIInv, TablesAgree, Flow, Registering, Len(stack) = 2, Return(TRUE),
         UNCHANGED <<service_map, st, port, monitors, mds_active_list, mds_map>>,
         \A m \in MDSs : Runs(m) => AtRank(m)'
  PROVE  Flow'
<1>1. MapsIInv /\ StackFits(stack) /\ stack # <<>> /\ RegistrationOf(stack[1].by)
  BY DEF AnswersIInv, TypesIInv, Registering, Flow
<1>2. PICK m : m = stack[1].by
  OBVIOUS
<1>3. stack[1].pc \in {"ack", "bcast"}
  BY <1>1, RegistrationStack
<1>4. stack' # <<>> /\ stack'[1] = stack[1] /\ Len(stack') = 1 /\ ret'
  <2>1. Len(stack) > 1 /\ Len(stack) - 1 = 1
    OBVIOUS
  <2>2. stack' # <<>> /\ stack'[1] = stack[1] /\ Len(stack') = 1 /\ ret' = TRUE
    BY <1>1, <2>1, ReturnLeavesFirst
  <2> QED
    BY <2>2, Zenon
<1>5. Registering' /\ stack'[1].by = m
  BY <1>2, <1>4 DEF Registering
<1>6. \A s : (Runs(s)' <=> Runs(s)) /\ EntityOf(s)' = EntityOf(s)
  BY SameTables
<1>7. ~(Len(stack') > 1) /\ Len(stack') # 2 /\ Len(stack') # 3
  BY <1>4
<1>8. RegistrationOf(m)'
  BY <1>1, <1>2, <1>3, <1>4, <1>6, <1>7 DEF RegistrationOf
<1>9. AllTold' /\ Ranked'
  BY <1>3, <1>4, <1>5, <1>6 DEF AllTold, Ranked
<1> QED
  BY <1>5, <1>8, <1>9 DEF Flow

\* The MDS takes note of the rank it was given.
LEMMA AckKeepsFlow ==
  ASSUME AnswersIInv, TablesAgree, Flow, NEW d \in MDSs, HandleMDSRegAck(d)
  PROVE  Flow'
<1>1. /\ MapsIInv /\ StackFits(stack) /\ stack # <<>> /\ Top.to = d /\ Top.type = "MDSREGACK"
      /\ whoami' = [whoami EXCEPT ![d] = Top.arg] /\ whoami \in [MDSs -> Nat \cup {Nil}]
      /\ Return(TRUE)
      /\ UNCHANGED <<service_map, st, port, monitors, mds_active_list, mds_map>>
  BY DEF AnswersIInv, TypesIInv, Scalars, HandleMDSRegAck, Called, serviceVars, monVars
<1>2. Registering /\ Len(stack) = 2 /\ Top = stack[2] /\ stack[1].pc = "ack"
  BY <1>1, TopFits, RegistrationStack
<1>3. PICK m : m = stack[1].by
  OBVIOUS
<1>4. d = m /\ Top.arg \in DOMAIN mds_active_list /\ mds_active_list[Top.arg] = EntityOf(m)
  <2>1. Len(stack) > 1 /\ RegistrationOf(m)
    BY <1>2, <1>3 DEF Flow
  <2> QED
    BY <1>1, <1>2, <2>1 DEF RegistrationOf
<1>5. \A s : (Runs(s)' <=> Runs(s)) /\ EntityOf(s)' = EntityOf(s)
  BY <1>1, SameTables
<1>6. ASSUME NEW e \in MDSs, Runs(e) PROVE AtRank(e)'
  <2>1. CASE e = m
    <3>1. whoami'[e] = Top.arg
      BY <1>1, <1>4, <2>1
    <3> QED
      BY <1>1, <1>4, <1>5, <2>1, <3>1 DEF AtRank
  <2>2. CASE e # m
    <3>1. AtRank(e) /\ whoami'[e] = whoami[e]
      BY <1>1, <1>3, <1>4, <1>6, <2>2 DEF Flow, Ranked, Unranked
    <3> QED
      BY <1>1, <1>5, <3>1 DEF AtRank
  <2> QED
    BY <2>1, <2>2
<1> QED
  BY <1>1, <1>2, <1>6, ReturnToMonitor

\* The frame of the monitor during the broadcast, whose sends do not fail.
LEMMA BroadcastKeepsFlow ==
  ASSUME AnswersIInv, TablesAgree, Flow, BroadcastMap
  PROVE  Flow'
<1>1. /\ MapsIInv /\ StackFits(stack) /\ RanksIInv /\ stack # <<>> /\ Top.pc \in {"ack", "bcast"}
      /\ Unsent # {} /\ Mon \in Procs
      /\ UNCHANGED <<service_map, st, port, monitors, mds_active_list, mds_map, whoami>>
  BY ProcsType DEF AnswersIInv, TypesIInv, MapsIInv, BroadcastMap, Resumed, serviceVars, mdsVars
<1>2. PICK e : e = mds_active_list[LowestUnsent]
  OBVIOUS
<1>3. Send(TopAt("bcast"), Mon, e, "MDSMAPUPDATE", mds_active_list)
  BY <1>2 DEF BroadcastMap
<1>4. Registering /\ Len(stack) = 1 /\ Top = stack[1]
  BY <1>1, TopFits, RegistrationStack
<1>5. PICK m : m = stack[1].by
  OBVIOUS
<1>6. RegistrationOf(m)
  BY <1>4, <1>5 DEF Flow
<1>7. PICK r \in DOMAIN mds_active_list : r = LowestUnsent
  BY <1>1, LowestUnsentIs
<1>8. Leads(e, Listener(r))
  <2>1. Listener(r) \in MDSs /\ Serves(e, Listener(r)) /\ e = EntityOf(Listener(r))
    BY <1>2, <1>7, ListenerRuns
  <2>2. Listener(r) # Nil
    BY <2>1, ProcsType, NilAssumption
  <2>3. e \in [host : Hosts, port : Nat]
    <3>1. e.host \in Hosts /\ e.port \in Nat
      BY <1>2, <1>7 DEF AnswersIInv, TypesIInv, RankMaps, IsRankMap
    <3> QED
      BY <2>1, <3>1 DEF EntityOf, Entity
  <2> QED
    BY <1>1, <2>1, <2>2, <2>3, NilIsNoEntity DEF Leads, Serves
<1>9. Nests(Mon, e, "MDSMAPUPDATE", mds_active_list, "bcast")
  BY <1>1, <1>3, <1>8, LedSendNests
<1>10. /\ Len(stack') = 2 /\ stack' # <<>> /\ Fresh(Mon, e, "MDSMAPUPDATE", mds_active_list, stack'[2])
  BY <1>4, <1>9, OneNests
<1>11. Moved(stack'[1], "bcast")
  BY <1>4, <1>9 DEF Nests
<1>12. /\ stack'[1].type = "MDSREG" /\ stack'[1].by = m /\ stack'[1].to = stack[1].to
       /\ stack'[1].arg = stack[1].arg /\ stack'[1].pc = "bcast"
       /\ stack'[2].by = Mon /\ stack'[2].pc = "call"
  BY <1>4, <1>5, <1>10, <1>11 DEF Moved, Fresh, Registering
<1>13. \A s : (Runs(s)' <=> Runs(s)) /\ EntityOf(s)' = EntityOf(s)
  BY <1>1, SameTables
<1>14. Registering' /\ AllTold'
  BY <1>10, <1>12 DEF Registering, AllTold
<1>15. RegistrationOf(m)'
  <2>1. ~(Len(stack') = 1) /\ ~(Len(stack') = 3) /\ port' = port
    BY <1>1, <1>10
  <2>2. m \in MDSs /\ Runs(m)' /\ stack'[1].to = Mon /\ stack'[1].arg = port'[m]
    BY <1>6, <1>12, <1>13, <2>1 DEF RegistrationOf
  <2> QED
    BY <1>12, <2>1, <2>2 DEF RegistrationOf
<1>16. Ranked'
  <2> SUFFICES ASSUME NEW d \in MDSs, Runs(d)' PROVE AtRank(d)'
    BY DEF Ranked
  <2>1. ~Unranked(d)
    BY <1>1, <1>4 DEF Unranked
  <2>2. AtRank(d)
    BY <1>13, <2>1 DEF Flow, Ranked
  <2> QED
    BY <1>1, <1>13, <2>2 DEF AtRank
<1> QED
  BY <1>12, <1>14, <1>15, <1>16 DEF Flow

\* At the end of the registration every rank was told.
LEMMA EndKeepsFlow ==
  ASSUME AnswersIInv, BroadcastIInv, TablesAgree, Flow, EndMDSRegister
  PROVE  Flow'
<1>1. /\ MapsIInv /\ StackFits(stack) /\ stack # <<>> /\ Top.pc \in {"ack", "bcast"}
      /\ ~ret \/ Unsent = {}
      /\ Return(ret) /\ DOMAIN mds_active_list \subseteq Nat
      /\ UNCHANGED <<service_map, st, port, monitors, mds_active_list, mds_map, whoami>>
  BY NewRankIsSize DEF AnswersIInv, TypesIInv, MapsIInv, EndMDSRegister, Resumed, serviceVars, mdsVars
<1>2. Registering /\ Len(stack) = 1 /\ Top = stack[1]
  BY <1>1, TopFits, RegistrationStack
<1>3. ret
  BY <1>1, <1>2 DEF Flow, RegistrationOf
<1>4. ASSUME NEW r \in DOMAIN mds_active_list PROVE Told(r)
  <2>1. Top.pc = "bcast" /\ ~(r > bcast)
    BY <1>1, <1>3 DEF Unsent
  <2>2. Broadcasting
    BY <1>1, <1>2, <2>1 DEF Broadcasting
  <2>3. bcast \in Nat /\ (r < bcast => Told(r)) /\ Told(bcast)
    BY <1>1, <1>2, <1>3, <2>2 DEF BroadcastIInv
  <2>4. r = bcast \/ r < bcast
    BY <1>1, <2>1, <2>3
  <2> QED
    BY <2>3, <2>4
<1>5. stack' = <<>>
  BY <1>1, <1>2, ReturnLeavesFirst
<1>6. ~Registering'
  BY <1>5 DEF Registering
<1>7. /\ \A r : Listener(r)' = Listener(r)
      /\ \A s : (Runs(s)' <=> Runs(s)) /\ EntityOf(s)' = EntityOf(s)
  BY <1>1, SameTables
<1>8. AllTold'
  <2>1. \A r \in DOMAIN mds_active_list : Told(r)'
    BY <1>1, <1>4, <1>7 DEF Told
  <2> QED
    BY <1>1, <2>1 DEF AllTold
<1>9. Ranked'
  <2> SUFFICES ASSUME NEW d \in MDSs, Runs(d)' PROVE AtRank(d)'
    BY DEF Ranked
  <2>1. ~Unranked(d)
    BY <1>1, <1>2 DEF Unranked
  <2>2. AtRank(d)
    BY <1>7, <2>1 DEF Flow, Ranked
  <2> QED
    BY <1>1, <1>7, <2>2 DEF AtRank
<1> QED
  BY <1>6, <1>8, <1>9 DEF Flow
\* What happens above the first frame during the broadcast.
LEMMA InBroadcast ==
  ASSUME TablesAgree, Flow, Registering, stack[1].pc = "bcast",
         UNCHANGED <<service_map, st, port, monitors, mds_active_list, whoami>>,
         stack' # <<>>, stack'[1] = stack[1], Len(stack') \in {2, 3}, stack'[2].by = Mon,
         Len(stack') = 2 /\ stack'[2].pc = "tail" => ret', Len(stack') = 3 => stack'[3].to = Mon
  PROVE  Flow'
<1>1. PICK m : m = stack[1].by
  OBVIOUS
<1>2. RegistrationOf(m) /\ Registering' /\ stack'[1].by = m
  BY <1>1 DEF Flow, Registering
<1>3. \A s : (Runs(s)' <=> Runs(s)) /\ EntityOf(s)' = EntityOf(s)
  BY SameTables
<1>4. RegistrationOf(m)'
  <2>1. ~(Len(stack') = 1) /\ port' = port
    OBVIOUS
  <2>2. m \in MDSs /\ Runs(m)' /\ stack'[1].to = Mon /\ stack'[1].arg = port'[m]
    BY <1>2, <1>3, <2>1 DEF RegistrationOf
  <2> QED
    BY <2>1, <2>2 DEF RegistrationOf
<1>5. AllTold'
  BY <1>2 DEF AllTold
<1>6. Ranked'
  <2> SUFFICES ASSUME NEW d \in MDSs, Runs(d)' PROVE AtRank(d)'
    BY DEF Ranked
  <2>1. AtRank(d)
    BY <1>3 DEF Flow, Ranked, Unranked
  <2> QED
    BY <1>3, <2>1 DEF AtRank
<1> QED
  BY <1>2, <1>4, <1>5, <1>6 DEF Flow

\* An MDS that is told answers to the monitor,
LEMMA StoreKeepsFlow ==
  ASSUME AnswersIInv, TablesAgree, Flow, NEW d \in MDSs, HandleMDSMapUpdate(d)
  PROVE  Flow'
<1>1. /\ MapsIInv /\ StackFits(stack) /\ d \in Procs /\ stack # <<>>
      /\ Top.type = "MDSMAPUPDATE" /\ Top.pc = "call"
      /\ Send(TopAt("tail"), d, Top.src, "MDSMAPUPDATEACK", Nil)
      /\ UNCHANGED <<service_map, st, port, monitors, mds_active_list, whoami>>
  BY ProcsType DEF AnswersIInv, TypesIInv, HandleMDSMapUpdate, Called, serviceVars, monVars
<1>2. Registering /\ Len(stack) = 2 /\ Top = stack[2] /\ stack[1].pc = "bcast"
  BY <1>1, TopFits, RegistrationStack
<1>3. PICK n \in Nat \ {0} : n = Len(stack) /\ n = 2 /\ n + 1 = 3
  BY <1>2
<1>4. Top.by = Mon
  BY <1>2, <1>3 DEF Flow, RegistrationOf
<1>5. Leads(Top.src, Mon)
  BY <1>1, <1>4, AnswerLeads
<1>6. Nests(d, Top.src, "MDSMAPUPDATEACK", Nil, "tail") /\ stack'[3].to = Mon
  BY <1>1, <1>3, <1>5, LedSendNests
<1>7. stack'[1] = stack[1] /\ stack' # <<>> /\ Moved(stack'[2], "tail")
  <2>1. Len(stack) \in {2, 3}
    BY <1>2
  <2> QED
    BY <1>2, <1>6, <2>1, AboveFirst
<1>8. Len(stack') = 3
  BY <1>3, <1>6 DEF Nests
<1>9. stack'[2].by = Mon
  BY <1>4, <1>7 DEF Moved
<1>10. Len(stack') \in {2, 3} /\ ~(Len(stack') = 2)
  BY <1>8
<1> QED
  BY <1>1, <1>2, <1>6, <1>7, <1>9, <1>10, InBroadcast

\* whose handler returns TRUE,
LEMMA UpdateAckKeepsFlow ==
  ASSUME AnswersIInv, TablesAgree, Flow, HandleMDSMapUpdateAck
  PROVE  Flow'
<1>1. /\ MapsIInv /\ StackFits(stack) /\ stack # <<>> /\ Top.type = "MDSMAPUPDATEACK" /\ Return(TRUE)
      /\ UNCHANGED <<service_map, st, port, monitors, mds_active_list, whoami>>
  BY DEF AnswersIInv, TypesIInv, HandleMDSMapUpdateAck, Called, serviceVars, monVars, mdsVars
<1>2. Registering /\ Len(stack) = 3 /\ stack[1].pc = "bcast"
  BY <1>1, TopFits, RegistrationStack
<1>3. /\ stack' # <<>> /\ stack'[1] = stack[1] /\ stack'[2] = stack[2] /\ Len(stack') = 2
      /\ ret' = TRUE
  <2>1. Len(stack) > 1 /\ Len(stack) - 1 = 2
    BY <1>2
  <2> QED
    BY <1>1, <1>2, <2>1, ReturnLeavesFirst
<1>4. ret'
  BY <1>3, Zenon
<1>5. Len(stack) > 1
  BY <1>2
<1>6. stack'[2].by = Mon
  BY <1>2, <1>3, <1>5 DEF Flow, RegistrationOf
<1>7. Len(stack') \in {2, 3} /\ ~(Len(stack') = 3)
  BY <1>3
<1> QED
  BY <1>1, <1>2, <1>3, <1>4, <1>6, <1>7, InBroadcast

\* and what the MDS then returns.
LEMMA TailKeepsFlow ==
  ASSUME AnswersIInv, TablesAgree, Flow, HandleReturn
  PROVE  Flow'
<1>1. /\ MapsIInv /\ StackFits(stack) /\ stack # <<>> /\ Top.pc = "tail" /\ Return(ret)
      /\ UNCHANGED <<service_map, st, port, monitors, mds_active_list, mds_map, whoami>>
  BY DEF AnswersIInv, TypesIInv, HandleReturn, ReturnTail, Resumed, serviceVars, monVars, mdsVars
<1>2. CASE ~Registering
  BY <1>1, <1>2, ReturnOutsideRegistration, NoRegistration
<1>3. CASE Registering
  <2>1. Len(stack) = 2 /\ Top = stack[2] /\ stack[1].pc = "bcast"
    BY <1>1, <1>3, RegistrationStack
  <2>2. ret
    BY <1>1, <1>3, <2>1 DEF Flow, RegistrationOf
  <2>3. Return(TRUE)
    <3>1. ret = TRUE
      BY <2>2, Zenon DEF AnswersIInv, TypesIInv, Booleans
    <3> QED
      BY <1>1, <3>1
  <2>4. \A d \in MDSs : Runs(d) => AtRank(d)'
    <3> SUFFICES ASSUME NEW d \in MDSs, Runs(d) PROVE AtRank(d)'
      OBVIOUS
    <3>1. AtRank(d)
      BY <2>1 DEF Flow, Ranked, Unranked
    <3>2. EntityOf(d)' = EntityOf(d)
      BY <1>1, SameTables
    <3> QED
      BY <1>1, <3>1, <3>2 DEF AtRank
  <2> QED
    BY <1>1, <1>3, <2>1, <2>3, <2>4, ReturnToMonitor
<1> QED
  BY <1>2, <1>3

\* No message of a registration comes to a process without a handler for it.
LEMMA UnknownKeepsFlow ==
  ASSUME AnswersIInv, BroadcastIInv, TablesAgree, Flow, HandleUnknown
  PROVE  Flow'
<1>1. /\ MapsIInv /\ StackFits(stack) /\ stack # <<>> /\ Top.pc = "call" /\ Top.type \notin Handled(Top.to)
      /\ Return(FALSE)
      /\ UNCHANGED <<service_map, st, port, monitors, mds_active_list, mds_map, whoami>>
  BY DEF AnswersIInv, TypesIInv, HandleUnknown, Resumed, serviceVars, monVars, mdsVars
<1>2. ~Registering
  <2> SUFFICES ASSUME Registering PROVE FALSE
    OBVIOUS
  <2>1. PICK m : m = stack[1].by
    OBVIOUS
  <2>2. RegistrationOf(m)
    BY <2>1 DEF Flow
  <2>3. CASE Len(stack) = 1
    <3>1. Top.to = Mon /\ Top.type = "MDSREG"
      BY <1>1, <2>2, <2>3, RegistrationStack DEF Registering, RegistrationOf
    <3> QED
      BY <1>1, <3>1 DEF Handled
  <2>4. CASE Len(stack) = 2 /\ stack[1].pc = "ack"
    <3>1. Len(stack) > 1 /\ Top = stack[2] /\ Top.type = "MDSREGACK"
      BY <1>1, <2>4, RegistrationStack
    <3>2. Top.to \in MDSs
      BY <2>2, <2>4, <3>1 DEF RegistrationOf
    <3> QED
      BY <1>1, <3>1, <3>2, ProcsAssumption DEF Handled
  <2>5. CASE Len(stack) = 2 /\ stack[1].pc = "bcast"
    <3>1. Len(stack) > 1 /\ Top = stack[2] /\ Top.type = "MDSMAPUPDATE" /\ Broadcasting
      BY <1>1, <2>5, RegistrationStack DEF Broadcasting
    <3>2. bcast \in DOMAIN mds_active_list /\ Top.to = Listener(bcast)
      BY <3>1 DEF BroadcastIInv
    <3>3. Top.to \in MDSs
      BY <3>2, ListenerRuns
    <3> QED
      BY <1>1, <3>1, <3>3, ProcsAssumption DEF Handled
  <2>6. CASE Len(stack) = 3
    <3>1. Top.to = Mon /\ Top.type = "MDSMAPUPDATEACK"
      BY <1>1, <2>2, <2>6, RegistrationStack DEF RegistrationOf
    <3> QED
      BY <1>1, <3>1 DEF Handled
  <2> QED
    BY <1>1, <2>3, <2>4, <2>5, <2>6, RegistrationStack
<1> QED
  BY <1>1, <1>2, ReturnOutsideRegistration, NoRegistration
\* A service that starts leaves the ranks known and told.
LEMMA RegisterKeepsTold ==
  ASSUME ServiceTypes, TablesAgree, Flow, stack = <<>>, NEW s \in Services, ~Runs(s), RegisterService(s),
         UNCHANGED <<mds_active_list, mds_map, whoami>>,
         MonitorsFollow(s)
  PROVE  /\ \A d \in MDSs : d # s /\ Runs(d)' => AtRank(d)'
         /\ \A r \in DOMAIN mds_active_list : Told(r)'
<1>1. /\ \A t \in Services : t # s => (Runs(t)' <=> Runs(t)) /\ EntityOf(t)' = EntityOf(t)
      /\ \A r \in DOMAIN mds_active_list : Listener(r)' = Listener(r)
  BY RegisterBinds, RegisterKeepsTables
<1>2. ~Registering
  BY DEF Registering
<1>3. ASSUME NEW d \in MDSs, d # s, Runs(d)' PROVE AtRank(d)'
  <2>1. Runs(d) /\ EntityOf(d)' = EntityOf(d)
    BY <1>1, <1>3 DEF Services
  <2>2. AtRank(d)
    BY <1>2, <2>1 DEF Flow, Ranked, Unranked
  <2> QED
    BY <2>1, <2>2 DEF AtRank
<1>4. \A r \in DOMAIN mds_active_list : Told(r)
  BY <1>2 DEF Flow, AllTold
<1>5. \A r \in DOMAIN mds_active_list : Told(r)'
  BY <1>1, <1>4 DEF Told
<1> QED
  BY <1>3, <1>5

\* The monitor starts.
LEMMA StartMonKeepsAgreement ==
  ASSUME ServiceTypes, TablesAgree, Flow, StartMon, ~Runs(Mon)
  PROVE  TablesAgree' /\ Flow'
<1>1. /\ Mon \in Services /\ stack = <<>> /\ RegisterService(Mon)
      /\ MonitorsFollow(Mon)
      /\ UNCHANGED <<stack, mds_active_list, mds_map, whoami>>
  BY DEF StartMon, Idle, Services, monVars, mdsVars, MonitorsFollow
<1>2. ~Registering'
  BY <1>1 DEF Registering
<1>3. TablesAgree'
  BY <1>1, RegisterKeepsTables
<1>4. /\ \A d \in MDSs : d # Mon /\ Runs(d)' => AtRank(d)'
      /\ \A r \in DOMAIN mds_active_list : Told(r)'
  BY <1>1, RegisterKeepsTold
<1>5. Flow'
  BY <1>1, <1>2, <1>4, ProcsAssumption DEF Flow, Ranked, AllTold
<1> QED
  BY <1>3, <1>5

\* An MDS starts, and what it sends reaches the monitor.
LEMMA StartKeepsAgreement ==
  ASSUME AnswersIInv, TablesAgree, Flow, NEW m \in MDSs, Start(m), ~Runs(m)
  PROVE  TablesAgree' /\ Flow'
<1>1. /\ ServiceTypes /\ MapsIInv /\ m \in Services /\ m # Mon /\ Mon \in Services /\ m \in Procs /\ stack = <<>>
      /\ monitors # <<>> /\ RegisterService(m)
      /\ Send(<<>>, m, monitors[1], "MDSREG", port'[m])
      /\ MonitorsFollow(m) /\ UNCHANGED <<mds_active_list, mds_map, whoami>>
  BY ProcsType, ProcsAssumption
     DEF AnswersIInv, TypesIInv, Start, Idle, Services, monVars, mdsVars, MonitorsFollow
<1>2. /\ TablesAgree' /\ \A r \in DOMAIN mds_active_list : mds_active_list[r] # EntityOf(m)'
  BY <1>1, RegisterKeepsTables
<1>3. /\ \A d \in MDSs : d # m /\ Runs(d)' => AtRank(d)'
      /\ \A r \in DOMAIN mds_active_list : Told(r)'
  BY <1>1, RegisterKeepsTold
<1>4. PICK e : e = monitors[1]
  OBVIOUS
<1>5. Leads(e, Mon)
  <2>1. Runs(Mon) /\ e = EntityOf(Mon)
    BY <1>1, <1>4 DEF TablesAgree
  <2>2. Serves(EntityOf(Mon), Mon)' /\ EntityOf(Mon)' = EntityOf(Mon)
    BY <1>1, <2>1, RegisterBinds
  <2>3. e \in EntityType
    <3>1. monitors \in Seq(EntityType)
      BY <1>1 DEF ServiceTypes
    <3> QED
      BY <1>1, <1>4, <3>1, HeadTailProperties
  <2>4. e # Nil /\ Mon # Nil
    BY <2>3, ProcsType, NilAssumption, NilIsNoEntity DEF EntityType
  <2>5. PICK f : f = EntityOf(Mon)
    OBVIOUS
  <2>6. f.port \in DOMAIN service_map'[f.host] /\ service_map'[f.host][f.port] = Mon
    BY <2>2, <2>5 DEF Serves
  <2> QED
    BY <2>1, <2>4, <2>5, <2>6 DEF Leads
<1>6. PICK a : a = port'[m]
  OBVIOUS
<1>7. /\ Len(stack') = 1 /\ DOMAIN stack' = 1 .. 1
      /\ Fresh(m, e, "MDSREG", a, stack'[1]) /\ stack'[1].to = Mon
  BY <1>1, <1>4, <1>5, <1>6, LedSendBegins
<1>8. /\ stack'[1].type = "MDSREG" /\ stack'[1].by = m /\ stack'[1].arg = port'[m] /\ stack'[1].pc = "call"
  BY <1>6, <1>7 DEF Fresh
<1>9. stack' # <<>>
  <2>1. PICK s : s = stack'
    OBVIOUS
  <2>2. 1 \in DOMAIN s
    BY <1>7, <2>1
  <2> QED
    BY <2>1, <2>2, HasFirst
<1>10. Registering' /\ Unranked(m)'
  BY <1>8, <1>9 DEF Registering, Unranked
<1>11. RegistrationOf(m)'
  <2>1. Runs(m)' /\ ~(Len(stack') > 1) /\ Len(stack') # 2 /\ Len(stack') # 3
    BY <1>1, <1>7, RegisterBinds
  <2> QED
    BY <1>1, <1>2, <1>7, <1>8, <2>1 DEF RegistrationOf
<1>12. Ranked' /\ AllTold'
  BY <1>1, <1>3, <1>10 DEF Ranked, AllTold
<1> QED
  BY <1>2, <1>8, <1>10, <1>11, <1>12 DEF Flow

\* Every step keeps the views in agreement, unless it upsets something.
LEMMA NextKeepsAgreement ==
  ASSUME AnswersIInv, BroadcastIInv, AgreeIInv, [Next]_vars
  PROVE  AgreeIInv'
<1> SUFFICES ASSUME upsets' = 0 PROVE TablesAgree' /\ Flow'
  BY DEF AgreeIInv
<1>1. /\ ServiceTypes /\ MapsIInv /\ StackFits(stack) /\ Mon \in Procs /\ MDSs \subseteq Procs /\ Clients \subseteq Procs
  BY ProcsType DEF AnswersIInv, TypesIInv
<1>2. /\ upsets = 0 /\ \A s \in Services : ~Stop(s) /\ (RegisterService(s) => ~Runs(s))
  BY <1>1, NotUpset
<1>3. TablesAgree /\ Flow
  BY <1>2 DEF AgreeIInv
<1>4. CASE StartMon
  <2>1. ~Runs(Mon)
    BY <1>2, <1>4 DEF StartMon, Services
  <2> QED
    BY <1>1, <1>3, <1>4, <2>1, StartMonKeepsAgreement
<1>5. ASSUME NEW m \in MDSs, Start(m) PROVE TablesAgree' /\ Flow'
  <2>1. ~Runs(m)
    BY <1>2, <1>5 DEF Start, Services
  <2> QED
    BY <1>3, <1>5, <2>1, StartKeepsAgreement
<1>6. CASE HandleMDSRegister
  BY <1>3, <1>6, RankKeepsTables, RankKeepsFlow
<1>7. CASE UNCHANGED <<service_map, st, port, monitors, mds_active_list>>
  <2>1. TablesAgree'
    BY <1>3, <1>7, SameTables
  <2>2. CASE ~Registering /\ ~Registering' /\ UNCHANGED <<mds_map, whoami>>
    BY <1>3, <1>7, <2>1, <2>2, NoRegistration
  <2>3. ASSUME NEW c \in Clients, Connect(c) PROVE Flow'
    <3>1. /\ c \in Procs /\ stack = <<>> /\ UNCHANGED <<mds_map, whoami>>
          /\ Send(<<>>, c, monitors[1], "FINDMDS", Nil)
      BY <1>1, <2>3 DEF Connect, Idle, mdsVars
    <3>2. stack' = <<>> \/ Fresh(c, monitors[1], "FINDMDS", Nil, stack'[1])
      BY <1>1, <3>1, DriverSends DEF Begins
    <3>3. ~Registering /\ ~Registering'
      BY <3>1, <3>2 DEF Registering, Fresh
    <3> QED
      BY <2>2, <3>1, <3>3
  <2>4. CASE HandleFindMDS
    <3>1. /\ stack # <<>> /\ Top.type = "FINDMDS" /\ UNCHANGED <<mds_map, whoami>>
          /\ Send(TopAt("tail"), Mon, Top.src, "FINDMDSACK", mds_active_list)
      BY <2>4 DEF HandleFindMDS, Called, mdsVars
    <3>2. ~Registering /\ ~Registering'
      BY <1>1, <3>1, SendOutsideRegistration
    <3> QED
      BY <2>2, <3>1, <3>2
  <2>5. ASSUME NEW c \in Clients, HandleFindMDSAck(c) PROVE Flow'
    <3>1. /\ stack # <<>> /\ Top.type = "FINDMDSACK" /\ UNCHANGED <<mds_map, whoami>>
          /\ Return(DOMAIN Top.arg # {})
      BY <2>5 DEF HandleFindMDSAck, Called, mdsVars
    <3>2. ~Registering
      BY <1>1, <3>1, RegistrationStack
    <3>3. ~Registering'
      BY <1>1, <3>1, <3>2, ReturnOutsideRegistration
    <3> QED
      BY <2>2, <3>1, <3>2, <3>3
  <2>6. ASSUME NEW c \in Clients, ConnectReturns(c) PROVE Flow'
    <3>1. stack = <<>> /\ stack' = <<>> /\ UNCHANGED <<mds_map, whoami>>
      BY <2>6 DEF ConnectReturns, msgVars, mdsVars
    <3> QED
      BY <2>2, <3>1 DEF Registering
  <2>7. CASE UNCHANGED vars
    <3>1. UNCHANGED <<stack, ret, mds_map, whoami, service_map, port>>
      BY <2>7 DEF vars, msgVars, serviceVars, mdsVars
    <3>2. /\ \A r : Listener(r)' = Listener(r) /\ (Told(r)' <=> Told(r))
          /\ \A s : (Runs(s)' <=> Runs(s)) /\ EntityOf(s)' = EntityOf(s)
      BY <1>7, <3>1 DEF Listener, ServiceAt, Told, Runs, EntityOf
    <3>3. /\ Registering' <=> Registering
          /\ \A m : (AtRank(m)' <=> AtRank(m)) /\ (Unranked(m)' <=> Unranked(m))
      BY <1>7, <3>1, <3>2 DEF Registering, AtRank, Unranked
    <3>4. \A m : RegistrationOf(m) => RegistrationOf(m)'
      BY <1>7, <3>1, <3>2 DEF RegistrationOf
    <3>5. Ranked' /\ AllTold'
      BY <1>3, <1>7, <3>1, <3>2, <3>3 DEF Flow, Ranked, AllTold
    <3>6. PICK m : m = stack[1].by
      OBVIOUS
    <3>7. (Registering' => RegistrationOf(m)') /\ stack'[1].by = m
      BY <1>3, <3>1, <3>3, <3>4, <3>6 DEF Flow
    <3> QED
      BY <2>1, <3>5, <3>7 DEF Flow
  <2>8. \/ BroadcastMap \/ EndMDSRegister \/ HandleMDSMapUpdateAck \/ HandleReturn \/ HandleUnknown
        \/ \E m \in MDSs : HandleMDSRegAck(m) \/ HandleMDSMapUpdate(m)
        => Flow'
    BY <1>3, BroadcastKeepsFlow, EndKeepsFlow, UpdateAckKeepsFlow, TailKeepsFlow, UnknownKeepsFlow,
       AckKeepsFlow, StoreKeepsFlow
  <2>9. CASE StartMon \/ HandleMDSRegister \/ (\E m \in MDSs : Start(m))
    BY <1>4, <1>5, <1>6, <2>9
  <2>10. (\E c \in Clients : ConnectAgain(c)) => UNCHANGED vars
    BY DEF ConnectAgain
  <2> QED
    BY <1>2, <2>1, <2>3, <2>4, <2>5, <2>6, <2>7, <2>8, <2>9, <2>10 DEF Next, Step
<1>8. \/ UNCHANGED <<service_map, st, port, monitors, mds_active_list>>
      \/ StartMon \/ (\E m \in MDSs : Start(m)) \/ (\E s \in Services : Stop(s)) \/ HandleMDSRegister
  BY DEF Next, Step, vars, msgVars, serviceVars, monVars, Connect, ConnectAgain, ConnectReturns,
         BroadcastMap, EndMDSRegister, HandleMDSMapUpdateAck, HandleFindMDS,
         HandleMDSRegAck, HandleMDSMapUpdate, HandleFindMDSAck, HandleUnknown, HandleReturn, ReturnTail
<1> QED
  BY <1>2, <1>4, <1>5, <1>6, <1>7, <1>8

\* At first nothing runs.
LEMMA InitAgreement == Init => AgreeIInv
<1> SUFFICES ASSUME Init PROVE TablesAgree /\ Flow
  BY DEF AgreeIInv
<1>1. \A s \in Services : ~Runs(s)
  BY DEF Init, Runs
<1>2. /\ monitors = <<>> /\ DOMAIN mds_active_list = {} /\ ~Registering
  BY DEF Init, MessagingInit, EmptyMap, Registering
<1> QED
  BY <1>1, <1>2 DEF TablesAgree, Flow, Ranked, AllTold, Services

\* As long as nothing was upset every MDS that runs has, between two calls of
\* the driver, the whole map and a rank of its own, and it is the one that
\* the map has its entity at.
THEOREM ViewsAlwaysAgree == Spec => []ViewsAgree
<1>1. AgreeIInv => ViewsAgree
  <2> SUFFICES ASSUME AgreeIInv, Idle, upsets = 0, NEW m \in MDSs, st[m] = "RUNNING"
               PROVE  /\ mds_map[m] = mds_active_list
                      /\ whoami[m] \in DOMAIN mds_active_list
                      /\ \A r \in DOMAIN mds_active_list :
                           mds_active_list[r] = Entity(HostOf[m], port[m]) <=> r = whoami[m]
    BY DEF ViewsAgree
  <2>1. TablesAgree /\ Flow /\ Runs(m) /\ ~Registering
    BY DEF AgreeIInv, Idle, Runs, Registering
  <2>2. AtRank(m)
    BY <2>1 DEF Flow, Ranked, Unranked
  <2>3. Serves(mds_active_list[whoami[m]], m)
    BY <2>1, <2>2 DEF TablesAgree, AtRank, Services
  <2>4. Listener(whoami[m]) = m
    BY <2>3 DEF Serves, Listener, ServiceAt
  <2>5. mds_map[m] = mds_active_list
    BY <2>1, <2>2, <2>4 DEF Flow, AllTold, Told, AtRank
  <2>6. \A r \in DOMAIN mds_active_list : mds_active_list[r] = EntityOf(m) <=> r = whoami[m]
    BY <2>1, <2>2 DEF TablesAgree, AtRank
  <2> QED
    BY <2>2, <2>5, <2>6 DEF AtRank, EntityOf
<1>2. Init => AnswersIInv /\ BroadcastIInv /\ AgreeIInv
  BY InitAnswers, InitAgreement DEF Init, MessagingInit, BroadcastIInv, Broadcasting
<1>3. AnswersIInv /\ BroadcastIInv /\ AgreeIInv /\ [Next]_vars => (AnswersIInv /\ BroadcastIInv /\ AgreeIInv)'
  BY NextKeepsAnswers, NextKeepsBroadcast, NextKeepsAgreement
<1> QED
  BY <1>1, <1>2, <1>3, PTL DEF Spec
=============================================================================
