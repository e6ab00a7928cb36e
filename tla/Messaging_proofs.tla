-------------------------- MODULE Messaging_proofs --------------------------
(***************************************************************************)
(* Host::send_message gives back every reverse port it takes, and a bound   *)
(* reverse port leads to a process that waits for an answer -- whatever the *)
(* handlers do in between, and however they nest.  The facts are about Send *)
(* and Return, so that they hold in every component built from them.        *)
(***************************************************************************)
EXTENDS Messaging, FiniteSetTheorems, SequenceTheorems, WellFoundedInduction, TLAPS

(***************************************************************************)
(* The port tables, for every table.  The searches downwards from base +    *)
(* size() (register_service, register_procrev) cannot fail, so the branch   *)
(* that logs "Unexpected no port" is dead code.                             *)
(***************************************************************************)
\* A set of naturals that is not empty has a least element.
LEMMA LeastExists ==
  ASSUME NEW S \in SUBSET Nat, S # {}
  PROVE  \E x \in S : \A y \in S : x <= y
<1> DEFINE less == {p \in Nat \X Nat : p[1] < p[2]}
<1>1. less = OpToRel(<, Nat)
  BY Zenon DEF OpToRel
<1>2. IsWellFoundedOn(less, Nat)
  BY <1>1, NatLessThanWellFounded
<1>3. PICK x \in S : \A y \in S : <<y, x>> \notin less
  BY <1>2, WFMin
<1>4. ASSUME NEW y \in S PROVE x <= y
  <2>1. x \in Nat /\ y \in Nat
    OBVIOUS
  <2>2. y < x => <<y, x>> \in less
    BY <2>1
  <2> HIDE DEF less
  <2> QED
    BY <1>3, <2>1, <2>2
<1> QED
  BY <1>4

\* One that is bounded has a greatest.
LEMMA GreatestExists ==
  ASSUME NEW b \in Nat, NEW S \in SUBSET Nat, S # {}, \A x \in S : x <= b
  PROVE  \E x \in S : \A y \in S : y <= x
<1> DEFINE T == {b - x : x \in S}
<1>1. T \in SUBSET Nat /\ T # {}
  <2>1. \A x \in S : b - x \in Nat
    OBVIOUS
  <2>2. PICK x \in S : TRUE
    OBVIOUS
  <2>3. b - x \in T
    OBVIOUS
  <2> QED
    BY <2>1, <2>3
<1> HIDE DEF T
<1>2. PICK t \in T : \A u \in T : t <= u
  BY <1>1, LeastExists
<1>3. PICK x \in S : t = b - x
  BY DEF T
<1>4. ASSUME NEW y \in S PROVE y <= x
  <2>1. b - y \in T
    BY DEF T
  <2>2. t <= b - y
    BY <1>2, <2>1
  <2> QED
    BY <1>3, <2>2
<1> QED
  BY <1>4

\* There is a free port among the size() + 1 candidates, by counting them.
LEMMA FreePortsNonEmpty ==
  ASSUME NEW base \in Nat, NEW m, IsFiniteSet(DOMAIN m)
  PROVE  FreePorts(m, base) # {}
<1> DEFINE n == Cardinality(DOMAIN m)
           candidates == base .. base + n
<1>1. n \in Nat
  BY FS_CardinalityType
<1>2. IsFiniteSet(candidates) /\ Cardinality(candidates) = n + 1
  BY <1>1, FS_Interval
<1>3. candidates \subseteq DOMAIN m => n + 1 <= n
  BY <1>2, FS_Subset
<1> QED
  BY <1>1, <1>3 DEF FreePorts

\* What register_service and register_procrev return is a free port.
THEOREM FreePortIsFree ==
  ASSUME NEW base \in Nat, NEW m, IsFiniteSet(DOMAIN m)
  PROVE  /\ FreePort(m, base) \in base .. base + Cardinality(DOMAIN m)
         /\ FreePort(m, base) \notin DOMAIN m
<1> DEFINE n == Cardinality(DOMAIN m)
           S == FreePorts(m, base)
<1>1. n \in Nat
  BY FS_CardinalityType
<1>2. S # {}
  BY FreePortsNonEmpty
<1>3. S \in SUBSET Nat /\ \A x \in S : x <= base + n /\ x \in base .. base + n /\ x \notin DOMAIN m
  BY <1>1 DEF FreePorts
<1> HIDE DEF n, S
<1>4. \E x \in S : \A y \in S : y <= x
  <2> DEFINE b == base + n
  <2>1. b \in Nat /\ \A x \in S : x <= b
    BY <1>1, <1>3
  <2> HIDE DEF b
  <2> QED
    BY <1>2, <1>3, <2>1, GreatestExists
<1>5. FreePort(m, base) = CHOOSE i \in S : \A j \in S : j <= i
  BY <1>2 DEF FreePort, S
<1>6. FreePort(m, base) \in S
  BY <1>4, <1>5
<1> QED
  BY <1>3, <1>6 DEF n

\* find_procrev returns a port of the process, or none if it has none.
LEMMA FindPortFinds ==
  ASSUME NEW m, NEW p, DOMAIN m \subseteq Nat
  PROVE  /\ FindPort(m, p) < 0 => \A i \in DOMAIN m : m[i] # p
         /\ FindPort(m, p) >= 0 => FindPort(m, p) \in DOMAIN m /\ m[FindPort(m, p)] = p
         /\ FindPort(m, p) \in Int
<1>1. CASE BoundPorts(m, p) = {}
  BY <1>1 DEF FindPort, NoPort, BoundPorts
<1>2. CASE BoundPorts(m, p) # {}
  <2>1. BoundPorts(m, p) \in SUBSET Nat
    BY DEF BoundPorts
  <2>2. \E x \in BoundPorts(m, p) : \A y \in BoundPorts(m, p) : x <= y
    BY <1>2, <2>1, LeastExists
  <2>3. FindPort(m, p) \in BoundPorts(m, p)
    BY <1>2, <2>2 DEF FindPort
  <2> QED
    BY <2>1, <2>3 DEF BoundPorts
<1> QED
  BY <1>1, <1>2
-----------------------------------------------------------------------------
(***************************************************************************)
(* The stack of sends.                                                      *)
(***************************************************************************)
\* A frame has a sender and its address, whatever else it has.
IsFrame(f) == "by" \in DOMAIN f /\ "src" \in DOMAIN f

IsStack(s) ==
  /\ s \in Seq({s[k] : k \in DOMAIN s})
  /\ \A k \in DOMAIN s : IsFrame(s[k])

\* The numbers a reverse port may have.
RevPorts == {i \in Nat : i >= RevBase}

\* Every host has a table of reverse ports, with finitely many of them.
RevTables ==
  /\ proc_revmap = [h \in Hosts |-> proc_revmap[h]]
  /\ \A h \in Hosts :
       /\ proc_revmap[h] = [i \in DOMAIN proc_revmap[h] |-> proc_revmap[h][i]]
       /\ IsFiniteSet(DOMAIN proc_revmap[h]) /\ DOMAIN proc_revmap[h] \subseteq RevPorts

\* The inductive invariant.
RevIInv == IsStack(stack) /\ RevTables /\ RevPortOwners

\* Stack t has a frame for every frame of s, sent by the same process from
\* the same port.
KeepsFrames(s, t) ==
  \A k \in DOMAIN s : k \in DOMAIN t /\ t[k].by = s[k].by /\ t[k].src = s[k].src

\* An interval from 1 determines its length.
LEMMA IntervalLength ==
  ASSUME NEW m \in Nat, NEW n \in Nat, 1 .. m = 1 .. n
  PROVE  m = n
<1>1. m \in 1 .. m \/ m = 0
  OBVIOUS
<1>2. n \in 1 .. n \/ n = 0
  OBVIOUS
<1> QED
  BY <1>1, <1>2

\* A stack is a sequence.
LEMMA StackIsSeq ==
  ASSUME NEW s, IsStack(s)
  PROVE  Len(s) \in Nat /\ DOMAIN s = 1 .. Len(s)
BY LenProperties DEF IsStack

\* A sequence of frames is a stack.
LEMMA SeqIsStack ==
  ASSUME NEW S, NEW s \in Seq(S), \A k \in DOMAIN s : IsFrame(s[k])
  PROVE  IsStack(s)
<1>1. Len(s) \in Nat /\ DOMAIN s = 1 .. Len(s) /\ s \in [1 .. Len(s) -> S]
  BY LenProperties
<1>2. s = [k \in 1 .. Len(s) |-> s[k]]
  BY <1>1
<1>3. [k \in 1 .. Len(s) |-> s[k]] \in Seq({s[k] : k \in DOMAIN s})
  <2> DEFINE T == {s[k] : k \in DOMAIN s}
  <2>1. \A k \in 1 .. Len(s) : s[k] \in T
    BY <1>1
  <2> HIDE DEF T
  <2>2. [k \in 1 .. Len(s) |-> s[k]] \in Seq(T)
    BY <1>1, <2>1, IsASeq
  <2> QED
    BY <2>2 DEF T
<1> QED
  BY <1>2, <1>3 DEF IsStack

\* What a handler resumes in has the frames of the stack it runs on; the
\* stack it returns to has all of them but its own.
LEMMA BelowFrames ==
  ASSUME IsStack(stack), stack # <<>>
  PROVE  /\ Len(stack) \in Nat \ {0} /\ DOMAIN stack = 1 .. Len(stack)
         /\ IsStack(Below)
         /\ DOMAIN Below = 1 .. Len(stack) - 1
         /\ \A k \in 1 .. Len(stack) - 1 : Below[k] = stack[k]
<1> DEFINE T == {stack[k] : k \in DOMAIN stack}
           n == Len(stack)
<1>1. stack \in Seq(T)
  BY DEF IsStack
<1> HIDE DEF T
<1>2. n \in Nat \ {0} /\ DOMAIN stack = 1 .. n
  BY <1>1, LenProperties, EmptySeq
<1>3. \A k \in 1 .. n - 1 : stack[k] \in T
  BY <1>1, <1>2, ElementOfSeq
<1>4. /\ Below \in Seq(T)
      /\ Len(Below) = n - 1
      /\ \A k \in 1 .. n - 1 : Below[k] = stack[k]
  <2> DEFINE m == n - 1
  <2>1. m \in Nat
    BY <1>2
  <2>2. Below = SubSeq(stack, 1, m)
    BY DEF Below
  <2> HIDE DEF m
  <2>3. /\ Below \in Seq(T)
        /\ Len(Below) = IF 1 <= m THEN m - 1 + 1 ELSE 0
        /\ \A k \in 1 .. m - 1 + 1 : Below[k] = stack[1 + k - 1]
    <3>1. \A k \in 1 .. m : stack[k] \in T
      BY <1>3 DEF m
    <3> QED
      BY <2>1, <2>2, <3>1, SubSeqProperties
  <2>4. m - 1 + 1 = m /\ \A k \in 1 .. m : 1 + k - 1 = k
    BY <2>1
  <2>5. Len(Below) = m /\ \A k \in 1 .. m : Below[k] = stack[k]
    BY <2>1, <2>3, <2>4
  <2> QED
    BY <2>3, <2>5 DEF m
<1>5. DOMAIN Below = 1 .. n - 1
  BY <1>4, LenProperties
<1>6. \A k \in DOMAIN Below : IsFrame(Below[k])
  BY <1>2, <1>4, <1>5 DEF IsStack
<1> QED
  BY <1>2, <1>4, <1>5, <1>6, SeqIsStack

\* Pushing a frame.
LEMMA AppendFrames ==
  ASSUME NEW s, IsStack(s), NEW f, IsFrame(f)
  PROVE  /\ IsStack(Append(s, f))
         /\ DOMAIN Append(s, f) = 1 .. Len(s) + 1
         /\ \A k \in 1 .. Len(s) : Append(s, f)[k] = s[k]
         /\ Append(s, f)[Len(s) + 1] = f
<1> DEFINE T == {s[k] : k \in DOMAIN s}
<1>1. s \in Seq(T)
  BY DEF IsStack
<1> HIDE DEF T
<1>2. s \in Seq(T \cup {f}) /\ f \in T \cup {f}
  BY <1>1, SeqMonotonic
<1>3. /\ Append(s, f) \in Seq(T \cup {f})
      /\ Len(Append(s, f)) = Len(s) + 1
      /\ \A k \in 1 .. Len(s) : Append(s, f)[k] = s[k]
      /\ Append(s, f)[Len(s) + 1] = f
  BY <1>2, AppendProperties
<1>4. DOMAIN Append(s, f) = 1 .. Len(s) + 1 /\ Len(s) \in Nat /\ DOMAIN s = 1 .. Len(s)
  BY <1>1, <1>3, LenProperties
<1>5. \A k \in DOMAIN Append(s, f) : IsFrame(Append(s, f)[k])
  BY <1>3, <1>4 DEF IsStack
<1> QED
  BY <1>3, <1>4, <1>5, SeqIsStack

\* Moving the handler of the top frame keeps every frame.
LEMMA TopKeepsFrames ==
  ASSUME IsStack(stack), stack # <<>>, NEW pc, NEW local
  PROVE  /\ IsStack(TopAt(pc)) /\ KeepsFrames(stack, TopAt(pc))
         /\ IsStack(TopWith(pc, local)) /\ KeepsFrames(stack, TopWith(pc, local))
<1>1. /\ Len(stack) \in Nat \ {0} /\ DOMAIN stack = 1 .. Len(stack)
      /\ IsStack(Below) /\ DOMAIN Below = 1 .. Len(stack) - 1
      /\ \A k \in 1 .. Len(stack) - 1 : Below[k] = stack[k]
  BY BelowFrames
<1>2. Len(Below) = Len(stack) - 1
  <2>1. Len(Below) \in Nat /\ DOMAIN Below = 1 .. Len(Below)
    BY <1>1, StackIsSeq
  <2>2. Len(stack) - 1 \in Nat
    BY <1>1
  <2> QED
    BY <1>1, <2>1, <2>2, IntervalLength
<1>3. ASSUME NEW f, IsFrame(f), f.by = Top.by, f.src = Top.src
      PROVE  IsStack(Append(Below, f)) /\ KeepsFrames(stack, Append(Below, f))
  <2> DEFINE t == Append(Below, f)
  <2>1. /\ IsStack(t)
        /\ DOMAIN t = 1 .. Len(Below) + 1
        /\ \A k \in 1 .. Len(Below) : t[k] = Below[k]
        /\ t[Len(Below) + 1] = f
    BY <1>1, <1>3, AppendFrames
  <2>2. Len(Below) + 1 = Len(stack)
    BY <1>1, <1>2
  <2> HIDE DEF t
  <2>3. DOMAIN t = DOMAIN stack
    BY <1>1, <2>1, <2>2
  <2>4. \A k \in 1 .. Len(stack) - 1 : t[k] = stack[k]
    BY <1>1, <1>2, <2>1
  <2>5. t[Len(stack)] = f
    BY <2>1, <2>2
  <2>6. ASSUME NEW k \in DOMAIN stack
        PROVE  t[k].by = stack[k].by /\ t[k].src = stack[k].src
    <3>1. CASE k = Len(stack)
      BY <1>3, <2>5, <3>1 DEF Top
    <3>2. CASE k # Len(stack)
      <4>1. k \in 1 .. Len(stack) - 1
        BY <1>1, <3>2
      <4> QED
        BY <2>4, <4>1
    <3> QED
      BY <3>1, <3>2
  <2>7. KeepsFrames(stack, t)
    BY <2>3, <2>6 DEF KeepsFrames
  <2> QED
    BY <2>1, <2>7 DEF t
<1>0. IsFrame(Top)
  BY <1>1 DEF IsStack, Top
<1>4. /\ IsFrame([Top EXCEPT !.pc = pc]) /\ IsFrame([Top EXCEPT !.pc = pc, !.local = local])
      /\ [Top EXCEPT !.pc = pc].by = Top.by /\ [Top EXCEPT !.pc = pc].src = Top.src
      /\ [Top EXCEPT !.pc = pc, !.local = local].by = Top.by
      /\ [Top EXCEPT !.pc = pc, !.local = local].src = Top.src
  <2> HIDE DEF Top
  <2> QED
    BY <1>0 DEF IsFrame
<1> QED
  BY <1>3, <1>4 DEF TopAt, TopWith

\* The port a send waits on: bound to the sender already, or free.
LEMMA PortOfSend ==
  ASSUME RevTables, NEW h \in Hosts, NEW p
  PROVE  LET m == proc_revmap[h]
             i == FindOrFreePort(m, RevBase, p)
         IN /\ i \in RevPorts
            /\ IF i \in DOMAIN m THEN m[i] = p ELSE \A j \in DOMAIN m : m[j] # p
<1> DEFINE m == proc_revmap[h]
<1>1. /\ IsFiniteSet(DOMAIN m) /\ DOMAIN m \subseteq Nat /\ RevBase \in Nat
      /\ DOMAIN m \subseteq RevPorts
  BY RevBaseAssumption DEF RevTables, RevPorts
<1> HIDE DEF m
<1>2. FreePort(m, RevBase) \in RevPorts /\ FreePort(m, RevBase) \notin DOMAIN m
  <2>1. FreePort(m, RevBase) \in RevBase .. RevBase + Cardinality(DOMAIN m)
    BY <1>1, FreePortIsFree
  <2>2. Cardinality(DOMAIN m) \in Nat
    BY <1>1, FS_CardinalityType
  <2>3. FreePort(m, RevBase) \notin DOMAIN m
    BY <1>1, FreePortIsFree
  <2> QED
    BY <1>1, <2>1, <2>2, <2>3 DEF RevPorts
<1>3. /\ FindPort(m, p) < 0 => \A i \in DOMAIN m : m[i] # p
      /\ FindPort(m, p) >= 0 => FindPort(m, p) \in DOMAIN m /\ m[FindPort(m, p)] = p
      /\ FindPort(m, p) \in Int
  BY <1>1, FindPortFinds
<1>4. CASE FindPort(m, p) < 0
  BY <1>2, <1>3, <1>4 DEF FindOrFreePort, m, RevPorts
<1>5. CASE FindPort(m, p) >= 0
  BY <1>1, <1>3, <1>5 DEF FindOrFreePort, m
<1> QED
  BY <1>3, <1>4, <1>5

\* Every bound port has the frame of a waiting send in a stack s, and no two
\* ports of a host are bound to the same process.
OwnersIn(rev, s) ==
  \A h \in Hosts : \A i \in DOMAIN rev[h] :
    /\ \E k \in DOMAIN s : s[k].by = rev[h][i] /\ s[k].src = Entity(h, i)
    /\ \A j \in DOMAIN rev[h] : rev[h][i] = rev[h][j] => i = j

\* Frames that are kept still own their ports.
LEMMA KeptFramesOwn ==
  ASSUME NEW rev, NEW s, NEW t, OwnersIn(rev, s), KeepsFrames(s, t)
  PROVE  OwnersIn(rev, t)
BY DEF OwnersIn, KeepsFrames

\* A send keeps the inductive invariant, whichever of its three ends it
\* comes to: no target, nobody at the target, or a nested call.
LEMMA SendKeepsOwners ==
  ASSUME RevIInv,
         NEW caller, IsStack(caller), KeepsFrames(stack, caller),
         NEW p \in Procs, NEW e, NEW type, NEW arg,
         Send(caller, p, e, type, arg)
  PROVE  RevIInv'
<1> DEFINE h   == HostOf[p]
           i   == FindOrFreePort(proc_revmap[h], RevBase, p)
           rev == [proc_revmap EXCEPT ![h] = Bind(@, i, p)]
           to  == Dispatch(service_map', rev, e)
           f   == [type |-> type, by |-> p, src |-> Entity(h, i),
                   to |-> to, arg |-> arg, pc |-> "call", local |-> Nil]
<1>1. h \in Hosts
  BY HostsAssumption
<1>2. /\ i \in RevPorts
      /\ IF i \in DOMAIN proc_revmap[h] THEN proc_revmap[h][i] = p
         ELSE \A j \in DOMAIN proc_revmap[h] : proc_revmap[h][j] # p
  BY <1>1, PortOfSend DEF RevIInv
<1>3. OwnersIn(proc_revmap, caller)
  BY KeptFramesOwn DEF RevIInv, RevPortOwners, OwnersIn
<1>4. /\ f.by = p /\ f.src = Entity(h, i) /\ IsFrame(f)
  BY DEF IsFrame
<1>5. \/ stack' = caller /\ proc_revmap' = proc_revmap
      \/ stack' = caller /\ proc_revmap' = [rev EXCEPT ![h] = Unbind(@, i)]
      \/ stack' = Append(caller, f) /\ proc_revmap' = rev
  BY DEF Send
<1> HIDE DEF h, i, to, f
<1>6. /\ rev = [g \in Hosts |-> IF g = h THEN Bind(proc_revmap[h], i, p) ELSE proc_revmap[g]]
      /\ [rev EXCEPT ![h] = Unbind(@, i)] =
           [g \in Hosts |-> IF g = h THEN Unbind(Bind(proc_revmap[h], i, p), i) ELSE proc_revmap[g]]
  BY <1>1 DEF RevIInv, RevTables
<1>7. /\ DOMAIN Bind(proc_revmap[h], i, p) = DOMAIN proc_revmap[h] \cup {i}
      /\ Bind(proc_revmap[h], i, p)[i] = p
      /\ \A j \in DOMAIN proc_revmap[h] : Bind(proc_revmap[h], i, p)[j] = proc_revmap[h][j]
      /\ DOMAIN Unbind(Bind(proc_revmap[h], i, p), i) = DOMAIN proc_revmap[h] \ {i}
      /\ \A j \in DOMAIN proc_revmap[h] \ {i} :
           Unbind(Bind(proc_revmap[h], i, p), i)[j] = proc_revmap[h][j]
  BY <1>2 DEF Bind, Unbind
<1>8. CASE stack' = caller /\ proc_revmap' = proc_revmap
  BY <1>3, <1>8 DEF RevIInv, RevTables, RevPortOwners, OwnersIn, IsStack, IsFrame, Entity
<1>9. CASE stack' = caller /\ proc_revmap' = [rev EXCEPT ![h] = Unbind(@, i)]
  <2> DEFINE u == Unbind(Bind(proc_revmap[h], i, p), i)
  <2>1. proc_revmap' = [g \in Hosts |-> IF g = h THEN u ELSE proc_revmap[g]]
    BY <1>6, <1>9
  <2>2. DOMAIN u = DOMAIN proc_revmap[h] \ {i} /\ \A j \in DOMAIN u : u[j] = proc_revmap[h][j]
    BY <1>7
  <2>0. u = [j \in DOMAIN u |-> u[j]]
    BY DEF Unbind
  <2> HIDE DEF u
  <2>3. IsFiniteSet(DOMAIN u) /\ DOMAIN u \subseteq RevPorts
    BY <1>1, <2>2, FS_Subset DEF RevIInv, RevTables
  <2>4. RevTables'
    BY <1>1, <2>0, <2>1, <2>3 DEF RevIInv, RevTables
  <2>5. RevPortOwners'
    <3>1. \A g \in Hosts : /\ DOMAIN proc_revmap'[g] \subseteq DOMAIN proc_revmap[g]
                           /\ \A j \in DOMAIN proc_revmap'[g] : proc_revmap'[g][j] = proc_revmap[g][j]
      BY <2>1, <2>2
    <3>2. OwnersIn(proc_revmap', caller)
      BY <1>3, <3>1 DEF OwnersIn
    <3>3. stack' = caller
      BY <1>9
    <3> QED
      BY <3>2, <3>3 DEF OwnersIn, RevPortOwners, Entity
  <2>6. IsStack(stack')
    BY <1>9
  <2> QED
    BY <2>4, <2>5, <2>6 DEF RevIInv, IsStack, IsFrame
<1>10. CASE stack' = Append(caller, f) /\ proc_revmap' = rev
  <2> DEFINE b == Bind(proc_revmap[h], i, p)
  <2>1. proc_revmap' = [g \in Hosts |-> IF g = h THEN b ELSE proc_revmap[g]]
    BY <1>6, <1>10
  <2>2. /\ DOMAIN b = DOMAIN proc_revmap[h] \cup {i} /\ b[i] = p
        /\ \A j \in DOMAIN proc_revmap[h] : b[j] = proc_revmap[h][j]
    BY <1>7
  <2>0. b = [j \in DOMAIN b |-> b[j]]
    BY DEF Bind
  <2> HIDE DEF b
  <2>3. IsFiniteSet(DOMAIN b) /\ DOMAIN b \subseteq RevPorts
    BY <1>1, <1>2, <2>2, FS_AddElement DEF RevIInv, RevTables
  <2>4. RevTables'
    BY <1>1, <2>0, <2>1, <2>3 DEF RevIInv, RevTables
  <2>5. /\ IsStack(stack') /\ DOMAIN caller \subseteq DOMAIN stack'
        /\ \A k \in DOMAIN caller : stack'[k] = caller[k]
        /\ \E k \in DOMAIN stack' : stack'[k] = f
    <3>1. /\ IsStack(stack') /\ DOMAIN stack' = 1 .. Len(caller) + 1
          /\ \A k \in 1 .. Len(caller) : stack'[k] = caller[k]
          /\ stack'[Len(caller) + 1] = f
      BY <1>4, <1>10, AppendFrames
    <3>2. Len(caller) \in Nat /\ DOMAIN caller = 1 .. Len(caller)
      BY StackIsSeq
    <3>3. Len(caller) + 1 \in DOMAIN stack'
      BY <3>1, <3>2
    <3>4. DOMAIN caller \subseteq DOMAIN stack'
      BY <3>1, <3>2
    <3> QED
      BY <3>1, <3>2, <3>3, <3>4
  <2>6. ASSUME NEW g \in Hosts, NEW j \in DOMAIN proc_revmap'[g]
        PROVE  /\ \E k \in DOMAIN stack' : /\ stack'[k].by = proc_revmap'[g][j]
                                            /\ stack'[k].src = Entity(g, j)
               /\ \A l \in DOMAIN proc_revmap'[g] : proc_revmap'[g][j] = proc_revmap'[g][l] => j = l
    <3>1. CASE g # h
      <4>1. proc_revmap'[g] = proc_revmap[g]
        BY <2>1, <3>1
      <4> QED
        BY <1>3, <2>5, <4>1 DEF OwnersIn
    <3>2. CASE g = h
      <4>1. proc_revmap'[g] = b
        BY <1>1, <2>1, <3>2
      <4>2. CASE j = i
        <5>1. \E k \in DOMAIN stack' : stack'[k].by = p /\ stack'[k].src = Entity(h, i)
          BY <1>4, <2>5
        <5>2. \A l \in DOMAIN b : b[l] = p => l = i
          BY <1>1, <1>2, <1>3, <2>2 DEF OwnersIn
        <5> QED
          BY <2>2, <3>2, <4>1, <4>2, <5>1, <5>2
      <4>3. CASE j # i
        <5>1. j \in DOMAIN proc_revmap[h] /\ b[j] = proc_revmap[h][j]
          BY <2>2, <4>1, <4>3
        <5>2. \E k \in DOMAIN stack' : stack'[k].by = b[j] /\ stack'[k].src = Entity(h, j)
          BY <1>1, <1>3, <2>5, <5>1 DEF OwnersIn
        <5>3. \A l \in DOMAIN b : b[j] = b[l] => j = l
          BY <1>1, <1>2, <1>3, <2>2, <5>1 DEF OwnersIn
        <5> QED
          BY <3>2, <4>1, <5>2, <5>3
      <4> QED
        BY <4>2, <4>3
    <3> QED
      BY <3>1, <3>2
  <2>7. RevPortOwners'
    BY <2>6 DEF RevPortOwners, Entity
  <2> QED
    BY <2>4, <2>5, <2>7 DEF RevIInv, IsStack, IsFrame
<1> QED
  BY <1>5, <1>8, <1>9, <1>10

\* A return keeps it: the only frame that goes gives up the port it owns.
LEMMA ReturnKeepsOwners ==
  ASSUME RevIInv, stack # <<>>, NEW b, Return(b)
  PROVE  RevIInv'
<1> DEFINE g == Top.src.host
           i == Top.src.port
<1>1. stack' = Below /\ proc_revmap' = [proc_revmap EXCEPT ![g] = Unbind(@, i)]
  BY DEF Return
<1>2. /\ Len(stack) \in Nat \ {0} /\ DOMAIN stack = 1 .. Len(stack)
      /\ IsStack(Below) /\ DOMAIN Below = 1 .. Len(stack) - 1
      /\ \A k \in 1 .. Len(stack) - 1 : Below[k] = stack[k]
  BY BelowFrames DEF RevIInv
<1>3. proc_revmap' = [h \in Hosts |-> IF h = g THEN Unbind(proc_revmap[h], i) ELSE proc_revmap[h]]
  BY <1>1 DEF RevIInv, RevTables
<1>4. \A h \in Hosts :
        /\ DOMAIN proc_revmap'[h] = IF h = g THEN DOMAIN proc_revmap[h] \ {i} ELSE DOMAIN proc_revmap[h]
        /\ \A j \in DOMAIN proc_revmap'[h] : proc_revmap'[h][j] = proc_revmap[h][j]
  BY <1>3 DEF Unbind
<1>5. RevTables'
  <2>1. \A h \in Hosts : IsFiniteSet(DOMAIN proc_revmap'[h]) /\ DOMAIN proc_revmap'[h] \subseteq RevPorts
    <3> TAKE h \in Hosts
    <3>1. DOMAIN proc_revmap'[h] \subseteq DOMAIN proc_revmap[h]
      BY <1>4
    <3>2. IsFiniteSet(DOMAIN proc_revmap[h]) /\ DOMAIN proc_revmap[h] \subseteq RevPorts
      BY DEF RevIInv, RevTables
    <3> QED
      BY <3>1, <3>2, FS_Subset
  <2>2. proc_revmap' = [h \in Hosts |-> proc_revmap'[h]]
    BY <1>3
  <2>3. ASSUME NEW h \in Hosts
        PROVE  proc_revmap'[h] = [j \in DOMAIN proc_revmap'[h] |-> proc_revmap'[h][j]]
    <3>1. CASE h = g
      <4>1. proc_revmap'[h] = Unbind(proc_revmap[h], i)
        BY <1>3, <3>1
      <4> QED
        BY <4>1 DEF Unbind
    <3>2. CASE h # g
      BY <1>3, <3>2 DEF RevIInv, RevTables
    <3> QED
      BY <3>1, <3>2
  <2> QED
    BY <2>1, <2>2, <2>3 DEF RevTables
<1>6. ASSUME NEW h \in Hosts, NEW j \in DOMAIN proc_revmap'[h]
      PROVE  /\ \E k \in DOMAIN Below : Below[k].by = proc_revmap'[h][j] /\ Below[k].src = Entity(h, j)
             /\ \A l \in DOMAIN proc_revmap'[h] : proc_revmap'[h][j] = proc_revmap'[h][l] => j = l
  <2>1. j \in DOMAIN proc_revmap[h] /\ proc_revmap'[h][j] = proc_revmap[h][j] /\ ~(h = g /\ j = i)
    BY <1>4
  <2>2. PICK k \in DOMAIN stack : stack[k].by = proc_revmap[h][j] /\ stack[k].src = Entity(h, j)
    BY <2>1 DEF RevIInv, RevPortOwners
  <2>3. k # Len(stack)
    BY <2>1, <2>2 DEF Top, Entity
  <2>4. k \in DOMAIN Below /\ Below[k] = stack[k]
    BY <1>2, <2>3
  <2>5. ASSUME NEW l \in DOMAIN proc_revmap'[h], proc_revmap'[h][j] = proc_revmap'[h][l]
        PROVE  j = l
    <3>1. l \in DOMAIN proc_revmap[h] /\ proc_revmap'[h][l] = proc_revmap[h][l]
      BY <1>4
    <3>2. proc_revmap[h][j] = proc_revmap[h][l]
      BY <2>1, <2>5, <3>1
    <3> QED
      BY <2>1, <3>1, <3>2 DEF RevIInv, RevPortOwners
  <2> QED
    BY <2>1, <2>2, <2>4, <2>5
<1>7. RevPortOwners'
  BY <1>1, <1>6 DEF RevPortOwners, Entity
<1>8. IsStack(stack')
  BY <1>1, <1>2
<1> QED
  BY <1>5, <1>7, <1>8 DEF RevIInv, IsStack, IsFrame

\* Moving a handler on keeps it, and so does what leaves the stack and the
\* ports alone.
LEMMA TopKeepsOwners ==
  ASSUME RevIInv, stack # <<>>, UNCHANGED proc_revmap, NEW pc, NEW local,
         stack' = TopAt(pc) \/ stack' = TopWith(pc, local)
  PROVE  RevIInv'
<1>1. IsStack(stack') /\ KeepsFrames(stack, stack')
  BY TopKeepsFrames DEF RevIInv
<1>2. OwnersIn(proc_revmap, stack')
  BY <1>1, KeptFramesOwn DEF RevIInv, RevPortOwners, OwnersIn
<1> QED
  BY <1>1, <1>2 DEF RevIInv, RevTables, RevPortOwners, OwnersIn, IsStack, IsFrame, Entity

\* A step that sends and returns nothing keeps the owners.
LEMMA UnchangedKeepsOwners ==
  ASSUME RevIInv, UNCHANGED <<proc_revmap, stack>>
  PROVE  RevIInv'
BY DEF RevIInv, RevTables, RevPortOwners, IsStack, IsFrame, Entity

\* The two ends of a handler that both components have in common.
LEMMA ReturnTailKeepsOwners ==
  ASSUME RevIInv, ReturnTail
  PROVE  RevIInv'
BY ReturnKeepsOwners DEF ReturnTail, Resumed

\* It holds before anything is sent.
LEMMA InitOwners ==
  ASSUME MessagingInit
  PROVE  RevIInv
<1>1. stack = <<>> /\ proc_revmap = [h \in Hosts |-> <<>>]
  BY DEF MessagingInit
<1>2. IsStack(<<>>)
  <2>1. DOMAIN <<>> = {}
    OBVIOUS
  <2> QED
    BY <2>1, EmptySeq DEF IsStack
<1>3. \A h \in Hosts : DOMAIN proc_revmap[h] = {}
  BY <1>1
<1> QED
  BY <1>1, <1>2, <1>3, FS_EmptySet DEF RevIInv, RevTables, RevPortOwners

\* It implies that between two calls of the driver no reverse port is bound.
LEMMA OwnersAreReleased ==
  ASSUME RevIInv
  PROVE  PortsReleased
BY DEF RevIInv, RevPortOwners, PortsReleased
-----------------------------------------------------------------------------
(***************************************************************************)
(* The stack after a step, frame by frame: what invariants about single     *)
(* frames are proved from.                                                 *)
(***************************************************************************)

\* Stack t is this one with f in place of the frame at its top.
TopReplaced(t, f) ==
  /\ Len(stack) \in Nat \ {0} /\ DOMAIN stack = 1 .. Len(stack)
  /\ IsStack(t) /\ Len(t) = Len(stack) /\ DOMAIN t = 1 .. Len(stack)
  /\ \A k \in 1 .. Len(stack) - 1 : t[k] = stack[k]
  /\ t[Len(stack)] = f

\* A frame put on the frames below is in the place of the top one.
LEMMA TopReplacedFrames ==
  ASSUME IsStack(stack), stack # <<>>, NEW f, IsFrame(f)
  PROVE  TopReplaced(Append(Below, f), f)
<1> DEFINE n == Len(stack)
           t == Append(Below, f)
<1>1. /\ n \in Nat \ {0} /\ DOMAIN stack = 1 .. n
      /\ IsStack(Below) /\ DOMAIN Below = 1 .. n - 1
      /\ \A k \in 1 .. n - 1 : Below[k] = stack[k]
  BY BelowFrames
<1>2. Len(Below) = n - 1
  <2>1. Len(Below) \in Nat /\ DOMAIN Below = 1 .. Len(Below)
    BY <1>1, StackIsSeq
  <2>2. n - 1 \in Nat
    BY <1>1
  <2> QED
    BY <1>1, <2>1, <2>2, IntervalLength
<1>3. /\ IsStack(t)
      /\ DOMAIN t = 1 .. Len(Below) + 1
      /\ \A k \in 1 .. Len(Below) : t[k] = Below[k]
      /\ t[Len(Below) + 1] = f
  BY <1>1, AppendFrames
<1> HIDE DEF n, t
<1>4. Len(Below) + 1 = n
  BY <1>1, <1>2
<1>5. Len(t) = n
  <2>1. Len(t) \in Nat /\ DOMAIN t = 1 .. Len(t)
    BY <1>3, StackIsSeq
  <2> QED
    BY <1>1, <1>3, <1>4, <2>1, IntervalLength
<1> QED
  BY <1>1, <1>2, <1>3, <1>4, <1>5 DEF TopReplaced, n, t

\* The frame of a send.
Sent(p, e, type, arg, f) ==
  LET i   == FindOrFreePort(proc_revmap[HostOf[p]], RevBase, p)
      rev == [proc_revmap EXCEPT ![HostOf[p]] = Bind(@, i, p)]
  IN f = [type |-> type, by |-> p, src |-> Entity(HostOf[p], i),
          to |-> Dispatch(service_map', rev, e), arg |-> arg, pc |-> "call", local |-> Nil]

\* A send that nests a call on top of the caller's stack.
Pushes(caller, p, e, type, arg) ==
  /\ Len(caller) \in Nat /\ DOMAIN caller = 1 .. Len(caller)
  /\ Len(stack') = Len(caller) + 1 /\ DOMAIN stack' = 1 .. Len(caller) + 1
  /\ \A k \in 1 .. Len(caller) : stack'[k] = caller[k]
  /\ Sent(p, e, type, arg, stack'[Len(caller) + 1])

\* What a send leaves: the caller's stack and FALSE, or that with a new frame.
LEMMA SendFrames ==
  ASSUME NEW caller, IsStack(caller), NEW p, NEW e, NEW type, NEW arg,
         Send(caller, p, e, type, arg)
  PROVE  \/ stack' = caller /\ ret' = FALSE
         \/ Pushes(caller, p, e, type, arg)
<1> SUFFICES ASSUME ~(stack' = caller /\ ret' = FALSE)
             PROVE  Pushes(caller, p, e, type, arg)
  OBVIOUS
<1> DEFINE i  == FindOrFreePort(proc_revmap[HostOf[p]], RevBase, p)
           to == Dispatch(service_map', [proc_revmap EXCEPT ![HostOf[p]] = Bind(@, i, p)], e)
           f  == [type |-> type, by |-> p, src |-> Entity(HostOf[p], i),
                  to |-> to, arg |-> arg, pc |-> "call", local |-> Nil]
<1>1. stack' = Append(caller, f)
  BY DEF Send
<1>2. IsFrame(f)
  BY DEF IsFrame
<1>3. Len(caller) \in Nat /\ DOMAIN caller = 1 .. Len(caller)
  BY StackIsSeq
<1> HIDE DEF f
<1>4. /\ IsStack(stack')
      /\ DOMAIN stack' = 1 .. Len(caller) + 1
      /\ \A k \in 1 .. Len(caller) : stack'[k] = caller[k]
      /\ stack'[Len(caller) + 1] = f
  BY <1>1, <1>2, AppendFrames
<1>5. Len(stack') = Len(caller) + 1
  <2>1. Len(stack') \in Nat /\ DOMAIN stack' = 1 .. Len(stack')
    BY <1>4, StackIsSeq
  <2>2. Len(caller) + 1 \in Nat
    BY <1>3
  <2> QED
    BY <1>4, <2>1, <2>2, IntervalLength
<1>6. f = [type |-> type, by |-> p, src |-> Entity(HostOf[p], i),
           to |-> to, arg |-> arg, pc |-> "call", local |-> Nil]
  BY DEF f
<1> QED
  BY <1>3, <1>4, <1>5, <1>6 DEF Sent, Pushes

\* After a step of p what is bound to another process stays bound.
KeepsBound(p) ==
  \A h \in Hosts : \A i \in DOMAIN proc_revmap[h] :
    proc_revmap[h][i] # p =>
      i \in DOMAIN proc_revmap'[h] /\ proc_revmap'[h][i] = proc_revmap[h][i]

\* Frame f waits for p at a port that is bound to p, and is for the process
\* that e leads to.
Waits(p, e, f) ==
  /\ f.src = Entity(HostOf[p], f.src.port) /\ f.src.port \in RevPorts
  /\ f.src.port \in DOMAIN proc_revmap'[HostOf[p]]
  /\ proc_revmap'[HostOf[p]][f.src.port] = p
  /\ f.to = Dispatch(service_map', proc_revmap', e) /\ f.to # Nil

\* A send ends in the caller, or its new frame waits at a port of the sender.
LEMMA SendWaits ==
  ASSUME RevIInv, NEW caller, IsStack(caller), NEW p \in Procs, NEW e, NEW type, NEW arg,
         Send(caller, p, e, type, arg)
  PROVE  /\ KeepsBound(p)
         /\ \/ stack' = caller /\ ret' = FALSE
            \/ Pushes(caller, p, e, type, arg) /\ Waits(p, e, stack'[Len(caller) + 1])
<1> DEFINE h   == HostOf[p]
           i   == FindOrFreePort(proc_revmap[h], RevBase, p)
           rev == [proc_revmap EXCEPT ![h] = Bind(@, i, p)]
           to  == Dispatch(service_map', rev, e)
<1>1. h \in Hosts
  BY HostsAssumption
<1>2. /\ i \in RevPorts
      /\ IF i \in DOMAIN proc_revmap[h] THEN proc_revmap[h][i] = p
         ELSE \A j \in DOMAIN proc_revmap[h] : proc_revmap[h][j] # p
  BY <1>1, PortOfSend DEF RevIInv
<1>3. \/ stack' = caller /\ ret' = FALSE /\ proc_revmap' = proc_revmap
      \/ stack' = caller /\ ret' = FALSE /\ proc_revmap' = [rev EXCEPT ![h] = Unbind(@, i)]
      \/ stack' # caller /\ to # Nil /\ proc_revmap' = rev
      \/ stack' = caller /\ ret' # FALSE
  BY DEF Send
<1>4. Pushes(caller, p, e, type, arg) \/ (stack' = caller /\ ret' = FALSE)
  BY SendFrames
<1>5. Pushes(caller, p, e, type, arg) =>
        /\ stack'[Len(caller) + 1].src = Entity(h, i)
        /\ stack'[Len(caller) + 1].to = to
        /\ stack' # caller
  BY DEF Pushes, Sent
<1> HIDE DEF h, i, to
<1>6. /\ rev = [g \in Hosts |-> IF g = h THEN Bind(proc_revmap[h], i, p) ELSE proc_revmap[g]]
      /\ [rev EXCEPT ![h] = Unbind(@, i)] =
           [g \in Hosts |-> IF g = h THEN Unbind(Bind(proc_revmap[h], i, p), i) ELSE proc_revmap[g]]
  BY <1>1 DEF RevIInv, RevTables
<1>7. /\ DOMAIN Bind(proc_revmap[h], i, p) = DOMAIN proc_revmap[h] \cup {i}
      /\ Bind(proc_revmap[h], i, p)[i] = p
      /\ \A j \in DOMAIN proc_revmap[h] : Bind(proc_revmap[h], i, p)[j] = proc_revmap[h][j]
      /\ DOMAIN Unbind(Bind(proc_revmap[h], i, p), i) = DOMAIN proc_revmap[h] \ {i}
      /\ \A j \in DOMAIN proc_revmap[h] \ {i} :
           Unbind(Bind(proc_revmap[h], i, p), i)[j] = proc_revmap[h][j]
  BY <1>2 DEF Bind, Unbind
<1>8. KeepsBound(p)
  <2>1. CASE proc_revmap' = proc_revmap
    BY <2>1 DEF KeepsBound
  <2>2. CASE proc_revmap' = [rev EXCEPT ![h] = Unbind(@, i)]
    BY <1>2, <1>6, <1>7, <2>2 DEF KeepsBound
  <2>3. CASE proc_revmap' = rev
    BY <1>2, <1>6, <1>7, <2>3 DEF KeepsBound
  <2> QED
    BY <1>3, <1>4, <1>5, <2>1, <2>2, <2>3
<1>9. ASSUME Pushes(caller, p, e, type, arg)
      PROVE  Waits(p, e, stack'[Len(caller) + 1])
  <2>1. to # Nil /\ proc_revmap' = rev
    BY <1>3, <1>5, <1>9
  <2>2. proc_revmap'[h] = Bind(proc_revmap[h], i, p)
    BY <1>1, <1>6, <2>1
  <2>3. stack'[Len(caller) + 1].src.port = i
    BY <1>5, <1>9 DEF Entity
  <2>4. stack'[Len(caller) + 1].to = Dispatch(service_map', proc_revmap', e)
    BY <1>5, <1>9, <2>1 DEF to, rev
  <2> QED
    BY <1>2, <1>5, <1>7, <1>9, <2>1, <2>2, <2>3, <2>4 DEF Waits, h
<1> QED
  BY <1>4, <1>8, <1>9

\* A return gives up no port but the one of the frame that goes.
LEMMA ReturnKeepsBound ==
  ASSUME RevIInv, NEW b, Return(b), NEW h \in Hosts, NEW i \in DOMAIN proc_revmap[h],
         ~(h = Top.src.host /\ i = Top.src.port)
  PROVE  i \in DOMAIN proc_revmap'[h] /\ proc_revmap'[h][i] = proc_revmap[h][i]
<1>1. proc_revmap' = [proc_revmap EXCEPT ![Top.src.host] = Unbind(@, Top.src.port)]
  BY DEF Return
<1>2. proc_revmap' = [g \in Hosts |-> IF g = Top.src.host THEN Unbind(proc_revmap[g], Top.src.port)
                                      ELSE proc_revmap[g]]
  BY <1>1 DEF RevIInv, RevTables
<1> QED
  BY <1>2 DEF Unbind
=============================================================================
