----------------------------- MODULE Formation -----------------------------
(***************************************************************************)
(* How the cluster forms: services start and stop, an MDS registers with    *)
(* the monitor and is given a rank, the monitor sends the new MDS map to    *)
(* every registered MDS, and a client asks the monitor for the map.         *)
(* (cluster/Service.cc, Host.cc, Cluster.cc, services/MONService.cc, the    *)
(* monitor's side of MDSService.cc, and ClientProcess::connect_cluster.)    *)
(*                                                                         *)
(* The driver (main, and TestClientProcess::entry) calls Start, Stop and    *)
(* Connect one at a time: each runs to its end, with every send nested in   *)
(* it, before the next.  The messages are                                   *)
(*   MDSREG        arg = the service port of the MDS                        *)
(*   MDSREGACK     arg = the rank                                           *)
(*   MDSMAPUPDATE  arg = mds_active_list     MDSMAPUPDATEACK  arg = Nil     *)
(*   FINDMDS       arg = Nil                 FINDMDSACK  arg = the list     *)
(***************************************************************************)
EXTENDS Messaging

CONSTANTS
  Mon,       \* the monitor
  MDSs,      \* the metadata services
  Clients,   \* the client processes
  MaxUpsets  \* how often the driver upsets the cluster (a bound of the model)

Services == {Mon} \cup MDSs

ASSUME ProcsAssumption ==
  /\ Procs = Services \cup Clients
  /\ Mon \notin MDSs
  /\ Clients \cap Services = {}
  /\ IsFiniteSet(Procs)
ASSUME MaxUpsetsAssumption == MaxUpsets \in Nat

\* NETWORK_PORT_PROC_REVMAP_BASE is above all ports that starts may take.
ASSUME ServicePortsAssumption ==
  \A h \in Hosts : Cardinality({s \in Services : HostOf[s] = h}) + MaxUpsets <= RevBase

VARIABLES
  st,               \* Process::st of each service
  port,             \* Service::port
  monitors,         \* Cluster::monitors, the entities the monitor has run at
  mds_active_list,  \* the monitor's map from ranks to entities
  bcast,            \* the rank whose update the broadcast has sent last
  whoami,           \* the rank each MDS takes itself to have; Nil: unset
  mds_map,          \* the MDS map each MDS has
  mdsmap,           \* the MDS map each client has
  root_mds,         \* the entity each client falls back to; Nil: unset
  connected,        \* ClientProcess::connected
  connecting,       \* the client whose connect_cluster is in progress, or Nil
  upsets            \* how often a service was stopped, or started while it ran

serviceVars == <<st, port, monitors, upsets>>
monVars     == <<mds_active_list, bcast>>
mdsVars     == <<whoami, mds_map>>
clientVars  == <<mdsmap, root_mds, connected, connecting>>
vars == <<msgVars, serviceVars, monVars, mdsVars, clientVars>>

EmptyMap == <<>>   \* the std::map with no element: DOMAIN EmptyMap = {}

Init ==
  /\ MessagingInit
  /\ service_map = [h \in Hosts |-> EmptyMap]
  /\ st = [s \in Services |-> "LOADED"]
  /\ port = [s \in Services |-> NoPort]
  /\ monitors = <<>>
  /\ mds_active_list = EmptyMap
  /\ bcast = NoPort
  /\ whoami = [m \in MDSs |-> Nil]
  /\ mds_map = [m \in MDSs |-> EmptyMap]
  /\ mdsmap = [c \in Clients |-> EmptyMap]
  /\ root_mds = [c \in Clients |-> Nil]
  /\ connected = [c \in Clients |-> FALSE]
  /\ connecting = Nil
  /\ upsets = 0

\* The driver has the thread: no call of it is in progress.
Idle == stack = <<>> /\ connecting = Nil

(***************************************************************************)
(* Services.  Neither Service::start nor Service::stop looks at the status. *)
(* To stop a service, or to start one that runs, is an upset: main does      *)
(* neither, the interface allows both.                                      *)
(***************************************************************************)
MayUpset == upsets < MaxUpsets

Upset == MayUpset /\ upsets' = upsets + 1

\* register_service, then Process::start.  A service that runs keeps the port
\* it had and is given a second one, the only one it then knows of.
RegisterService(s) ==
  LET h == HostOf[s]
      p == FreePort(service_map[h], 0)
  IN /\ service_map' = [service_map EXCEPT ![h] = Bind(@, p, s)]
     /\ port' = [port EXCEPT ![s] = p]
     /\ st' = [st EXCEPT ![s] = "RUNNING"]
     /\ IF st[s] = "RUNNING" THEN Upset ELSE UNCHANGED upsets

\* Cluster::register_monitor appends an entity it does not know; none is ever
\* removed.
RegisterMonitor(e) ==
  monitors' = IF \E i \in DOMAIN monitors : monitors[i] = e
              THEN monitors ELSE Append(monitors, e)

StartMon ==
  /\ Idle
  /\ RegisterService(Mon)
  /\ RegisterMonitor(Entity(HostOf[Mon], port'[Mon]))
  /\ UNCHANGED <<proc_revmap, stack, ret, monVars, mdsVars, clientVars>>

\* MDSService::entry sends its port to the first monitor the cluster knows
\* and ignores the result.  It dereferences that monitor before it looks, so
\* the driver starts the monitor first, as main does.
Start(m) ==
  /\ Idle /\ monitors # <<>>
  /\ RegisterService(m)
  /\ Send(<<>>, m, monitors[1], "MDSREG", port'[m])
  /\ UNCHANGED <<monitors, monVars, mdsVars, clientVars>>

\* Service::stop frees the port the service had last, whoever listens there
\* by now; nobody is told.
Stop(s) ==
  /\ Idle /\ Upset
  /\ service_map' = [service_map EXCEPT ![HostOf[s]] = Unbind(@, port[s])]
  /\ st' = IF st[s] = "RUNNING" THEN [st EXCEPT ![s] = "STOPPED"] ELSE st
  /\ UNCHANGED <<proc_revmap, stack, ret, port, monitors, monVars, mdsVars, clientVars>>

(***************************************************************************)
(* The monitor.                                                            *)
(***************************************************************************)
\* Slip: ranks are counted from 1.
NewRankFromOne ==
  CHOOSE r \in 1 .. Cardinality(DOMAIN mds_active_list) + 1 : r \notin DOMAIN mds_active_list

\* add_mds: the lowest rank below size() that is free, or else size().
NewRank ==
  CHOOSE r \in 0 .. Cardinality(DOMAIN mds_active_list) :
    /\ r \notin DOMAIN mds_active_list
    /\ \A q \in 0 .. r - 1 : q \in DOMAIN mds_active_list

\* Slip: the entity is put at the highest rank there is.
AddMDSAtLast(e) ==
  IF DOMAIN mds_active_list = {} THEN Bind(mds_active_list, 0, e)
  ELSE [mds_active_list EXCEPT ![Cardinality(DOMAIN mds_active_list) - 1] = e]

AddMDS(e) == Bind(mds_active_list, NewRank, e)

\* Slip: the map is sent to the new MDS before it is acknowledged.
RegisterMapFirst ==
  /\ Called(Mon, "MDSREG")
  /\ mds_active_list' = AddMDS(Entity(Top.src.host, Top.arg))
  /\ UNCHANGED <<service_map, serviceVars, bcast, mdsVars, clientVars>>
  /\ Send(TopAt("call"), Mon, Top.src, "MDSMAPUPDATE", mds_active_list')

HandleMDSRegister ==
  /\ Called(Mon, "MDSREG")
  /\ mds_active_list' = AddMDS(Entity(Top.src.host, Top.arg))
  /\ UNCHANGED <<service_map, serviceVars, bcast, mdsVars, clientVars>>
  /\ Send(TopAt("ack"), Mon, Top.src, "MDSREGACK", NewRank)

\* Slip: the new MDS, which has the last rank, is left out.
UnsentButLast ==
  {r \in DOMAIN mds_active_list : /\ Top.pc = "ack" \/ r > bcast
                                 /\ r + 1 < Cardinality(DOMAIN mds_active_list)}

\* The ranks the broadcast of the top frame has still to send to.
Unsent == {r \in DOMAIN mds_active_list : Top.pc = "ack" \/ r > bcast}

\* Slip: the broadcast goes down the ranks.
HighestUnsent == CHOOSE r \in Unsent : \A q \in Unsent : q <= r

LowestUnsent == CHOOSE r \in Unsent : \A q \in Unsent : r <= q

\* Slip: the broadcast does not move on.
BroadcastMapInPlace ==
  /\ Resumed("ack") \/ Resumed("bcast")
  /\ ret /\ Unsent # {}
  /\ UNCHANGED <<service_map, serviceVars, monVars, mdsVars, clientVars>>
  /\ Send(TopAt("bcast"), Mon, mds_active_list[LowestUnsent], "MDSMAPUPDATE", mds_active_list)

BroadcastMap ==
  /\ Resumed("ack") \/ Resumed("bcast")
  /\ ret /\ Unsent # {}
  /\ bcast' = LowestUnsent
  /\ UNCHANGED <<service_map, serviceVars, mds_active_list, mdsVars, clientVars>>
  /\ Send(TopAt("bcast"), Mon, mds_active_list[LowestUnsent], "MDSMAPUPDATE", mds_active_list)

\* The registration ends when every rank has its update, or at the first send
\* that fails: nothing is rolled back and the ranks behind it are skipped.
EndMDSRegister ==
  /\ Resumed("ack") \/ Resumed("bcast")
  /\ ~ret \/ Unsent = {}
  /\ bcast' = NoPort
  /\ Return(ret)
  /\ UNCHANGED <<service_map, serviceVars, mds_active_list, mdsVars, clientVars>>

HandleMDSMapUpdateAck ==
  /\ Called(Mon, "MDSMAPUPDATEACK")
  /\ Return(TRUE)
  /\ UNCHANGED <<service_map, serviceVars, monVars, mdsVars, clientVars>>

HandleFindMDS ==
  /\ Called(Mon, "FINDMDS")
  /\ UNCHANGED <<service_map, serviceVars, monVars, mdsVars, clientVars>>
  /\ Send(TopAt("tail"), Mon, Top.src, "FINDMDSACK", mds_active_list)

(***************************************************************************)
(* The metadata services.                                                  *)
(***************************************************************************)
HandleMDSRegAck(m) ==
  /\ Called(m, "MDSREGACK")
  /\ whoami' = [whoami EXCEPT ![m] = Top.arg]
  /\ Return(TRUE)
  /\ UNCHANGED <<service_map, serviceVars, monVars, mds_map, clientVars>>

HandleMDSMapUpdate(m) ==
  /\ Called(m, "MDSMAPUPDATE")
  /\ mds_map' = [mds_map EXCEPT ![m] = Top.arg]
  /\ UNCHANGED <<service_map, serviceVars, monVars, whoami, clientVars>>
  /\ Send(TopAt("tail"), m, Top.src, "MDSMAPUPDATEACK", Nil)

(***************************************************************************)
(* The clients.                                                            *)
(***************************************************************************)
\* A client keeps the entity its constructor was given: the monitor's first.
Connect(c) ==
  /\ Idle /\ monitors # <<>>
  /\ ~connected[c]
  /\ connecting' = c
  /\ UNCHANGED <<service_map, serviceVars, monVars, mdsVars, mdsmap, root_mds, connected>>
  /\ Send(<<>>, c, monitors[1], "FINDMDS", Nil)

\* connect_cluster of a connected client returns at once, however old its map.
ConnectAgain(c) ==
  /\ Idle /\ connected[c]
  /\ UNCHANGED vars

ConnectReturns(c) ==
  /\ stack = <<>> /\ connecting = c
  /\ connected' = [connected EXCEPT ![c] = ret]
  /\ connecting' = Nil
  /\ UNCHANGED <<msgVars, serviceVars, monVars, mdsVars, mdsmap, root_mds>>

\* Slip: the root is the rank that registered last.
RootOfLast(map) == map[CHOOSE r \in DOMAIN map : \A q \in DOMAIN map : q <= r]

\* set_root_mds: rank 0, or else the lowest rank the map has, or else fail
\* and keep the entity of before.
RootOf(map) ==
  IF 0 \in DOMAIN map THEN map[0]
  ELSE map[CHOOSE r \in DOMAIN map : \A q \in DOMAIN map : r <= q]

HandleFindMDSAck(c) ==
  /\ Called(c, "FINDMDSACK")
  /\ mdsmap' = [mdsmap EXCEPT ![c] = Top.arg]
  /\ root_mds' = IF DOMAIN Top.arg = {} THEN root_mds
                 ELSE [root_mds EXCEPT ![c] = RootOf(Top.arg)]
  /\ Return(DOMAIN Top.arg # {})
  /\ UNCHANGED <<service_map, serviceVars, monVars, mdsVars, connected, connecting>>

(***************************************************************************)
(* A message a process has no handler for: "default: break", result false.  *)
(***************************************************************************)
Handled(p) ==
  IF p = Mon THEN {"MDSREG", "MDSMAPUPDATEACK", "FINDMDS"}
  ELSE IF p \in MDSs THEN {"MDSREGACK", "MDSMAPUPDATE"}
  ELSE {"FINDMDSACK"}

HandleUnknown ==
  /\ Resumed("call") /\ Top.type \notin Handled(Top.to)
  /\ Return(FALSE)
  /\ UNCHANGED <<service_map, serviceVars, monVars, mdsVars, clientVars>>

HandleReturn ==
  /\ ReturnTail
  /\ UNCHANGED <<serviceVars, monVars, mdsVars, clientVars>>

\* What the thread does once the driver has called.
Step ==
  \/ HandleMDSRegister \/ BroadcastMap \/ EndMDSRegister
  \/ HandleMDSMapUpdateAck \/ HandleFindMDS
  \/ \E m \in MDSs : HandleMDSRegAck(m) \/ HandleMDSMapUpdate(m)
  \/ \E c \in Clients : HandleFindMDSAck(c) \/ ConnectReturns(c)
  \/ HandleUnknown \/ HandleReturn

Next ==
  \/ StartMon
  \/ \E m \in MDSs : Start(m)
  \/ \E s \in Services : Stop(s)
  \/ \E c \in Clients : Connect(c) \/ ConnectAgain(c)
  \/ Step

\* The simulator has one thread, and nothing in it blocks: a call that was
\* made is carried out.  The driver need not make another.
Spec == Init /\ [][Next]_vars /\ WF_vars(Step)
-----------------------------------------------------------------------------
(***************************************************************************)
(* Properties.                                                             *)
(***************************************************************************)
IsRankMap(map) ==
  /\ map = [r \in DOMAIN map |-> map[r]]
  /\ IsFiniteSet(DOMAIN map) /\ DOMAIN map \subseteq Nat
  /\ \A r \in DOMAIN map : map[r].host \in Hosts /\ map[r].port \in Nat

\* Every variable has its type; a message carries what its type says.
TypeOK ==
  /\ \A h \in Hosts : /\ IsPortTable(service_map[h], 0, Services)
                      /\ IsPortTable(proc_revmap[h], RevBase, Procs)
  /\ ret \in BOOLEAN
  /\ \A k \in DOMAIN stack :
       LET f == stack[k]
       IN /\ f.by \in Procs /\ f.to \in Procs
          /\ f.src.host = HostOf[f.by] /\ f.src.port \in Nat
          /\ CASE f.type = "MDSREG" -> f.arg \in Nat /\ f.pc \in {"call", "ack", "bcast"}
               [] f.type = "MDSREGACK" -> f.arg \in Nat /\ f.pc = "call"
               [] f.type = "MDSMAPUPDATE" -> IsRankMap(f.arg) /\ f.pc \in {"call", "tail"}
               [] f.type = "FINDMDS" -> f.pc \in {"call", "tail"}
               [] f.type = "FINDMDSACK" -> IsRankMap(f.arg) /\ f.pc = "call"
               [] f.type = "MDSMAPUPDATEACK" -> f.pc = "call"
  /\ st \in [Services -> {"LOADED", "RUNNING", "STOPPED"}]
  /\ port \in [Services -> Nat \cup {NoPort}]
  /\ \A i \in DOMAIN monitors : monitors[i].host \in Hosts /\ monitors[i].port \in Nat
  /\ IsRankMap(mds_active_list)
  /\ bcast \in Nat \cup {NoPort}
  /\ whoami \in [MDSs -> Nat \cup {Nil}]
  /\ \A m \in MDSs : IsRankMap(mds_map[m])
  /\ \A c \in Clients : IsRankMap(mdsmap[c])
  /\ connected \in [Clients -> BOOLEAN]
  /\ connecting \in Clients \cup {Nil}
  /\ upsets \in 0 .. MaxUpsets

\* The handlers that have an answer to send to the address of the request.
Answering(f) == f.type \in {"MDSREG", "MDSMAPUPDATE", "FINDMDS"} /\ f.pc = "call"

\* As long as a handler has not sent its answer, the address it will send it
\* to leads to the process that asked.  Only the order of the sends in
\* handle_mdsregister makes this true: the answer goes out before the new MDS
\* makes a nested send, which gives up the reverse port it is waiting on.
AnswerReachesAsker ==
  \A k \in DOMAIN stack :
    Answering(stack[k]) =>
      Dispatch(service_map, proc_revmap, stack[k].src) = stack[k].by

\* The ranks are 0 .. size()-1, so set_root_mds never needs its "find one".
DenseRanks == DOMAIN mds_active_list = 0 .. Cardinality(DOMAIN mds_active_list) - 1

\* A map is the active list as it was at some earlier registration.
EarlierList(map) ==
  /\ DOMAIN map = 0 .. Cardinality(DOMAIN map) - 1
  /\ \A r \in DOMAIN map : r \in DOMAIN mds_active_list /\ map[r] = mds_active_list[r]

\* However stale a map is, what it says of a rank is what the monitor says,
\* and the entity a connected client falls back to is that of rank 0.
StaleMapsAreNotWrong ==
  /\ \A m \in MDSs : EarlierList(mds_map[m])
  /\ \A c \in Clients : /\ EarlierList(mdsmap[c])
                        /\ connected[c] => root_mds[c] = mds_active_list[0]

\* As long as nothing was upset: between two calls of the driver every
\* running MDS has the whole map, knows its own rank and no two share one.
ViewsAgree ==
  Idle /\ upsets = 0 =>
    \A m \in MDSs : st[m] = "RUNNING" =>
      /\ mds_map[m] = mds_active_list
      /\ whoami[m] \in DOMAIN mds_active_list
      /\ \A r \in DOMAIN mds_active_list :
           mds_active_list[r] = Entity(HostOf[m], port[m]) <=> r = whoami[m]

\* The broadcast goes up the ranks: whoever listens at a rank it has passed
\* has the new map, also when it then fails at a higher rank.
BroadcastInOrder ==
  \A r \in DOMAIN mds_active_list :
    r < bcast => LET s == Dispatch(service_map, proc_revmap, mds_active_list[r])
                 IN s \in MDSs => mds_map[s] = mds_active_list

\* What MONService.cc:91 assumes: no send of the broadcast fails.
FailureNeverHappens == ~(Resumed("bcast") /\ ~ret)

\* No step takes a rank away or gives it to another entity.
RanksAreForever ==
  [][\A r \in DOMAIN mds_active_list :
       r \in DOMAIN mds_active_list' /\ mds_active_list'[r] = mds_active_list[r]]_vars

\* Every call of the driver returns, whatever was upset before.
CallsReturn == ~Idle ~> Idle
=============================================================================
