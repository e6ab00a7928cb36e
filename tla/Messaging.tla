----------------------------- MODULE Messaging -----------------------------
(***************************************************************************)
(* Host::send_message, the only way two processes of the simulated cluster *)
(* interact.  A send is a nested call: the receiving handler runs on the   *)
(* sender's thread, its own sends nest deeper, and the boolean it returns   *)
(* is the boolean the send returns.  The state of that thread is "stack",   *)
(* one frame per send that has not returned, and "ret", the boolean the     *)
(* last send returned.                                                     *)
(*                                                                         *)
(* While a send is in progress its sender owns a reverse port, the address *)
(* the receiver answers to.  The port is released when the send returns --  *)
(* and, because a nested send of the same process finds and reuses the     *)
(* port, already when the inner send returns.                              *)
(***************************************************************************)
EXTENDS Ports, Sequences

CONSTANTS
  Hosts,    \* the hosts of the cluster
  Procs,    \* the processes that send and receive: services and clients
  HostOf,   \* HostOf[p]: the host of process p
  RevBase,  \* NETWORK_PORT_PROC_REVMAP_BASE, the first reverse port
  Nil       \* a null pointer

ASSUME HostsAssumption == HostOf \in [Procs -> Hosts]
ASSUME RevBaseAssumption == RevBase \in Nat
ASSUME NilAssumption == Nil \notin Procs
ASSUME NilIsNoEntity == Nil \notin [host : Hosts, port : Nat]

VARIABLES
  service_map,  \* service_map[h]: the service ports of host h
  proc_revmap,  \* proc_revmap[h]: the reverse ports of host h
  stack,        \* the sends in progress, the outermost first
  ret           \* what the last send that returned has returned

msgVars == <<service_map, proc_revmap, stack, ret>>

MessagingInit ==
  /\ proc_revmap = [h \in Hosts |-> <<>>]
  /\ stack = <<>>
  /\ ret = TRUE

\* A NetworkEntity.
Entity(h, p) == [host |-> h, port |-> p]

Top == stack[Len(stack)]
Below == SubSeq(stack, 1, Len(stack) - 1)

\* The stack with the handler of the top frame moved to another control point.
TopAt(pc) == Append(Below, [Top EXCEPT !.pc = pc])

\* The same, with other values in the local variables of the handler.
TopWith(pc, local) == Append(Below, [Top EXCEPT !.pc = pc, !.local = local])

\* Network::dispatch: a service port hides a reverse port of the same number.
Dispatch(smap, rev, e) ==
  IF e.port \in DOMAIN smap[e.host] THEN smap[e.host][e.port]
  ELSE IF e.port \in DOMAIN rev[e.host] THEN rev[e.host][e.port]
  ELSE Nil

(***************************************************************************)
(* Process p sends a message of this type to entity e and resumes in        *)
(* "caller", the stack without the new frame.  A null target fails before a *)
(* reverse port is taken; a target nobody listens at fails after, and gives *)
(* the port up.  The service table consulted is the one the step leaves.    *)
(***************************************************************************)
Send(caller, p, e, type, arg) ==
  LET h    == HostOf[p]
      port == FindOrFreePort(proc_revmap[h], RevBase, p)
      rev  == [proc_revmap EXCEPT ![h] = Bind(@, port, p)]
      to   == Dispatch(service_map', rev, e)
  IN IF e = Nil
     THEN /\ stack' = caller
          /\ ret' = FALSE
          /\ UNCHANGED proc_revmap
     ELSE IF to = Nil
     THEN /\ stack' = caller
          /\ ret' = FALSE
          /\ proc_revmap' = [rev EXCEPT ![h] = Unbind(@, port)]
     ELSE /\ stack' = Append(caller,
                        [type |-> type, by |-> p, src |-> Entity(h, port),
                         to |-> to, arg |-> arg, pc |-> "call", local |-> Nil])
          /\ ret' = TRUE
          /\ proc_revmap' = rev

\* Slip: the port is not released.
ReturnKeepingPort(b) == stack' = Below /\ ret' = b /\ UNCHANGED proc_revmap

\* The handler of the top frame returns b; send_message releases the port.
Return(b) ==
  /\ stack' = Below
  /\ ret' = b
  /\ proc_revmap' = [proc_revmap EXCEPT ![Top.src.host] = Unbind(@, Top.src.port)]

\* The top frame is a message of this type that p has just been handed.
Called(p, type) ==
  /\ stack # <<>>
  /\ Top.to = p
  /\ Top.type = type
  /\ Top.pc = "call"

\* The handler of the top frame resumes after a send it made at this point.
Resumed(pc) ==
  /\ stack # <<>>
  /\ Top.pc = pc

\* "return send_message(...)": the result of the nested send is passed on.
ReturnTail ==
  /\ Resumed("tail")
  /\ Return(ret)
  /\ UNCHANGED service_map

\* Between two calls of the driver no reverse port is bound on any host:
\* every port a send took has been given back, on success and on failure.
PortsReleased ==
  stack = <<>> => \A h \in Hosts : DOMAIN proc_revmap[h] = {}

\* A reverse port is bound only to a process of that host that waits in a
\* send, and no two ports to the same process: an answer cannot reach a
\* process that has not asked.
RevPortOwners ==
  \A h \in Hosts : \A i \in DOMAIN proc_revmap[h] :
    /\ \E k \in DOMAIN stack : stack[k].by = proc_revmap[h][i] /\ stack[k].src = Entity(h, i)
    /\ \A j \in DOMAIN proc_revmap[h] : proc_revmap[h][i] = proc_revmap[h][j] => i = j
=============================================================================
