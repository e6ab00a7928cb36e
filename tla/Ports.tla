------------------------------- MODULE Ports -------------------------------
(***************************************************************************)
(* The port tables of one host (cluster/network/Network.cc).  A host has   *)
(* two: service_map binds a port to a service for as long as the service   *)
(* runs; proc_revmap binds a reverse port to a process for as long as the  *)
(* process waits in Host::send_message.  Both are std::map<Port, T *>, here *)
(* functions with a finite domain.                                         *)
(***************************************************************************)
EXTENDS Integers, FiniteSets

NoPort == -1

\* m is a port table that binds ports at or above base to members of Procs.
IsPortTable(m, base, Procs) ==
  /\ m = [i \in DOMAIN m |-> m[i]]
  /\ IsFiniteSet(DOMAIN m)
  /\ \A i \in DOMAIN m : i \in Int /\ i >= base /\ m[i] \in Procs

\* Slip: the search starts one too low.
FreePortsBelowSize(m, base) == (base .. base + Cardinality(DOMAIN m) - 1) \ DOMAIN m

\* The candidates of the search for a free port: base + size() downto base.
FreePorts(m, base) == (base .. base + Cardinality(DOMAIN m)) \ DOMAIN m

\* The port register_service (base 0) and register_procrev pick: the highest
\* candidate that is not bound.  NoPort is the branch that logs "Unexpected
\* no port".
FreePort(m, base) ==
  IF FreePorts(m, base) = {} THEN NoPort
  ELSE CHOOSE i \in FreePorts(m, base) : \A j \in FreePorts(m, base) : j <= i

\* The lowest port bound to p: std::find_if walks the map in port order.
BoundPorts(m, p) == {i \in DOMAIN m : m[i] = p}

FindPort(m, p) ==
  IF BoundPorts(m, p) = {} THEN NoPort
  ELSE CHOOSE i \in BoundPorts(m, p) : \A j \in BoundPorts(m, p) : i <= j

\* std::map::insert, which keeps a binding that is already there.
Bind(m, i, p) ==
  [j \in DOMAIN m \cup {i} |-> IF j \in DOMAIN m THEN m[j] ELSE p]

Unbind(m, i) == [j \in DOMAIN m \ {i} |-> m[j]]

\* find_or_register_rev: a process that already waits keeps its port.
FindOrFreePort(m, base, p) ==
  IF FindPort(m, p) < 0 THEN FreePort(m, base) ELSE FindPort(m, p)
=============================================================================
