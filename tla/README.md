# Verification of SubtreeVSHashingSim

SubtreeVSHashingSim simulates a cluster of metadata servers (MDSs) to compare
three ways of distributing the metadata of a file system among them: by
subtree, by hash, and by a hybrid of the two. This directory holds TLA+ modules
that model its components, TLC configurations that check them on small
instances, and TLAPS proofs of what holds for every instance.

Contents: 1 the system; 2 what is hard in it; 3 the modules and how they
correspond to the code; 4 the runs; 5 the proofs; 6 what is not modelled;
7 the plan.

## 1. The system

Everything runs on one thread. `Host::send_message` is a function call: it
finds the process at the target entity and calls its `handle_message`, which
may send again, nested, before it returns; the boolean the handler returns is
the boolean the send returns. There are no queues and no lost messages, but a
send fails if nobody listens at its target, and what one send does to the port
tables is visible to those around it.

| component | state | operations | talks to |
|---|---|---|---|
| messaging (`cluster/Host.cc`, `cluster/network/`) | per host: service ports, reverse ports | register, unregister, send, dispatch | everyone |
| services (`cluster/Service.cc`, `Process.cc`, `Cluster.cc`) | LOADED / RUNNING / STOPPED, port, the cluster's monitors | start, stop, register_monitor | messaging |
| monitor (`services/MONService.cc`) | `mds_active_list`: rank -> entity | MDSREG, FINDMDS, MDSMAPUPDATEACK | MDSs, clients |
| MDS (`services/MDSService.cc`) | `whoami`, `mds_map`, `callback_inolist` | entry, MDSREGACK, MDSMAPUPDATE, CLIENTREQ, forward, slave request and reply | monitor, clients, MDSs; the file system and dispatchers |
| client (`process/ClientProcess.cc`) | `mdsmap`, `root_mds`, `routetable`, `cache`, the three callbacks | connect_cluster; mknod, mkdir, rm, rmdir, read, write, lsdir, exist, is_file, is_dir | monitor, MDSs |
| dispatchers (`services/mds/`, `global/global_disp.cc`) | the look-up table `lut`: host -> ranks | dispatch(path) | reads the file system at each call |
| file system (`fs/`) | one tree of inodes, `gfs`, shared by all MDSs | mknod, mkdir, rm, rmdir, read, write, listdir, lookup | |
| client cache (`include/LRU.h`) | a list of nodes, a map of iterators into it | get, set | |
| simulated time (`time/`) | the stop watch `gsw`, the clock `get` | tick, tick_random, reset_zero | charged by every send and every directory entry |
| path helpers (`common/util.cc`) | none | split_path, dirname, basename, ... | |
| driver (`SubtreeVSHashingSim.cc`) | none | `main` brings the cluster up; `TestClientProcess::entry` is the workload | |
| configuration, logging, tests, scripts | | | |

How a request travels. The client walks the path, asking for each prefix its
cache or, with LOOKUP, the MDS its strategy or learned routes name. The MDS
asks the dispatcher who is responsible: itself (or nobody) -- it executes the
request; another one -- it wraps the request and forwards it. The MDS that
executes it sends the reply to the client's reverse port, nested in the
client's own send. For rmdir and lsdir it first finds which MDSs the entries of
the directory belong to and asks each of them, nested, as slaves; a slave
answers with a message that is nested again.

What makes each component correct:

* messaging: an answer reaches who asked, and every port that a send took is
  given back;
* monitor and services: ranks are dense, permanent and known to all; a map is
  never wrong, only old; calls return whatever was stopped;
* client and MDSs: each file operation is atomic and its result says what it
  did; a request is forwarded at most once; each entry of a directory is served
  by one MDS, no matter how many decide about it;
* file system: nothing dangles from an inode that may be followed; a removal
  cuts off what it should and nothing else;
* cache: the list and the map agree, and it holds the most recently used keys;
* path helpers: a path that is created, visited and routed by different
  functions means one entry to all of them;
* time: the watch measures what has passed since it was reset;
* driver: its calls succeed, and what it prints is the time of one of them.

## 2. What is hard

There is no concurrency and nothing is persisted, so the hazards are others,
listed with their lines in `PROJECT.json`:

* *nesting*: a handler runs between a send and its return. An inner send of a
  process reuses, and then releases, the reverse port its outer send is waiting
  on (`Host.cc:77`); who may still be answered depends on the order of sends in
  handlers written far apart;
* *stale copies*: the client's map (asked for once), its routes (learned from
  replies while the dispatcher's answers move with every mkdir and rmdir), its
  cache of inode pointers (never invalidated), the dispatchers' table (built
  once), the monitor's entity after a restart;
* *partial failure*: a broadcast or fan-out that stops half way; a look-up
  whose result is ignored;
* *agreement without communication*: client, MDS and slaves each evaluate the
  dispatcher on their own, and must come to the same owner for an entry;
* *a cluster that grows*: MDSs register after the look-up table was built and
  the client has its map, so that client, dispatchers and monitor each have
  another number of ranks in mind;
* *strings*: each helper takes slashes and dots off a path in its own way;
* *pointers*: inodes are deleted while other inodes, the client's cache or a
  message still point at them;
* *boundaries*: the cache at capacity, ports of two kinds in one number space,
  wrap-around of time, nanoseconds that are cut off.

## 3. The modules

| module | models | builds on |
|---|---|---|
| `Ports` | the port tables of `Network.cc` as functions from ports to processes | |
| `Messaging` | `send_message`: the stack of nested sends, dispatch, release of ports | `Ports` |
| `Formation` | services, monitor, MDS registration, the client's connect | `Messaging` |
| `Paths` | paths as sequences of names | |
| `Inodes` | the inode tree as a sequence of inodes in order of allocation | `Paths` |
| `FileSystem` | the operations on that tree, by any holder of an inode | `Inodes` |
| `PathStrings` | paths as strings of characters: `util.cc`, the client's walk and route search | shown to agree with `Paths` |
| `Dispatcher` | the look-up table and the three strategies | `Messaging`, `Inodes` |
| `LRU` | the cache as one sequence of key and value | |
| `LRUCache` | the cache as it is written: nodes in memory, list, iterators | refines `LRUStore` |
| `LRUStore` | what a cache promises (abstract) | `LRU` |
| `Requests` | the client's operations and the MDSs' handlers, while MDSs go on registering | `Dispatcher`, `LRU`, refines `PathService` |
| `PathService` | atomic operations on paths (abstract) | `Inodes` |
| `Workload` | the loops of the benchmark | `Requests` |
| `StopWatch` | simulated time | |
| `MC*` | the instances TLC checks | |
| `*_proofs` | the lemmas and theorems about the module of that name | `Messaging_proofs` (with what is shown of `Ports`) under `Formation_proofs` and `Requests_proofs`; `Inodes_proofs` under `FileSystem_proofs` and `Requests_proofs`; `PathService_proofs` on top of `Requests_proofs` |

Correspondence. `PROJECT.json` maps each definition to its lines. The
conventions behind it:

* **The stack.** The state of the thread is `stack`, a frame for each send that
  has not returned: message type, sender (`by`), the sender's address (`src`),
  receiver (`to`), argument, the control point of the receiving handler (`pc`)
  and its local variables. `ret` is the boolean the last send returned. An
  action is the piece of a handler from its start, or from the return of one of
  its sends, to its next send or its return. `pc = "call"`: the handler has not
  started. `pc = "tail"`: it ends in `return send_message(...)`.
* **The driver** calls one operation after the other (`Start`, `Stop`,
  `Connect` in `Formation`; `Begin` and `Register` in `Requests`), in any order
  and number. `main` is one of the orders; `Workload` is the one of
  `TestClientProcess::entry`, loop by loop, the random directory of the third
  loop being any that `RandomRange` can draw.
* **Inodes** are numbers, in the order they are allocated. A number is an
  allocation and no address: in the program `delete this` (`FileSystem.cc:46`)
  gives memory back that the next `new Inode` may get, and a pointer that was
  held across both then leads to another file. In the model a deleted inode
  keeps its record with `alive = FALSE`, and following it is one case, whatever
  has its memory by then. Since directories keep
  their entries in the order in which they were made, a set of inodes is enough
  and the order is that of the numbers. `MayFollow` and `MayDelete` say when a
  pointer may be used; where the code would use one that it may not, `Requests`
  sets `ub` and models nothing after it.
* **Paths** are absolute and are sequences of names, `<<>>` being "/". Joining
  a name to "/" with another slash, as the fan-out of rmdir and lsdir does,
  makes a different string, and in the model a different path (the empty name
  first), because `std::hash` tells the two apart and `split_path` does not.
  `PathStrings` has the strings themselves. `CanonicalPathsAgree` there says
  that for strings like those the driver passes, and for those that the fan-out
  forms of them, the operators of `Paths` are the functions of `util.cc`.
* **The look-up table** `lut` is what `BuildLut` makes of the ranks that are
  active when the dispatchers are created, `InitialSize` of them; `size` is the
  number of ranks the monitor has given out by now, which hashing divides by.
  `Hash` is a constant operator and `HostOrder` a constant: the code orders
  hosts by their addresses, so no property may depend on the order.
* **Slips.** An operator commented `\* Slip:` is not part of the model. It is
  the definition after it with a plausible mistake in it -- a dropped guard, a
  wrong order, a missing reset -- kept to confirm that the property named for
  it in `PROJECT.json` fails when the code makes that mistake.
* **History variables** (`applied`, `charged`, `recent`, `start`, `sends`,
  `upsets`) record what properties speak of and guard nothing, except that
  `upsets`, how often a service was stopped or was started while it ran, is
  bounded by `MaxUpsets`.

`Requests` begins when the cluster has formed: every rank is registered where
`MdsEntity` says, in the order in which `main` starts the services. `KnownRanks`
are the ranks the client has learned of. Between two calls another MDS may
`Register`; what that does in detail is the business of `Formation`, and here
it adds a rank and a service port. `Requests` has no step for messages of
unknown type: none reaches a process without a handler for it, which the
deadlock check of `requests` shows. `Formation` has it (`HandleUnknown`),
because a restarted service may listen at the port of another.

## 4. The runs

| run | instance | distinct states | shows |
|---|---|---|---|
| `formation` | monitor, 3 MDSs, 1 client, 2 hosts, two upsets | 198,030 | `TypeOK`, `DenseRanks`, `ViewsAgree`, `PortsReleased`, `AnswerReachesAsker`, `StaleMapsAreNotWrong`, `BroadcastInOrder`, `RanksAreForever`, `CallsReturn` |
| `broadcast_failure` | the same, one upset | - | `FailureNeverHappens` is violated |
| `filesystem` | 4 inodes, 2 names, 1 content | 42,722 | `TypeOK`, `NoDanglingEntry`, `EntriesPointBack`, `DirectoriesAreNotHidden`, `RemovalIsExact` |
| `lru_cache` | 4 keys, capacity 3 | 7,849 | `MapMatchesList`, `HoldsMostRecent`, `ImplementsStore` |
| `stopwatch` | 6 bits of microseconds | 4,096 | `TypeOK`, `MeasuresSinceReset` |
| `paths` | strings of up to 7 of "a", "b", "/", "." | 21,845 | `CreatedIsFound`, `CanonicalPathsAgree`, `RouteKeepsMeaning`, `WalkMeetsAncestors` |
| `requests` | 3 MDSs on 2 hosts, no cache, 4 inodes | 635,911 | `TypeOK`, `NobodyWaitsTwice`, `AnswerReachesAsker`, `Atomic` |
| `requests_cached` | with a cache of 2 | 276,820 | `RevPortOwners`, `CacheIsCoherent`, `ExactlyOnce`, `EntriesChargedOnce` |
| `requests_fresh` | with a cache of 2, and a driver that avoids what it has stale (`FreshSpec`) | 292,952 | `NoUseAfterFree`, `NobodyWaitsTwice`, `Atomic` |
| `requests_growing` | 2 MDSs that become 3, 3 inodes, the client knows two | 7,192 | `ForwardedAtMostOnce`, `LateRanksAreIdle`, `ExactlyOnce`, `CallsReturn` |
| `workload` | 3 directories of 2 files, 3 MDSs, a cache of 4 | 19,701 | `WorkloadRuns`, `FilesCostOneRequest` |
| `average` | the same | - | `AverageIsPerCall` is violated |

The request runs and the workload start under each of the three strategies.

**What is found.** Without the client cache the distributed file operations
implement `PathService` under every strategy, removals, forwards and fan-out
included. With the cache, which is the default, they do so for a driver that
makes no call on whose way the cache is stale (`requests_fresh`). Section 5
proves this of any cluster, and that a driver which only adds is one of those.
Otherwise, once something is removed, the next operation on a path that is
cached follows a deleted inode. This is what the workload does last, and it
does not walk into it only because it removes each directory once.
`requests_cached` therefore ends its behaviours there (`CHECK_DEADLOCK FALSE`)
and checks what holds until then. The cache is right about every path it has as
long as the file system has only grown and no name was given twice
(`CacheIsCoherent`). After a removal nothing is said of what it has under a
path that leads elsewhere by now: the memory of the inode may belong to another
one.

When the cluster grows under the driver's feet (`requests_growing`), hashing
moves paths between MDSs from one call to the next and may name a rank the
client's map has not, so a call can fail half way through a walk, which
`Atomic` would not allow. What is left is that a call which returns TRUE has
done its work once and one that returns FALSE has done none (`ExactlyOnce`), that
every call returns, and that no request is forwarded twice, because all MDSs
read the same table and the same number of ranks. Under the other two
strategies an MDS that registers late gets nothing to do at all
(`LateRanksAreIdle`).

The path helpers mean the same entry by the strings the driver passes, and
`paths` says how far that goes beyond them. An entry that is made as "/a//" has
no name and is made in "/", because `dirname` takes off all slashes and
`basename` one. A ".." is resolved by the file system and not by the client's
walk, which for "/a/../b" wants "/a" to exist. And the string a route is looked
up by is not the one the request carries, though it leads to the same inode.

The benchmark itself (`workload`) never follows a deleted inode, although the
cache still holds what the last loop removes, and making a file costs one
request and its reply once its directory is in the cache. Under the subtree
strategy it may cost a forward each time: the client has learned the route of
the directory from mkdir, which the MDS of "/" answers, and a walk that never
leaves the cache learns no other.

`average` shows a slip in what is printed. The listing loop makes
`3 * DIR_SIZE` calls (`SubtreeVSHashingSim.cc:108`) and line 116 divides the
time they took by `DIR_SIZE`: its "Average time" is that of three calls.

`broadcast_failure` shows a disagreement between code and comment.
`MONService.cc:91` says "Assume failure never happens here", of a send to a
registered MDS. `Service::stop` takes an MDS off its port and nobody tells the
monitor, so the next registration fails half way through its broadcast, and the
MDSs behind the stopped one keep the old map. `BroadcastInOrder` says what is
still true: those before it have the new one.

Near misses the properties are built around. An MDS waits for MDSREGACK on
the reverse port that its own MDSMAPUPDATEACK, nested deeper, gives up; this
works because the acknowledgement has gone out by then (`AnswerReachesAsker` in
`formation` fails if the two sends are swapped). `Service::stop` frees the port
a service had last also when it has been stopped before and another listens
there by now: that one still runs and is deaf. A service that is started while
it runs keeps its old port and has two ranks; both lead to it, so
`StaleMapsAreNotWrong` holds, but `whoami` is only the last of them, and were it
asked at the other it would forward to itself. Such a service also uses up
ports, and a service port that reaches the first reverse port hides it: the
answer then goes to the service. A host with three services and two upsets needs
`RevBase` 5; with 3, `AnswerReachesAsker` fails, so `ServicePortsAssumption` of
`Formation` says that there is room, as there is in the code with its 100. And `reset_zero` leaves the
nanoseconds of the watch alone, which is right only because the bounds of the
"memory" delay, 50 and 150 *nanoseconds*, are both cut to 0 on their way
through `RandomRange`: a directory entry costs nothing
(`MeasuresSinceReset`).

**Bounds and why they are enough.** Every bound is a constant named in its
module.

* Three MDSs: forwarder, executor and slave can be three; two on one host, so
  that reverse ports of one table interleave; in `Formation` one shares the
  monitor's host. `RevBase` is 5 or 2 instead of 100, above the service ports
  of each host as in `main`, those of services that were started twice
  included.
* Two upsets: stop and restart of one MDS; of two, which come back in the other
  order, at each other's ports; of monitor and MDS, which swap ports; a service
  that is stopped twice, one that is started twice and then stopped.
* A cluster that grows: two MDSs are registered when the dispatchers are
  created, the third comes later, at any point between two calls, onto a host
  that has one already. So the table, the client's map and the number of ranks
  differ.
* Strings: seven characters have room for two names and for "..", with doubled
  slashes between and behind them; with two letters names differ.
* The benchmark: three directories, so that the index of the last one changes
  twice while the first are removed; two files, a first one that fills the
  cache and one after it; a cache of 4, which holds the paths of one directory
  with its files and not those of two.
* Four inodes: the root and three more, enough for two directories and an entry
  (removing the first moves the index, and so the owner, of the second), for a
  directory with entries of two owners, for a file in a directory in a
  directory, and for a file that has the name of a directory. Paths have two
  levels, where all strategies tell levels apart; the subtree strategy's deeper
  levels go where the second goes.
* The hash is a small sum over the names. It puts the paths used on all three
  ranks, a directory and its entries on different ones, and, like `std::hash`,
  tells "/a" from "//a".
* Cache: capacity 2 for paths of 3 prefixes, so that entries are evicted in the
  middle of a walk. `lru_cache`: capacity 3 has a front, a back and a middle.
* Time: six bits, so that one or two tcp delays wrap around; the arithmetic is
  the same at 32, which is proved.

**Fairness** is `WF_vars(Step)` in `Formation` and `Requests`, where `Step` is
all that the thread does once the driver has called: there is one thread and
nothing in it blocks, so a call that was made goes on until it returns. The
driver's calls are not in `Step`: it need not call. The two `CallsReturn` rest
on that; they say that forward chains, broadcasts and fan-outs end, in
`formation` also after services were stopped and started again.

## 5. The proofs

All theorems are for every number of hosts, processes, MDSs, clients, upsets,
inodes, names, calls, keys, and every width. `Messaging_proofs` and
`Inodes_proofs` hold lemmas about the operators the components are built
from; the theorems about the components are in the other `*_proofs` modules.
Each inductive invariant was checked by TLC on the runs of section 4 before it
was proved.

**What is assumed.** The named assumptions of the modules, which TLC evaluates
on each run. Those that say something of the code:

| assumption | module | why it holds of the code |
|---|---|---|
| `NilIsNoEntity` | `Messaging` | an address that was never set is not one of a host and a port |
| `ServicePortsAssumption` | `Formation` | a host has room for its services, and for as many starts of running services as there are upsets, below `NETWORK_PORT_PROC_REVMAP_BASE`, which is 100; without it `AnswerReachesAsker` is false (section 4) |
| `ServicePortsAssumption` | `Requests` | the same of the ports of the MDSs |
| `HostOrderAssumption` | `Dispatcher` | `lut` is a `std::map`, ordered by host, each host once |
| `CallsAssumption` | `Requests` | names are strings that are not empty: the driver passes paths without doubled slashes |
| `RootAssumption` | `Requests` | the root is never made: `dirname` of "/" (`util.cc:69`) is undefined, and the driver does not ask for it |

Some theorems about `Requests` name a hypothesis of their own: `HashIsNat`,
that the value of `std::hash` is a natural number, which is about all paths and
so nothing that TLC could evaluate; and, for those about atomicity, that
the client knows every MDS (`KnownRanks = Ranks`), since a rank that is missing in
its map makes a call fail half way through.

Three theorems, `NothingIsFollowedDeleted`, `EveryoneWaitsOnce` and
`CallsAreAtomic`, are about `FreshSpec`, which is what the run `requests_fresh`
checks, and not about `Spec`: no call begins while the cache has, under one of
the paths the call will walk, another inode than the file system has there
(`TakesNothingStale`). Without that they do not hold, as section 4 says.
`FreshSpec` restricts what the driver does and nothing the client or an MDS
does. Two kinds of behaviours of `Spec` are shown to be among its own, by what
is plain to see of a configuration or a driver: those with
`EnableCache = FALSE` (`UncachedIsSafe`, `UncachedCallsAreAtomic`), which is the
run `requests`, and those of a driver that removes nothing and creates no file
that is there already, `OnlyAdds` (`GrowthIsNeverStale`,
`GrowingCallsAreAtomic`).

**Messaging**

* *Ports* (`RevPortsHaveOwners`, `PortsAreReleased`, in `Formation_proofs` and
  `Requests_proofs`). `RevPortOwners` by itself is not inductive: that a
  port's owner is still waiting after a return needs that the returning frame
  was the only one with this port, or that the port goes with it. `RevIInv`
  adds that the stack is a sequence of frames with a sender and its address and
  that the tables are finite functions on ports, so that a free port exists.
  `Messaging_proofs` shows once that `Send` and `Return`, whatever the
  surrounding action, keep `RevIInv`; each component's proof says of each
  action which of the two it is. In `Requests` the invariant is
  `RequestsIInv = RevIInv /\ ClientWaits`: the client's sends start a new stack,
  so one must know that it moves only when the stack is empty. `PortsReleased`
  follows: with no frame, no port has an owner.

**Formation**

* *Ranks* (`RanksAreDense`, `RanksNeverChange`). `RanksIInv` adds to
  `DenseRanks` that the ranks are finitely many. In a dense list `add_mds` finds
  no hole, so the new rank is `size()` and no rank is overwritten.
* *Maps* (`StaleMapsNeverWrong`). A map is copied into a message and from there
  into who receives it, so the invariant `MapsIInv` says of every map on the
  stack, and of every map stored, that it agrees with the monitor's list on each
  rank it has (`EarlierOf`); the list only grows (`RanksIInv`), which keeps that
  true. That a connected client falls back to rank 0 needs to know what the
  thread does while it connects (`Asking`): nothing, its request, or its request
  and the answer. The answer must not reach another client, which `RevIInv`
  gives: the only reverse ports in use are those of the two senders. Hence
  `RootIInv`, which `ConnectReturns` turns into `connected`.
* *Types* (`TypesHold`). Which message may be nested in which handler
  (`StackFits`), and what each carries. A send goes to whoever is found at an
  address, so it is shown of each handler what it sends and of each address
  whose it may be.
* *Answers* (`AnswersReachAskers`). The address an answer goes to is looked up
  among the service ports first. `LowTables` and `LowLists` bound the size of
  each table of service ports by the services that run and the upsets so far,
  and with it every port in it, so that reverse ports are never hidden; and the
  process on top of the stack is asked from a port that is bound (`TopWaits`).
* *Broadcast* (`BroadcastGoesUp`). `BroadcastIInv` says, at each step of the
  monitor's loop and of what is nested in it, that whoever listens at a rank
  below the one it is at has been told, and who listens at that rank is being
  told.
* *Views* (`ViewsAlwaysAgree`). The only proof about a whole conversation:
  `AgreeIInv` says that as long as nothing was upset the tables and the list
  agree (`TablesAgree`) and a registration has one of the shapes it goes through
  (`RegistrationOf`). No send of it fails, because someone listens at each rank
  and answers lead to who asked, so the broadcast gets to its end and whoever was
  given a rank is in the map that everyone has.

**Requests**

* *Answers* (`AnswersReachAskers`). `ServicesIInv`: each MDS that has registered
  listens at `MdsEntity` and nobody else does. `ShapeIInv`: a stack begins with
  the client's request; of a forward the address to answer is that of the
  client's request at the bottom, whose port stays bound, as no send of the
  client is nested in it.
* *Types* (`TypesHold`) and *late ranks* (`LateRanksStayIdle`). `DataIInv` says
  of every variable and message what it is: entries and requests refer to inodes
  that were allocated, an owner, a route and a slave are ranks that serve
  (`Serving`), what is known of the walk, and of the rest of a listing. The lemma
  they rest on is `OwnerServes`: what any of the three strategies returns is a
  rank that had registered when the table was made, or any that has, if it is
  hashing.
* *Forwards* (`RequestsForwardedOnce`). `ChainIInv`: the frames of a stack are
  the request, then the forward if there is one, then slaves; who is handed a
  forward is responsible for it, since the path and the tree are those the
  forwarder has asked the dispatcher about; and a route under the subtree
  strategy is the owner of a path with at most one name, if it names one at all
  (`RouteGood`).
* *Deleted inodes* (`NothingIsFollowedDeleted`, in `PathService_proofs`, of
  `FreshSpec`). `FoundIInv`: the
  inode of a request is, until something is mutated, the one its path leads to,
  and nothing is mutated before the last handler of a call that follows it.
  What a path leads to may be followed and deleted: `LookupIsSound`.
* *Waiting* (`EveryoneWaitsOnce`, in `PathService_proofs`, of `FreshSpec`). `AloneIInv`: who has forwarded
  a request is none of the MDSs the executing one asks. Only the subtree strategy
  forwards, and there `ForwarderHasNoEntry` compares the owner of a directory with
  that of its entries. It needs that the inode is that of the path; a stale one
  need not be.
* *Cached inodes* (`CacheIsCoherent`, stated by `CacheStaysCoherent`, with or
  without cache). The inductive part is `CachedUnderOwnPath`, which is about
  allocations and would say nothing of a pointer to memory that was given back:
  what is cached under a path is an inode that was found or made there.
  An inode may be deleted but is never moved or renamed, and a
  number is never given out twice: what going up from it spells (`PathOf`) stays
  what it was, as long as its ancestors are kept (`PathOfStays`, with the action
  property `Kept` of the heap). `PathIInv` says that wherever an inode travels
  with a path -- the frame that looks it up or makes it, the answer, what the
  client is left with, the cache -- the two match. `PathOf` is recursive:
  `ClimbExists` shows that a function defined by going to the parent exists on
  any heap whose parents are older than their children (`ParentsClimb`), and
  from there `PathOfIs` gives its value one step up. `LookupHasPath` and
  `NewHasPath` are the two places where a path and an inode first meet.
  As long as every inode is alive and no directory has a name twice
  (`OnlyGrown`), each is found by its own path: every inode but the root is
  listed by its parent (`AllListed`, kept by `NextKeepsListed`), and so a look-up
  of the path that going up from it spells comes back to it (`ListedAreFound`).
  That gives the cache's entries (`GrownIsCoherent`).
* *Once* (`ExactlyOnce`, stated by `CallsApplyOnce`, with or without cache).
  `AppliedIInv`: while a request is still to be carried out nothing was applied,
  and once it is applied or refused there is only the answer left on the stack
  (`ToApply`, `WasApplied`), and `ret` agrees with what was applied when the
  client resumes. The answer itself cannot fail, because the port the client
  waits on stays bound (`ReplyArrives`); a slave's failure can only be the
  failure of the request, before it was applied, because whoever asked the slave
  is still in its loop (`SlavesAwaited`).
* *Entries* (`EntriesChargedOnce`, stated by `ScansChargeOnce`, with or
  without cache). Each MDS of
  a scan works out by itself which entries are its own. `ChargedIInv` says of
  the one scan on the stack (`ScanAgrees`) that what was charged so far is, each
  once, the entries whose owner is not still to be asked (`Awaited`) and which,
  for an rmdir, are not the executing MDS's own (`Taken`): an rmdir charges
  those last, a listdir first. A slave counts as its own also what belongs to
  nobody, which would then be charged twice. But a slave that was asked owns an
  entry, and where an entry has an owner all have, and the directory too
  (`SomebodyOwns`), so what the slave counts is what the scan asked it for
  (`SlaveHasItsOwn`). That the scan and the slave look at the same directory
  under the same path is `PathIInv`; that no name is empty, so that the path of an
  entry splits into the names it was put together of, is `NamesPlain`. A scan whose slave fails is not carried on
  and the invariant says nothing more of it, nor of one that was applied.

* *Atomicity* (`Atomic`, stated by `CallsAreAtomic`; all MDSs known to the
  client, of `FreshSpec`). The requests implement `PathService`. Which step is
  which: `Begin` is its `Invoke`; the step that changes the tree (`OpCreate`,
  `OpMkdir`, `OpWrite`, `OpRm`, `EndRmdir`) its `Apply`; what sets the client's
  callback anew or fills it (`LookupRemote`, `Request`, `HandleReply`) its `WriteOutput`;
  the step that ends the call its `Return`; a forward, a slave request and every other
  step changes nothing there. The hard one is `Return`, because what the call
  returns was decided many steps earlier and by others: nothing says at the
  client why a request failed or what its list was gathered from. `OutcomeIInv`
  keeps that. The inode of the request is the one its path leads to, until
  it was applied (`AskedForIt`), and the request is in one of three conditions.
  It is on its way (`Pending`): at a handler that has not decided, in a scan, at a
  slave, or in a slave's answer, and what the executing MDS has in its list and
  what has arrived for it together are the entries charged so far
  (`Gathers`). Or it was refused for a reason that the tree still shows
  (`Refused`): the name was there, or no directory. Or it was answered (`Served`)
  with the content that was read, or with each entry once, which `ChargedIInv`
  gives at the end of the scan. That no message fails on the way, so that there is no fourth
  condition, needs that every rank that serves is known (`MdsIsReached`,
  `FindRouteServes`).
* *The cache* (`TakesNothingStale`, `GrowthIsNeverStale`). `FreshSpec` is about
  the moment a call begins; the three proofs above need it at every step of
  the walk. `WalkIsCached` says so: what the cache has under the paths of the
  walk (`RightlyCached`) is what these lead to. It is kept because a walk
  changes nothing in the file system, and what enters the cache meanwhile is what
  was just looked up (`NextKeepsWalkCached`). `RightIInv` is all of this together.
  For a driver that only adds, `AddsIInv` says that every inode is found by its
  own path (`EachIsFound`), so that `CachedUnderOwnPath` makes the cache right on
  every way, whatever was evicted (`FoundIsCached`). Removals apart, a second file of
  one name would break it: `mknod` does not check, and look-ups find the first,
  while the client caches the one it has made. That the name is free when the
  request is carried out, and not only when the driver called, takes
  `AppliedIInv` and `AskedForIt` (`CreatedIsNew`); `mkdir` checks by itself. Then a
  new entry hides none (`NewIsFound`, `GrowthKeepsSubs`).

**File system** (`TypeCorrect`, `NoEntryDangles`, `ParentsAreRight`,
`DirectoriesAreFound`, `RemovalsAreExact`). Together the first four are
inductive, apart from one strengthening: `DirectoriesComeFirst` says of an entry that it is the first of
its name, in place of what `get_sub` returns. That no entry dangles needs that
entries point back, since `delete_myself` takes the inode out of its parent's
entries and of no others. `Inodes_proofs` says what `AddSub`, `DeleteMyself` and
writing do to any heap of the right shape, and what `Lookup`, a recursive
function, returns: it exists, it is the only one, and it ends at an inode that is
alive, by way of inodes that list each other. `RemovalIsExact` is about what
comes down from the root, and so about two recursive functions, `IsBelow` and
`Emptied`, on two heaps. `DescendsExists` gives both of them one step at a time
(`BelowIs`); then the first inode, in the order of allocation, that a removal cut
off wrongly (`DeleteLeavesTheRest`), or left wrongly (`DeleteCutsOff`), would have
a parent of which the same is true.

**Client cache** (`MapAlwaysMatchesList`, `AlwaysHoldsMostRecent`,
`CacheImplementsStore`). `CacheIInv` relates nodes, list and map: each cell once
in the list, each key once among its cells, the map an iterator to each. The
order is that of the calls (`RecentOK`). Then the list read through its cells
(`Items`) is the sequence of `LRUStore`, and each of the four cases -- get or set,
hit or miss -- is one of its two operations.

**Time** (`TypeCorrect`, `WatchIsRight`). `NoNanoseconds`, that watch, clock
and start have none, makes `MeasuresSinceReset` inductive; the rest is that
addition modulo `2^Width` is associative.

**Only model-checked**, and why:

* liveness: the two `CallsReturn`, which rest on fairness;
* `paths`: what folds over a string compute for every input, which takes
  induction over data. (Where a recursion can be cited step by step, as in
  `LookupStep`, `PathOfIs` and `BelowIs`, the first number for which something
  fails takes its place.);
* what the benchmark does (`WorkloadRuns`, `FilesCostOneRequest`), which is about
  the sizes its loops are given. It removes directories with the cache on, so that it
  uses nothing stale rests on the order of its loops.

## 6. What is not modelled

* What is undefined: `dirname` of nothing but slashes, a division by the size
  of an empty look-up table, a cache of capacity 0. The models assume what keeps
  the program clear of them (`HasName`, `InitialSizeAssumption`, the assumptions
  on the size of the cache); the driver does, too.
* Requests in a cluster whose MDSs were restarted. `Requests` starts from a
  cluster in which every MDS is at its own rank and at no other, which is what
  `ViewsAgree` says of one that was not upset.
* The delay of each send. `Workload` counts sends, `charged` says which
  directory entries are charged, and `StopWatch` adds up delays.
* `unregister_monitor`: nothing calls it, and it uses an iterator it has just
  erased. `mds_standby_list` and the caches declared in the MDS, which nothing
  uses. The monitor branch of `Host::register_service`, which never applies
  because no service sets its type.
* The value of the uninitialised `whoami` (`MDSService.h:16`): in `Formation` it
  is `Nil`, and no handler of that module reads it.
* Messages and inodes as memory: which handler deletes a message, what leaks,
  and that an inode may be given the memory of a deleted one. A pointer that is
  followed past its inode's end is then an operation on the wrong file; the
  model ends the behaviour (`ub`) and says nothing of it.
* Who is charged for an entry of the root. An MDS forms its path as "//name"
  (`MDSService.cc:257`), which hashes to another rank than the "/name" of a
  request; the model does the same, and `EntriesChargedOnce` says that every
  entry is charged to somebody, once.
* What removing the root should answer: `delete_myself` returns TRUE and removes
  nothing (`FileSystem.cc:43`), and so does the model. Nothing in the repository
  says otherwise.
* Configuration, logging, test programs, build and benchmark scripts.

## 7. The plan

Done: the order was messaging and formation first, because everything rests on
it; then file system and dispatchers; then requests, the centre of the system;
the cache and the time beside them; then the strings, the cluster that grows,
services that are started twice, and the benchmark.

After them the proofs, from the ports up to the atomicity of the calls, without
and with the cache.

What could come next:

1. Time charged by sends and entries: the stop watch beside `Requests`, and what
   one call may cost.
2. Requests after restarts: `Requests` started from any cluster `Formation` may
   leave behind, with MDSs that have two ranks or none (`MDSService.h:16`,
   `MDSService.cc:106`).
