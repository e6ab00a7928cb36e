------------------------------ MODULE LRUCache ------------------------------
(***************************************************************************)
(* LRUCache as it is written (include/LRU.h): a list of nodes, and a hash   *)
(* map from keys to iterators into the list.  A node is a cell of memory;   *)
(* splice moves nodes without copying them, so iterators stay valid, and    *)
(* the cell of a node that was erased may be allocated again.               *)
(***************************************************************************)
EXTENDS LRU, FiniteSets

CONSTANTS
  Keys, Values,
  Capacity,   \* the constructor's argument
  NoValue     \* NULL, what get returns for a key that is not there

\* With a capacity of 0 the first set would look at the back of an empty list.
ASSUME CapacityAssumption == Capacity \in Nat \ {0}
ASSUME NoValueAssumption == NoValue \notin Values

Cells == 1 .. Capacity   \* what the allocator gives out (a bound)

VARIABLES
  node,       \* node[i]: the Node in cell i
  cacheList,  \* the cells of the list, front first
  cacheMap,   \* cacheMap[k]: the iterator, the cell it points to
  got,        \* what the last get has returned
  recent      \* history: every key ever set, the most recently used first

vars == <<node, cacheList, cacheMap, got, recent>>

\* Where x stands in s; behind the others if it is new.
PlaceIn(s, x) ==
  IF \E i \in DOMAIN s : s[i] = x THEN CHOOSE i \in DOMAIN s : s[i] = x ELSE Len(s) + 1

ToFront(s, x) == MovedToFront(s, PlaceIn(s, x), x)

Init ==
  /\ node = [i \in {} |-> NoValue]
  /\ cacheList = <<>>
  /\ cacheMap = [k \in {} |-> NoValue]
  /\ got = NoValue
  /\ recent = <<>>

\* get of a key that is not there.
GetMiss(k) ==
  /\ k \notin DOMAIN cacheMap
  /\ got' = NoValue
  /\ UNCHANGED <<node, cacheList, cacheMap, recent>>

\* Slip: the node stays where it is.
GetHitInPlace(k) ==
  /\ k \in DOMAIN cacheMap
  /\ got' = node[cacheMap[k]].value
  /\ recent' = ToFront(recent, k)
  /\ UNCHANGED <<node, cacheList, cacheMap>>

\* get of one that is: splice, renew the iterator, follow it.
GetHit(k) ==
  /\ k \in DOMAIN cacheMap
  /\ cacheList' = ToFront(cacheList, cacheMap[k])
  /\ cacheMap' = [cacheMap EXCEPT ![k] = Head(cacheList')]
  /\ got' = node[Head(cacheList')].value
  /\ recent' = ToFront(recent, k)
  /\ UNCHANGED node

SetHit(k, v) ==
  /\ k \in DOMAIN cacheMap
  /\ node' = [node EXCEPT ![cacheMap[k]].value = v]
  /\ cacheList' = ToFront(cacheList, cacheMap[k])
  /\ cacheMap' = [cacheMap EXCEPT ![k] = Head(cacheList')]
  /\ recent' = ToFront(recent, k)
  /\ UNCHANGED got

\* The list and the map a new key is put into: the last node is erased from
\* both when the list has reached the capacity.
Full == Len(cacheList) = Capacity

\* Slips: the key used last is given up; the map keeps the key.
First       == cacheList[1]
KeysKept    == DOMAIN cacheMap

Last == cacheList[Len(cacheList)]

ListLeft == IF Full THEN SubSeq(cacheList, 1, Len(cacheList) - 1) ELSE cacheList
KeysLeft == IF Full THEN DOMAIN cacheMap \ {node[Last].key} ELSE DOMAIN cacheMap
InUse    == {ListLeft[i] : i \in DOMAIN ListLeft}

SetMiss(k, v) ==
  /\ k \notin DOMAIN cacheMap
  /\ \E cell \in Cells \ InUse :
       /\ node' = [i \in InUse \cup {cell} |->
                     IF i = cell THEN [key |-> k, value |-> v] ELSE node[i]]
       /\ cacheList' = <<cell>> \o ListLeft
       /\ cacheMap' = [j \in KeysLeft \cup {k} |-> IF j = k THEN cell ELSE cacheMap[j]]
  /\ recent' = ToFront(recent, k)
  /\ UNCHANGED got

Next ==
  \E k \in Keys :
    \/ GetMiss(k) \/ GetHit(k)
    \/ \E v \in Values : SetHit(k, v) \/ SetMiss(k, v)

Spec == Init /\ [][Next]_vars
-----------------------------------------------------------------------------
\* The map and the list describe the same cache: an iterator points to the
\* node of its key in the list, every node has one, and no cell is in the
\* list twice.  An iterator left behind for a key whose node was erased would
\* be followed into the node of another key.
MapMatchesList ==
  /\ \A k \in DOMAIN cacheMap : \E i \in DOMAIN cacheList :
       cacheList[i] = cacheMap[k] /\ node[cacheList[i]].key = k
  /\ \A i \in DOMAIN cacheList : cacheList[i] \in DOMAIN node
  /\ Cardinality(DOMAIN cacheMap) = Len(cacheList)
  /\ Len(cacheList) <= Capacity

\* What is cached are the keys used last, in that order, as many as fit.  A
\* get of a key that was given up does not count as a use of it.
HoldsMostRecent ==
  /\ Len(cacheList) = IF Len(recent) < Capacity THEN Len(recent) ELSE Capacity
  /\ \A i \in DOMAIN cacheList : node[cacheList[i]].key = recent[i]

Store == INSTANCE LRUStore WITH items <- [i \in DOMAIN cacheList |-> node[cacheList[i]]]

\* The list and the map implement the bounded map the client is promised.
ImplementsStore == Store!Spec
=============================================================================
