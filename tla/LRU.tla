-------------------------------- MODULE LRU --------------------------------
(***************************************************************************)
(* What LRUCache promises (include/LRU.h), as operators on a sequence of     *)
(* pairs, the most recently used first.                                    *)
(***************************************************************************)
EXTENDS Integers, Sequences

Cached(c, k) == \E i \in DOMAIN c : c[i].key = k

PlaceOf(c, k) == CHOOSE i \in DOMAIN c : c[i].key = k

\* Slip: the value at the wrong end of the list.
CachedValueAtBack(c, k) == c[Len(c)].value

\* The value of a key that is cached.
CachedValue(c, k) == c[PlaceOf(c, k)].value

\* s with x in front: what stands before place i makes room, what stood at i
\* is gone, and the rest stays.  Place Len(s) + 1 is that of something new.
MovedToFront(s, i, x) ==
  [j \in 1 .. (IF i <= Len(s) THEN Len(s) ELSE i) |->
     IF j = 1 THEN x ELSE IF j <= i THEN s[j - 1] ELSE s[j]]

\* Slip: a key that is used stays where it is.
LRUGetInPlace(c, k) == c

\* get moves the key to the front; a key that is not there changes nothing.
LRUGet(c, k) ==
  IF Cached(c, k) THEN MovedToFront(c, PlaceOf(c, k), c[PlaceOf(c, k)]) ELSE c

\* Slip: nothing is pushed out.
LRUPut(c, capacity, k, v) ==
  MovedToFront(c, IF Cached(c, k) THEN PlaceOf(c, k) ELSE Len(c) + 1, [key |-> k, value |-> v])

\* set puts the key in front; a new key pushes the last one out of a cache
\* whose size has reached its capacity.
LRUSet(c, capacity, k, v) ==
  LET place == IF Cached(c, k) THEN PlaceOf(c, k)
               ELSE IF Len(c) = capacity THEN Len(c) ELSE Len(c) + 1
  IN MovedToFront(c, place, [key |-> k, value |-> v])
=============================================================================
