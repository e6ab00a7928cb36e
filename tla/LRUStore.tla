------------------------------ MODULE LRUStore ------------------------------
(***************************************************************************)
(* What LRUCache promises to the client: a bounded map from keys to values  *)
(* that, when it is full, gives up the key used longest ago.  The requests  *)
(* of a client use the operators of LRU directly; here they are a machine   *)
(* for the list and the hash map of the code to implement.                  *)
(***************************************************************************)
EXTENDS LRU

CONSTANTS
  Keys, Values,
  Capacity,   \* the constructor's argument
  NoValue     \* NULL, what get returns for a key that is not there

VARIABLES
  items,   \* the pairs, the most recently used first
  got      \* what the last get has returned

Init == items = <<>> /\ got = NoValue

Get(k) ==
  /\ got' = IF Cached(items, k) THEN CachedValue(items, k) ELSE NoValue
  /\ items' = LRUGet(items, k)

Set(k, v) ==
  /\ items' = LRUSet(items, Capacity, k, v)
  /\ UNCHANGED got

Next == \E k \in Keys : Get(k) \/ \E v \in Values : Set(k, v)

Spec == Init /\ [][Next]_<<items, got>>
=============================================================================
