-------------------------- MODULE LRUCache_proofs --------------------------
(***************************************************************************)
(* The list and the map of LRUCache.h for every capacity, every set of keys  *)
(* and of values: they describe the same cache, hold the keys used last, and *)
(* implement the bounded store the client is promised.                     *)
(***************************************************************************)
EXTENDS LRUCache, SequenceTheorems, FunctionTheorems, FiniteSetTheorems, TLAPS

\* No element is in s twice.
Once(s) == \A i, j \in 1 .. Len(s) : s[i] = s[j] => i = j

\* t is s with x in front and what stood before place i one place back.
Moved(t, s, i, x) ==
  /\ Len(t) = IF i <= Len(s) THEN Len(s) ELSE Len(s) + 1
  /\ t[1] = x
  /\ \A j \in 2 .. i : t[j] = s[j - 1]
  /\ \A j \in i + 1 .. Len(s) : t[j] = s[j]

\* What splice and push_front leave, place by place.
LEMMA MovedPlaces ==
  ASSUME NEW S, NEW s \in Seq(S), NEW i \in 1 .. Len(s) + 1, NEW x \in S
  PROVE  MovedToFront(s, i, x) \in Seq(S) /\ Moved(MovedToFront(s, i, x), s, i, x)
<1> DEFINE n == IF i <= Len(s) THEN Len(s) ELSE i
           t == MovedToFront(s, i, x)
<1>1. Len(s) \in Nat /\ \A j \in 1 .. Len(s) : s[j] \in S
  BY LenProperties, ElementOfSeq
<1>2. n \in Nat /\ n >= 1 /\ i <= n /\ n = IF i <= Len(s) THEN Len(s) ELSE Len(s) + 1
  BY <1>1
<1>3. t = [j \in 1 .. n |-> IF j = 1 THEN x ELSE IF j <= i THEN s[j - 1] ELSE s[j]]
  BY DEF MovedToFront
<1>4. \A j \in 1 .. n : (IF j = 1 THEN x ELSE IF j <= i THEN s[j - 1] ELSE s[j]) \in S
  BY <1>1, <1>2
<1> HIDE DEF n, t
<1>5. t \in [1 .. n -> S]
  BY <1>3, <1>4
<1>6. t \in Seq(S) /\ Len(t) = n
  BY <1>2, <1>5
<1>7. \A j \in 2 .. i : t[j] = s[j - 1]
  BY <1>1, <1>2, <1>3
<1>8. \A j \in i + 1 .. Len(s) : t[j] = s[j]
  BY <1>1, <1>2, <1>3
<1>9. t[1] = x
  BY <1>2, <1>3
<1> QED
  BY <1>2, <1>6, <1>7, <1>8, <1>9 DEF t, Moved

\* The place of an element is where it is, and behind the others if it is
\* new.
LEMMA PlaceIsThere ==
  ASSUME NEW S, NEW s \in Seq(S), NEW x
  PROVE  /\ PlaceIn(s, x) \in 1 .. Len(s) + 1
         /\ PlaceIn(s, x) <= Len(s) => s[PlaceIn(s, x)] = x
         /\ PlaceIn(s, x) = Len(s) + 1 => \A j \in 1 .. Len(s) : s[j] # x
<1>1. Len(s) \in Nat /\ DOMAIN s = 1 .. Len(s)
  BY LenProperties
<1>2. CASE \E i \in DOMAIN s : s[i] = x
  <2>1. PlaceIn(s, x) \in DOMAIN s /\ s[PlaceIn(s, x)] = x
    BY <1>2 DEF PlaceIn
  <2> QED
    BY <1>1, <2>1
<1>3. CASE ~ \E i \in DOMAIN s : s[i] = x
  BY <1>1, <1>3 DEF PlaceIn
<1> QED
  BY <1>2, <1>3

\* Bringing x to the front, place by place.
LEMMA ToFrontPlaces ==
  ASSUME NEW S, NEW s \in Seq(S), NEW x \in S
  PROVE  ToFront(s, x) \in Seq(S) /\ Moved(ToFront(s, x), s, PlaceIn(s, x), x)
BY PlaceIsThere, MovedPlaces DEF ToFront

\* What is in t is x and what is in s.
Adds(t, s, x) ==
  /\ \A j \in 1 .. Len(s) : \E k \in 1 .. Len(t) : t[k] = s[j]
  /\ \A k \in 1 .. Len(t) : t[k] = x \/ \E j \in 1 .. Len(s) : t[k] = s[j]

\* It adds x, keeps the others, and repeats nothing.
LEMMA ToFrontKeeps ==
  ASSUME NEW S, NEW s \in Seq(S), Once(s), NEW x \in S, NEW t, t = ToFront(s, x)
  PROVE  Once(t) /\ Adds(t, s, x)
<1>1. PICK i : i = PlaceIn(s, x)
  OBVIOUS
<1>2. Len(s) \in Nat
  BY LenProperties
<1>3. /\ i \in 1 .. Len(s) + 1
      /\ i <= Len(s) => s[i] = x
      /\ i = Len(s) + 1 => \A j \in 1 .. Len(s) : s[j] # x
  BY <1>1, PlaceIsThere
<1>4. Moved(t, s, i, x)
  BY <1>1, ToFrontPlaces
<1>5. Len(t) = IF i <= Len(s) THEN Len(s) ELSE Len(s) + 1
  BY <1>4 DEF Moved
<1>6. \A j \in 1 .. Len(s) : j # i => s[j] # x
  BY <1>2, <1>3 DEF Once
<1>7. ASSUME NEW k \in 1 .. Len(t), k # 1
      PROVE  \E j \in 1 .. Len(s) : j # i /\ t[k] = s[j] /\ j = (IF k <= i THEN k - 1 ELSE k)
  <2>1. CASE k <= i
    <3>1. k - 1 \in 1 .. Len(s) /\ k - 1 # i
      BY <1>2, <1>3, <1>5, <1>7, <2>1
    <3>2. t[k] = s[k - 1]
      BY <1>2, <1>3, <1>4, <1>5, <1>7, <2>1 DEF Moved
    <3> QED
      BY <2>1, <3>1, <3>2
  <2>2. CASE ~(k <= i)
    <3>1. k \in i + 1 .. Len(s) /\ k \in 1 .. Len(s) /\ k # i
      BY <1>2, <1>3, <1>5, <1>7, <2>2
    <3>2. t[k] = s[k]
      BY <1>4, <3>1 DEF Moved
    <3> QED
      BY <2>2, <3>1, <3>2
  <2> QED
    BY <2>1, <2>2
<1>8. t[1] = x
  BY <1>4 DEF Moved
<1>9. Once(t)
  <2> SUFFICES ASSUME NEW a \in 1 .. Len(t), NEW b \in 1 .. Len(t), t[a] = t[b]
               PROVE  a = b
    BY DEF Once
  <2>1. CASE a = 1 /\ b # 1
    BY <1>6, <1>7, <1>8, <2>1
  <2>2. CASE a # 1 /\ b = 1
    BY <1>6, <1>7, <1>8, <2>2
  <2>3. CASE a # 1 /\ b # 1
    <3>1. PICK j \in 1 .. Len(s) : j # i /\ t[a] = s[j] /\ j = (IF a <= i THEN a - 1 ELSE a)
      BY <1>7, <2>3
    <3>2. PICK l \in 1 .. Len(s) : l # i /\ t[b] = s[l] /\ l = (IF b <= i THEN b - 1 ELSE b)
      BY <1>7, <2>3
    <3>3. j = l
      BY <3>1, <3>2 DEF Once
    <3> QED
      BY <1>2, <1>3, <1>5, <3>1, <3>2, <3>3
  <2> QED
    BY <2>1, <2>2, <2>3
<1>10. ASSUME NEW j \in 1 .. Len(s) PROVE \E k \in 1 .. Len(t) : t[k] = s[j]
  <2>1. CASE j = i
    <3>1. 1 \in 1 .. Len(t) /\ t[1] = s[j]
      BY <1>2, <1>3, <1>5, <1>8, <2>1
    <3> QED
      BY <3>1
  <2>2. CASE j < i
    <3>1. j + 1 \in 2 .. i /\ j + 1 \in 1 .. Len(t) /\ (j + 1) - 1 = j
      BY <1>2, <1>3, <1>5, <2>2
    <3>2. t[j + 1] = s[j]
      BY <1>4, <3>1 DEF Moved
    <3> QED
      BY <3>1, <3>2
  <2>3. CASE j > i
    <3>1. j \in 1 .. Len(t) /\ j \in i + 1 .. Len(s)
      BY <1>2, <1>3, <1>5, <2>3
    <3>2. t[j] = s[j]
      BY <1>4, <3>1 DEF Moved
    <3> QED
      BY <3>1, <3>2
  <2> QED
    BY <1>2, <1>3, <2>1, <2>2, <2>3
<1>11. ASSUME NEW k \in 1 .. Len(t) PROVE t[k] = x \/ \E j \in 1 .. Len(s) : t[k] = s[j]
  BY <1>7, <1>8
<1> QED
  BY <1>9, <1>10, <1>11 DEF Adds
-----------------------------------------------------------------------------
(***************************************************************************)
(* The inductive invariant.                                                *)
(***************************************************************************)
\* The list holds each of its cells once, and every node is in it.
ListOK ==
  /\ cacheList \in Seq(Cells) /\ Once(cacheList)
  /\ DOMAIN node = {cacheList[i] : i \in 1 .. Len(cacheList)}
  /\ \A c \in DOMAIN node : node[c] \in [key : Keys, value : Values]

\* Every iterator points to the node of its key, every node is pointed to.
MapOK ==
  /\ \A k \in DOMAIN cacheMap : cacheMap[k] \in DOMAIN node /\ node[cacheMap[k]].key = k
  /\ \A c \in DOMAIN node : node[c].key \in DOMAIN cacheMap /\ cacheMap[node[c].key] = c

\* The list is the front of the history.
RecentOK == recent \in Seq(Keys) /\ Once(recent) /\ HoldsMostRecent

CacheIInv == ListOK /\ MapOK /\ RecentOK

\* Lengths and domains, for the steps that count.
LEMMA CacheSizes ==
  ASSUME CacheIInv
  PROVE  /\ Capacity \in Nat /\ Capacity > 0
         /\ Len(cacheList) \in Nat /\ Len(recent) \in Nat
         /\ Len(cacheList) <= Capacity /\ Len(cacheList) <= Len(recent)
         /\ Len(cacheList) = IF Len(recent) < Capacity THEN Len(recent) ELSE Capacity
<1>1. Len(cacheList) \in Nat /\ Len(recent) \in Nat
  BY LenProperties DEF CacheIInv, ListOK, RecentOK
<1> QED
  BY <1>1, CapacityAssumption DEF CacheIInv, RecentOK, HoldsMostRecent

\* What is in the list, place by place.
LEMMA CachePlaces ==
  ASSUME CacheIInv, NEW i \in 1 .. Len(cacheList)
  PROVE  /\ cacheList[i] \in Cells /\ cacheList[i] \in DOMAIN node
         /\ node[cacheList[i]].key = recent[i]
         /\ i \in 1 .. Len(recent)
<1>1. DOMAIN cacheList = 1 .. Len(cacheList)
  BY LenProperties DEF CacheIInv, ListOK
<1>2. cacheList[i] \in Cells /\ cacheList[i] \in DOMAIN node
  BY ElementOfSeq DEF CacheIInv, ListOK
<1>3. i \in 1 .. Len(recent)
  BY CacheSizes
<1> QED
  BY <1>1, <1>2, <1>3 DEF CacheIInv, RecentOK, HoldsMostRecent

\* A key that is cached stands at one place in the list and in the history.
LEMMA HitPlace ==
  ASSUME CacheIInv, NEW k \in DOMAIN cacheMap
  PROVE  /\ PlaceIn(cacheList, cacheMap[k]) \in 1 .. Len(cacheList)
         /\ cacheList[PlaceIn(cacheList, cacheMap[k])] = cacheMap[k]
         /\ PlaceIn(recent, k) = PlaceIn(cacheList, cacheMap[k])
<1> DEFINE i == PlaceIn(cacheList, cacheMap[k])
           p == PlaceIn(recent, k)
<1>1. cacheMap[k] \in DOMAIN node /\ node[cacheMap[k]].key = k
  BY DEF CacheIInv, MapOK
<1>2. PICK j \in 1 .. Len(cacheList) : cacheList[j] = cacheMap[k]
  BY <1>1 DEF CacheIInv, ListOK
<1>3. /\ i \in 1 .. Len(cacheList) + 1
      /\ i <= Len(cacheList) => cacheList[i] = cacheMap[k]
      /\ i # Len(cacheList) + 1
  BY <1>2, PlaceIsThere DEF CacheIInv, ListOK
<1>4. /\ p \in 1 .. Len(recent) + 1
      /\ p <= Len(recent) => recent[p] = k
      /\ p = Len(recent) + 1 => \A l \in 1 .. Len(recent) : recent[l] # k
  BY PlaceIsThere DEF CacheIInv, RecentOK
<1> HIDE DEF i, p
<1>5. i \in 1 .. Len(cacheList) /\ cacheList[i] = cacheMap[k]
  BY <1>3, CacheSizes
<1>6. i \in 1 .. Len(recent) /\ recent[i] = k
  BY <1>1, <1>5, CachePlaces
<1>7. p \in 1 .. Len(recent) /\ recent[p] = k
  BY <1>4, <1>6, CacheSizes
<1>8. p = i
  BY <1>6, <1>7 DEF CacheIInv, RecentOK, Once
<1> QED
  BY <1>5, <1>8 DEF i, p

\* Where the list and the history both bring their place i to the front.
LEMMA MovedAlike ==
  ASSUME CacheIInv, NEW i \in 1 .. Len(cacheList),
         NEW l, NEW r, NEW x, NEW k,
         Moved(l, cacheList, i, x), Moved(r, recent, i, k), node[x].key = k,
         NEW j \in 1 .. Len(cacheList)
  PROVE  node[l[j]].key = r[j]
<1>1. CASE j = 1
  BY <1>1 DEF Moved
<1>2. CASE j \in 2 .. i
  <2>1. j - 1 \in 1 .. Len(cacheList)
    BY <1>2, CacheSizes
  <2>2. node[cacheList[j - 1]].key = recent[j - 1]
    BY <2>1, CachePlaces
  <2> QED
    BY <1>2, <2>2 DEF Moved
<1>3. CASE j \in i + 1 .. Len(cacheList)
  <2>1. node[cacheList[j]].key = recent[j] /\ j \in 1 .. Len(recent)
    BY CachePlaces
  <2>2. j \in i + 1 .. Len(recent)
    BY <1>3, <2>1, CacheSizes
  <2> QED
    BY <1>3, <2>1, <2>2 DEF Moved
<1> QED
  BY <1>1, <1>2, <1>3, CacheSizes

\* Using a key that is cached keeps the invariant: its node comes to the
\* front of the list as the key comes to the front of the history.
LEMMA HitKeepsIInv ==
  ASSUME CacheIInv, NEW k \in DOMAIN cacheMap, k \in Keys,
         cacheList' = ToFront(cacheList, cacheMap[k]),
         cacheMap' = [cacheMap EXCEPT ![k] = Head(cacheList')],
         recent' = ToFront(recent, k),
         DOMAIN node' = DOMAIN node,
         \A c \in DOMAIN node : node'[c] \in [key : Keys, value : Values] /\ node'[c].key = node[c].key
  PROVE  CacheIInv' /\ Head(cacheList') = cacheMap[k]
<1>1. PICK i : i = PlaceIn(cacheList, cacheMap[k])
  OBVIOUS
<1>2. /\ i \in 1 .. Len(cacheList) /\ cacheList[i] = cacheMap[k]
      /\ i = PlaceIn(recent, k)
  BY <1>1, HitPlace
<1>3. cacheMap[k] \in DOMAIN node /\ cacheMap[k] \in Cells /\ node[cacheMap[k]].key = k
  BY <1>2, CachePlaces DEF CacheIInv, MapOK
<1>4. i <= Len(cacheList) /\ i <= Len(recent)
  BY <1>2, CacheSizes
<1>5. /\ cacheList' \in Seq(Cells) /\ Once(cacheList')
      /\ Moved(cacheList', cacheList, i, cacheMap[k])
      /\ Adds(cacheList', cacheList, cacheMap[k])
  <2>1. cacheList \in Seq(Cells) /\ Once(cacheList)
    BY DEF CacheIInv, ListOK
  <2> QED
    BY <1>1, <1>3, <2>1, ToFrontPlaces, ToFrontKeeps
<1>6. /\ recent' \in Seq(Keys) /\ Once(recent')
      /\ Moved(recent', recent, i, k)
  <2>1. recent \in Seq(Keys) /\ Once(recent)
    BY DEF CacheIInv, RecentOK
  <2> QED
    BY <1>2, <2>1, ToFrontPlaces, ToFrontKeeps
<1>7. Len(cacheList') = Len(cacheList) /\ cacheList'[1] = cacheMap[k] /\ Len(recent') = Len(recent)
  BY <1>4, <1>5, <1>6 DEF Moved
<1>8. ListOK'
  <2>1. ASSUME NEW c \in DOMAIN node PROVE \E l \in 1 .. Len(cacheList') : cacheList'[l] = c
    BY <1>5 DEF CacheIInv, ListOK, Adds
  <2>2. ASSUME NEW l \in 1 .. Len(cacheList') PROVE cacheList'[l] \in DOMAIN node
    BY <1>3, <1>5, CachePlaces DEF Adds
  <2>3. DOMAIN node' = {cacheList'[l] : l \in 1 .. Len(cacheList')}
    <3>1. \A c : c \in DOMAIN node' <=> \E l \in 1 .. Len(cacheList') : c = cacheList'[l]
      BY <2>1, <2>2
    <3> QED
      BY <3>1
  <2> QED
    BY <1>5, <2>3 DEF CacheIInv, ListOK
<1>9. Head(cacheList') = cacheMap[k]
  <2>1. cacheList' # <<>>
    BY <1>2, <1>7, CacheSizes
  <2> QED
    BY <1>5, <1>7, <2>1
<1>10. MapOK'
  <2>1. DOMAIN cacheMap' = DOMAIN cacheMap /\ \A l \in DOMAIN cacheMap : cacheMap'[l] = cacheMap[l]
    BY <1>9
  <2> QED
    BY <2>1 DEF CacheIInv, MapOK
<1>11. HoldsMostRecent'
  <2>1. ASSUME NEW j \in 1 .. Len(cacheList) PROVE node[cacheList'[j]].key = recent'[j]
    BY <1>2, <1>3, <1>5, <1>6, MovedAlike
  <2>2. DOMAIN cacheList' = 1 .. Len(cacheList)
    BY <1>5, <1>7, LenProperties
  <2>3. ASSUME NEW j \in 1 .. Len(cacheList) PROVE cacheList'[j] \in DOMAIN node
    BY <1>7, <1>8 DEF ListOK
  <2> QED
    BY <1>7, <2>1, <2>2, <2>3 DEF CacheIInv, RecentOK, HoldsMostRecent
<1> QED
  BY <1>6, <1>8, <1>9, <1>10, <1>11 DEF CacheIInv, RecentOK

\* What is left of the list and of the map when a new key is put in: the
\* last node is gone from both, or nothing is.
LEMMA LeftMatches ==
  ASSUME CacheIInv
  PROVE  /\ ListLeft \in Seq(Cells)
         /\ Len(ListLeft) = IF Full THEN Len(cacheList) - 1 ELSE Len(cacheList)
         /\ \A j \in 1 .. Len(ListLeft) : ListLeft[j] = cacheList[j]
         /\ InUse = {cacheList[j] : j \in 1 .. Len(ListLeft)}
         /\ InUse \subseteq DOMAIN node /\ KeysLeft \subseteq DOMAIN cacheMap
         /\ \A c \in InUse : node[c].key \in KeysLeft
         /\ \A k \in KeysLeft : cacheMap[k] \in InUse
<1>1. cacheList \in Seq(Cells) /\ Len(cacheList) \in Nat
  BY CacheSizes DEF CacheIInv, ListOK
<1>2. /\ ListLeft \in Seq(Cells)
      /\ Len(ListLeft) = IF Full THEN Len(cacheList) - 1 ELSE Len(cacheList)
      /\ \A j \in 1 .. Len(ListLeft) : ListLeft[j] = cacheList[j]
  <2>1. CASE Full
    <3>1. Len(cacheList) >= 1
      BY <2>1, CacheSizes DEF Full
    <3>2. \A j \in 1 .. Len(cacheList) - 1 : cacheList[j] \in Cells
      BY <1>1
    <3>3. ListLeft = SubSeq(cacheList, 1, Len(cacheList) - 1)
      BY <2>1 DEF ListLeft
    <3>4. PICK n : n = Len(cacheList) - 1
      OBVIOUS
    <3>5. n \in Nat /\ 1 \in Int /\ \A j \in 1 .. n : cacheList[j] \in Cells
      BY <1>1, <3>1, <3>2, <3>4
    <3>6. ListLeft \in Seq(Cells)
      BY <3>3, <3>4, <3>5, SubSeqProperties
    <3>7. Len(ListLeft) = n
      BY <3>3, <3>4, <3>5
    <3>8. \A j \in 1 .. n : ListLeft[j] = cacheList[j]
      BY <3>3, <3>4, <3>5
    <3> QED
      BY <2>1, <3>4, <3>6, <3>7, <3>8
  <2>2. CASE ~Full
    BY <1>1, <2>2 DEF ListLeft
  <2> QED
    BY <2>1, <2>2
<1>3. \A j \in 1 .. Len(ListLeft) : j \in 1 .. Len(cacheList) /\ (Full => j # Len(cacheList))
  BY <1>1, <1>2
<1>4. InUse = {cacheList[j] : j \in 1 .. Len(ListLeft)}
  BY <1>2, LenProperties DEF InUse
<1>5. InUse \subseteq DOMAIN node /\ KeysLeft \subseteq DOMAIN cacheMap
  BY <1>3, <1>4, CachePlaces DEF KeysLeft
<1>6. ASSUME NEW c \in InUse PROVE node[c].key \in KeysLeft
  <2>1. PICK j \in 1 .. Len(ListLeft) : c = cacheList[j]
    BY <1>4
  <2>2. node[c].key \in DOMAIN cacheMap /\ cacheMap[node[c].key] = c
    BY <1>5 DEF CacheIInv, MapOK
  <2>3. CASE Full
    <3>1. Len(cacheList) \in 1 .. Len(cacheList) /\ Last = cacheList[Len(cacheList)]
      BY <1>1, <2>3, CacheSizes DEF Full, Last
    <3>2. Last # c
      BY <1>3, <2>1, <2>3, <3>1 DEF CacheIInv, ListOK, Once
    <3>3. cacheMap[node[Last].key] = Last
      BY <3>1, CachePlaces DEF CacheIInv, MapOK
    <3> QED
      BY <2>2, <2>3, <3>2, <3>3 DEF KeysLeft
  <2>4. CASE ~Full
    BY <2>2, <2>4 DEF KeysLeft
  <2> QED
    BY <2>3, <2>4
<1>7. ASSUME NEW k \in KeysLeft PROVE cacheMap[k] \in InUse
  <2>1. cacheMap[k] \in DOMAIN node /\ node[cacheMap[k]].key = k
    BY <1>5 DEF CacheIInv, MapOK
  <2>2. PICK j \in 1 .. Len(cacheList) : cacheList[j] = cacheMap[k]
    BY <2>1 DEF CacheIInv, ListOK
  <2>3. Full => j # Len(cacheList)
    BY <2>1, <2>2 DEF KeysLeft, Last
  <2>4. j \in 1 .. Len(ListLeft)
    BY <1>1, <1>2, <2>3
  <2> QED
    BY <1>4, <2>2, <2>4
<1> QED
  BY <1>2, <1>4, <1>5, <1>6, <1>7

\* What the set of a new key leaves, place by place: m nodes stay, and a cell
\* none of them uses is in front.
MissLeaves(cell, m, k, v) ==
  /\ cell \in Cells \ InUse
  /\ m \in Nat /\ m <= Len(cacheList)
  /\ m = IF Full THEN Len(cacheList) - 1 ELSE Len(cacheList)
  /\ \A j \in 1 .. m : cacheList[j] \in InUse
  /\ InUse = {cacheList[j] : j \in 1 .. m}
  /\ node' = [i \in InUse \cup {cell} |->
                IF i = cell THEN [key |-> k, value |-> v] ELSE node[i]]
  /\ cacheMap' = [j \in KeysLeft \cup {k} |-> IF j = k THEN cell ELSE cacheMap[j]]
  /\ cacheList' \in Seq(Cells) /\ Len(cacheList') = m + 1
  /\ cacheList'[1] = cell
  /\ \A j \in 2 .. m + 1 : cacheList'[j] = cacheList[j - 1]

\* The cell that is allocated and what pop_back leaves are of that kind.
LEMMA MissPlaces ==
  ASSUME CacheIInv, NEW k, NEW v, SetMiss(k, v)
  PROVE  \E cell, m : MissLeaves(cell, m, k, v)
<1>1. PICK cell \in Cells \ InUse :
        /\ node' = [i \in InUse \cup {cell} |->
                      IF i = cell THEN [key |-> k, value |-> v] ELSE node[i]]
        /\ cacheList' = <<cell>> \o ListLeft
        /\ cacheMap' = [j \in KeysLeft \cup {k} |-> IF j = k THEN cell ELSE cacheMap[j]]
  BY DEF SetMiss
<1>2. PICK m : m = Len(ListLeft)
  OBVIOUS
<1>3. /\ ListLeft \in Seq(Cells) /\ m \in Nat
      /\ m = IF Full THEN Len(cacheList) - 1 ELSE Len(cacheList)
      /\ m <= Len(cacheList)
  BY <1>2, LeftMatches, CacheSizes DEF Full
<1>4. /\ \A j \in 1 .. m : ListLeft[j] = cacheList[j] /\ cacheList[j] \in InUse
      /\ InUse = {cacheList[j] : j \in 1 .. m}
  BY <1>2, LeftMatches
<1>5. /\ cacheList' \in Seq(Cells) /\ Len(cacheList') = m + 1
      /\ cacheList'[1] = cell
      /\ \A j \in 2 .. m + 1 : cacheList'[j] = cacheList[j - 1]
  <2>1. <<cell>> \in Seq(Cells) /\ Len(<<cell>>) = 1 /\ <<cell>>[1] = cell
    OBVIOUS
  <2>2. /\ cacheList' \in Seq(Cells) /\ Len(cacheList') = 1 + m
        /\ \A j \in 1 .. 1 + m : cacheList'[j] = IF j <= 1 THEN <<cell>>[j] ELSE ListLeft[j - 1]
    <3>1. cacheList' \in Seq(Cells)
      BY <1>1, <1>3, <2>1
    <3>2. /\ Len(<<cell>> \o ListLeft) = Len(<<cell>>) + Len(ListLeft)
          /\ \A j \in 1 .. Len(<<cell>>) + Len(ListLeft) :
               (<<cell>> \o ListLeft)[j] =
                 IF j <= Len(<<cell>>) THEN <<cell>>[j] ELSE ListLeft[j - Len(<<cell>>)]
      BY <1>3, <2>1, ConcatProperties
    <3> QED
      BY <1>1, <1>2, <2>1, <3>1, <3>2
  <2>3. cacheList'[1] = cell
    BY <1>3, <2>1, <2>2
  <2>4. ASSUME NEW j \in 2 .. m + 1 PROVE cacheList'[j] = cacheList[j - 1]
    <3>1. j \in 1 .. 1 + m /\ ~(j <= 1) /\ j - 1 \in 1 .. m
      BY <1>3
    <3> QED
      BY <1>4, <2>2, <3>1
  <2> QED
    BY <1>3, <2>2, <2>3, <2>4
<1> QED
  BY <1>1, <1>3, <1>4, <1>5 DEF MissLeaves

\* A new key is put in front of the list, with a cell that is free, and in
\* front of the history, where it was behind what is cached or not at all.
LEMMA MissKeepsIInv ==
  ASSUME CacheIInv, NEW k \in Keys, NEW v \in Values, SetMiss(k, v)
  PROVE  CacheIInv'
<1>1. k \notin DOMAIN cacheMap /\ recent' = ToFront(recent, k)
  BY DEF SetMiss
<1>2. PICK cell, m : MissLeaves(cell, m, k, v)
  BY MissPlaces
<1>3. /\ cell \notin InUse /\ cell \in Cells
      /\ node' = [i \in InUse \cup {cell} |->
                    IF i = cell THEN [key |-> k, value |-> v] ELSE node[i]]
      /\ cacheMap' = [j \in KeysLeft \cup {k} |-> IF j = k THEN cell ELSE cacheMap[j]]
  BY <1>2 DEF MissLeaves
<1>4. /\ m \in Nat /\ m <= Len(cacheList)
      /\ m = IF Full THEN Len(cacheList) - 1 ELSE Len(cacheList)
  BY <1>2 DEF MissLeaves
<1>5. /\ \A j \in 1 .. m : cacheList[j] \in InUse
      /\ InUse = {cacheList[j] : j \in 1 .. m}
  BY <1>2 DEF MissLeaves
<1>6. /\ cacheList' \in Seq(Cells) /\ Len(cacheList') = m + 1
      /\ cacheList'[1] = cell
      /\ \A j \in 2 .. m + 1 : cacheList'[j] = cacheList[j - 1]
  BY <1>2 DEF MissLeaves
<1>7. ASSUME NEW j \in 1 .. m + 1, j # 1
      PROVE  /\ cacheList'[j] = cacheList[j - 1] /\ j - 1 \in 1 .. m
             /\ j - 1 \in 1 .. Len(cacheList) /\ cacheList[j - 1] \in InUse
             /\ j \in 2 .. m + 1
  BY <1>4, <1>5, <1>6, <1>7, CacheSizes
<1>8. Once(cacheList')
  <2> SUFFICES ASSUME NEW a \in 1 .. m + 1, NEW b \in 1 .. m + 1, cacheList'[a] = cacheList'[b]
               PROVE  a = b
    BY <1>6 DEF Once
  <2>1. CASE a = 1 /\ b # 1
    BY <1>3, <1>6, <1>7, <2>1
  <2>2. CASE a # 1 /\ b = 1
    BY <1>3, <1>6, <1>7, <2>2
  <2>3. CASE a # 1 /\ b # 1
    <3>1. a - 1 = b - 1
      BY <1>7, <2>3 DEF CacheIInv, ListOK, Once
    <3> QED
      BY <1>4, <3>1
  <2> QED
    BY <2>1, <2>2, <2>3
<1>9. /\ DOMAIN node' = InUse \cup {cell}
      /\ node'[cell] = [key |-> k, value |-> v]
      /\ \A c \in InUse : node'[c] = node[c] /\ c # cell
  BY <1>3
<1>10. ListOK'
  <2>1. ASSUME NEW c \in DOMAIN node' PROVE \E j \in 1 .. m + 1 : c = cacheList'[j]
    <3>1. CASE c = cell
      <4>1. 1 \in 1 .. m + 1 /\ c = cacheList'[1]
        BY <1>4, <1>6, <3>1
      <4> QED
        BY <4>1
    <3>2. CASE c \in InUse
      <4>1. PICK j \in 1 .. m : c = cacheList[j]
        BY <1>5, <3>2
      <4>2. j + 1 \in 2 .. m + 1 /\ j + 1 \in 1 .. m + 1 /\ (j + 1) - 1 = j
        BY <1>4
      <4>3. c = cacheList'[j + 1]
        BY <1>6, <4>1, <4>2
      <4> QED
        BY <4>2, <4>3
    <3> QED
      BY <1>9, <3>1, <3>2
  <2>2. ASSUME NEW j \in 1 .. m + 1 PROVE cacheList'[j] \in DOMAIN node'
    BY <1>6, <1>7, <1>9
  <2>3. DOMAIN node' = {cacheList'[j] : j \in 1 .. Len(cacheList')}
    <3>1. \A c : c \in DOMAIN node' <=> \E j \in 1 .. Len(cacheList') : c = cacheList'[j]
      BY <1>6, <2>1, <2>2
    <3> QED
      BY <3>1
  <2>4. \A c \in DOMAIN node' : node'[c] \in [key : Keys, value : Values]
    BY <1>9, LeftMatches DEF CacheIInv, ListOK
  <2> QED
    BY <1>6, <1>8, <2>3, <2>4 DEF ListOK
<1>11. MapOK'
  <2>1. /\ DOMAIN cacheMap' = KeysLeft \cup {k} /\ cacheMap'[k] = cell
        /\ \A j \in KeysLeft : j # k /\ cacheMap'[j] = cacheMap[j]
    BY <1>1, <1>3, LeftMatches
  <2>2. ASSUME NEW j \in DOMAIN cacheMap' PROVE cacheMap'[j] \in DOMAIN node' /\ node'[cacheMap'[j]].key = j
    <3>1. CASE j = k
      BY <1>9, <2>1, <3>1
    <3>2. CASE j \in KeysLeft
      <4>1. cacheMap[j] \in InUse /\ node[cacheMap[j]].key = j
        BY <3>2, LeftMatches DEF CacheIInv, MapOK
      <4> QED
        BY <1>9, <2>1, <3>2, <4>1
    <3> QED
      BY <2>1, <3>1, <3>2
  <2>3. ASSUME NEW c \in DOMAIN node' PROVE node'[c].key \in DOMAIN cacheMap' /\ cacheMap'[node'[c].key] = c
    <3>1. CASE c = cell
      BY <1>9, <2>1, <3>1
    <3>2. CASE c \in InUse
      <4>1. node[c].key \in KeysLeft /\ cacheMap[node[c].key] = c
        BY <3>2, LeftMatches DEF CacheIInv, MapOK
      <4> QED
        BY <1>9, <2>1, <3>2, <4>1
    <3> QED
      BY <1>9, <3>1, <3>2
  <2> QED
    BY <2>2, <2>3 DEF MapOK
<1>12. recent \in Seq(Keys) /\ Once(recent) /\ Len(recent) \in Nat
  BY CacheSizes DEF CacheIInv, RecentOK
<1>13. PICK p : p = PlaceIn(recent, k)
  OBVIOUS
<1>14. p \in 1 .. Len(recent) + 1 /\ p > Len(cacheList)
  <2>1. p \in 1 .. Len(recent) + 1 /\ (p <= Len(recent) => recent[p] = k)
    BY <1>12, <1>13, PlaceIsThere
  <2>2. ASSUME p <= Len(cacheList) PROVE FALSE
    <3>1. p \in 1 .. Len(cacheList) /\ p <= Len(recent)
      BY <1>12, <2>1, <2>2, CacheSizes
    <3>2. cacheList[p] \in DOMAIN node /\ node[cacheList[p]].key = k
      BY <2>1, <3>1, CachePlaces
    <3> QED
      BY <1>1, <3>2 DEF CacheIInv, MapOK
  <2> QED
    BY <1>12, <2>1, <2>2, CacheSizes
<1>15. recent' \in Seq(Keys) /\ Once(recent') /\ Moved(recent', recent, p, k)
  BY <1>1, <1>12, <1>13, ToFrontPlaces, ToFrontKeeps
<1>16. HoldsMostRecent'
  <2>1. Len(recent') = IF p <= Len(recent) THEN Len(recent) ELSE Len(recent) + 1
    BY <1>15 DEF Moved
  <2>2. m + 1 = IF Len(recent') < Capacity THEN Len(recent') ELSE Capacity
    BY <1>4, <1>14, <2>1, CacheSizes DEF Full
  <2>3. ASSUME NEW j \in 1 .. m + 1 PROVE node'[cacheList'[j]].key = recent'[j]
    <3>1. CASE j = 1
      BY <1>6, <1>9, <1>15, <3>1 DEF Moved
    <3>2. CASE j # 1
      <4>1. j \in 2 .. p
        BY <1>4, <1>14, <3>2, CacheSizes
      <4>2. recent'[j] = recent[j - 1]
        BY <1>15, <4>1 DEF Moved
      <4>3. node[cacheList[j - 1]].key = recent[j - 1]
        BY <1>7, <3>2, CachePlaces
      <4> QED
        BY <1>7, <1>9, <3>2, <4>2, <4>3
    <3> QED
      BY <3>1, <3>2
  <2>4. DOMAIN cacheList' = 1 .. m + 1
    BY <1>6, LenProperties
  <2> QED
    BY <1>6, <2>2, <2>3, <2>4 DEF HoldsMostRecent
<1> QED
  BY <1>10, <1>11, <1>15, <1>16 DEF CacheIInv, RecentOK

\* The inductive invariant holds of the empty cache.
LEMMA InitCache == Init => CacheIInv
<1> SUFFICES ASSUME Init PROVE CacheIInv
  OBVIOUS
<1>1. cacheList = <<>> /\ recent = <<>> /\ DOMAIN node = {} /\ DOMAIN cacheMap = {}
  BY DEF Init
<1>2. ListOK
  BY <1>1 DEF ListOK, Once
<1>3. MapOK
  BY <1>1 DEF MapOK
<1>4. RecentOK
  BY <1>1, CapacityAssumption DEF RecentOK, Once, HoldsMostRecent
<1> QED
  BY <1>2, <1>3, <1>4 DEF CacheIInv

\* Every step keeps it: a get or a set, of a key that is cached or is not.
LEMMA NextKeepsCache ==
  ASSUME CacheIInv, [Next]_vars
  PROVE  CacheIInv'
<1>1. CASE UNCHANGED <<node, cacheList, cacheMap, recent>>
  <2>1. ListOK'
    BY <1>1 DEF CacheIInv, ListOK
  <2>2. MapOK'
    BY <1>1 DEF CacheIInv, MapOK
  <2>3. HoldsMostRecent'
    BY <1>1 DEF CacheIInv, RecentOK, HoldsMostRecent
  <2> QED
    BY <1>1, <2>1, <2>2, <2>3 DEF CacheIInv, RecentOK
<1>2. ASSUME NEW k \in Keys, GetMiss(k) PROVE CacheIInv'
  BY <1>1, <1>2 DEF GetMiss
<1>3. ASSUME NEW k \in Keys, GetHit(k) PROVE CacheIInv'
  <2>1. \A c \in DOMAIN node : node'[c] \in [key : Keys, value : Values] /\ node'[c].key = node[c].key
    BY <1>3 DEF GetHit, CacheIInv, ListOK
  <2>2. /\ k \in DOMAIN cacheMap /\ DOMAIN node' = DOMAIN node
        /\ cacheList' = ToFront(cacheList, cacheMap[k])
        /\ cacheMap' = [cacheMap EXCEPT ![k] = Head(cacheList')]
        /\ recent' = ToFront(recent, k)
    BY <1>3 DEF GetHit
  <2> QED
    BY <2>1, <2>2, HitKeepsIInv
<1>4. ASSUME NEW k \in Keys, NEW v \in Values, SetHit(k, v) PROVE CacheIInv'
  <2>1. /\ k \in DOMAIN cacheMap
        /\ node' = [node EXCEPT ![cacheMap[k]].value = v]
        /\ cacheList' = ToFront(cacheList, cacheMap[k])
        /\ cacheMap' = [cacheMap EXCEPT ![k] = Head(cacheList')]
        /\ recent' = ToFront(recent, k)
    BY <1>4 DEF SetHit
  <2>2. \A c \in DOMAIN node : node'[c] \in [key : Keys, value : Values] /\ node'[c].key = node[c].key
    BY <2>1 DEF CacheIInv, ListOK
  <2>3. DOMAIN node' = DOMAIN node
    BY <2>1
  <2> QED
    BY <2>1, <2>2, <2>3, HitKeepsIInv
<1>5. ASSUME NEW k \in Keys, NEW v \in Values, SetMiss(k, v) PROVE CacheIInv'
  BY <1>5, MissKeepsIInv
<1> QED
  BY <1>1, <1>2, <1>3, <1>4, <1>5 DEF Next, vars

\* There are as many keys as places: each place has its own key.
LEMMA CacheIsMatched == CacheIInv => MapMatchesList
<1> SUFFICES ASSUME CacheIInv PROVE MapMatchesList
  OBVIOUS
<1>1. /\ cacheList \in Seq(Cells) /\ Len(cacheList) \in Nat
      /\ DOMAIN cacheList = 1 .. Len(cacheList)
  BY CacheSizes, LenProperties DEF CacheIInv, ListOK
<1>2. ASSUME NEW k \in DOMAIN cacheMap
      PROVE  \E i \in DOMAIN cacheList : cacheList[i] = cacheMap[k] /\ node[cacheList[i]].key = k
  <2>1. cacheMap[k] \in DOMAIN node /\ node[cacheMap[k]].key = k
    BY DEF CacheIInv, MapOK
  <2>2. PICK i \in 1 .. Len(cacheList) : cacheList[i] = cacheMap[k]
    BY <2>1 DEF CacheIInv, ListOK
  <2> QED
    BY <1>1, <2>1, <2>2
<1>3. Cardinality(DOMAIN cacheMap) = Len(cacheList)
  <2> DEFINE S == 1 .. Len(cacheList)
             f == [i \in S |-> node[cacheList[i]].key]
  <2>1. f \in [S -> DOMAIN cacheMap]
    BY CachePlaces DEF CacheIInv, MapOK
  <2>2. \A i, j \in S : f[i] = f[j] => i = j
    <3> SUFFICES ASSUME NEW i \in S, NEW j \in S, f[i] = f[j] PROVE i = j
      OBVIOUS
    <3>1. cacheList[i] = cacheMap[f[i]] /\ cacheList[j] = cacheMap[f[j]]
      BY CachePlaces DEF CacheIInv, MapOK
    <3> QED
      BY <3>1 DEF CacheIInv, ListOK, Once
  <2>3. \A k \in DOMAIN cacheMap : \E i \in S : f[i] = k
    BY <1>1, <1>2
  <2>4. f \in Bijection(S, DOMAIN cacheMap)
    BY <2>1, <2>2, <2>3, Fun_IsBij
  <2>5. ExistsBijection(S, DOMAIN cacheMap)
    BY <2>4 DEF ExistsBijection
  <2>6. IsFiniteSet(S) /\ Cardinality(S) = Len(cacheList)
    BY <1>1, FS_Interval
  <2> QED
    BY <2>5, <2>6, FS_Bijection
<1> QED
  BY <1>1, <1>2, <1>3, CacheSizes, CachePlaces DEF MapMatchesList

\* Whatever is got and set, the iterators of the map and the nodes of the
\* list correspond one to one, and the list never outgrows the capacity.
THEOREM MapAlwaysMatchesList == Spec => []MapMatchesList
BY InitCache, NextKeepsCache, CacheIsMatched, PTL DEF Spec

\* Whatever is got and set, the cache holds the keys used last, in the order
\* they were used in.
THEOREM AlwaysHoldsMostRecent == Spec => []HoldsMostRecent
<1>1. CacheIInv => HoldsMostRecent
  BY DEF CacheIInv, RecentOK
<1> QED
  BY <1>1, InitCache, NextKeepsCache, PTL DEF Spec
-----------------------------------------------------------------------------
(***************************************************************************)
(* The refinement: the pairs of the store are the nodes of the list.        *)
(***************************************************************************)
Items == [i \in DOMAIN cacheList |-> node[cacheList[i]]]

\* The store has as many pairs as the list has nodes, in its order.
LEMMA ItemsPlaces ==
  ASSUME CacheIInv
  PROVE  /\ DOMAIN Items = 1 .. Len(cacheList) /\ Len(Items) = Len(cacheList)
         /\ \A i \in 1 .. Len(cacheList) : Items[i] = node[cacheList[i]]
<1>1. cacheList \in Seq(Cells) /\ Len(cacheList) \in Nat /\ DOMAIN cacheList = 1 .. Len(cacheList)
  BY CacheSizes, LenProperties DEF CacheIInv, ListOK
<1>2. Items \in [1 .. Len(cacheList) -> {node[c] : c \in DOMAIN node}]
  BY <1>1, CachePlaces DEF Items
<1>3. Items \in Seq({node[c] : c \in DOMAIN node})
  BY <1>1, <1>2
<1>4. Len(Items) = Len(cacheList)
  BY <1>1, <1>2, <1>3, LenProperties
<1> QED
  BY <1>1, <1>4 DEF Items

\* The store has a pair for the keys of the map, where their nodes are.
LEMMA ItemPlace ==
  ASSUME CacheIInv, NEW k
  PROVE  /\ Store!Cached(Items, k) <=> k \in DOMAIN cacheMap
         /\ k \in DOMAIN cacheMap => Store!PlaceOf(Items, k) = PlaceIn(cacheList, cacheMap[k])
<1>1. ASSUME NEW i \in 1 .. Len(cacheList), Items[i].key = k
      PROVE  k \in DOMAIN cacheMap /\ cacheMap[k] = cacheList[i]
  BY <1>1, ItemsPlaces, CachePlaces DEF CacheIInv, MapOK
<1>2. ASSUME NEW i \in 1 .. Len(cacheList), k \in DOMAIN cacheMap, cacheMap[k] = cacheList[i]
      PROVE  Items[i].key = k
  BY <1>2, ItemsPlaces DEF CacheIInv, MapOK
<1>3. k \in DOMAIN cacheMap => PlaceIn(cacheList, cacheMap[k]) \in 1 .. Len(cacheList)
                              /\ cacheMap[k] = cacheList[PlaceIn(cacheList, cacheMap[k])]
  BY HitPlace
<1>4. Store!Cached(Items, k) <=> k \in DOMAIN cacheMap
  BY <1>1, <1>2, <1>3, ItemsPlaces DEF Store!Cached
<1>5. ASSUME k \in DOMAIN cacheMap PROVE Store!PlaceOf(Items, k) = PlaceIn(cacheList, cacheMap[k])
  <2>1. PICK p : p = PlaceIn(cacheList, cacheMap[k])
    OBVIOUS
  <2>2. p \in 1 .. Len(cacheList) /\ Items[p].key = k
    BY <1>2, <1>3, <1>5, <2>1
  <2>3. ASSUME NEW i \in 1 .. Len(cacheList), Items[i].key = k PROVE i = p
    BY <1>1, <1>3, <1>5, <2>1, <2>3 DEF CacheIInv, ListOK, Once
  <2> QED
    BY <2>1, <2>2, <2>3, ItemsPlaces DEF Store!PlaceOf
<1> QED
  BY <1>4, <1>5

\* When the list brings its place i to the front and writes no node but the
\* one it puts there, so does the store.
LEMMA ItemsMove ==
  ASSUME CacheIInv, CacheIInv', NEW i \in 1 .. Len(cacheList) + 1, NEW x,
         Len(cacheList') = IF i <= Len(cacheList) THEN Len(cacheList) ELSE i,
         node'[cacheList'[1]] = x,
         \A j \in 2 .. i : node'[cacheList'[j]] = node[cacheList[j - 1]],
         \A j \in i + 1 .. Len(cacheList) : node'[cacheList'[j]] = node[cacheList[j]]
  PROVE  Items' = Store!MovedToFront(Items, i, x)
<1>1. Len(cacheList) \in Nat /\ Len(Items) = Len(cacheList)
  BY CacheSizes, ItemsPlaces
<1>2. PICK n : n = IF i <= Len(cacheList) THEN Len(cacheList) ELSE i
  OBVIOUS
<1>3. n \in Nat /\ i <= n /\ (i < n => n = Len(cacheList)) /\ n <= Len(cacheList) + 1
  BY <1>1, <1>2
<1>4. DOMAIN cacheList' = 1 .. n
  BY <1>2, LenProperties DEF CacheIInv, ListOK
<1>5. Items' = [j \in 1 .. n |-> node'[cacheList'[j]]]
  BY <1>4 DEF Items
<1>6. Store!MovedToFront(Items, i, x) =
        [j \in 1 .. n |-> IF j = 1 THEN x ELSE IF j <= i THEN Items[j - 1] ELSE Items[j]]
  BY <1>1, <1>2 DEF Store!MovedToFront
<1>7. ASSUME NEW j \in 1 .. n
      PROVE  node'[cacheList'[j]] = IF j = 1 THEN x ELSE IF j <= i THEN Items[j - 1] ELSE Items[j]
  <2>1. CASE j = 1
    BY <2>1
  <2>2. CASE j # 1 /\ j <= i
    <3>1. j \in 2 .. i /\ j - 1 \in 1 .. Len(cacheList)
      BY <1>1, <1>3, <2>2
    <3> QED
      BY <2>2, <3>1, ItemsPlaces
  <2>3. CASE j # 1 /\ ~(j <= i)
    <3>1. j \in i + 1 .. Len(cacheList) /\ j \in 1 .. Len(cacheList)
      BY <1>1, <1>3, <2>3
    <3> QED
      BY <2>3, <3>1, ItemsPlaces
  <2> QED
    BY <2>1, <2>2, <2>3
<1> QED
  BY <1>5, <1>6, <1>7

\* A key that is cached is moved to the front of the store, with the value
\* its node has then.
LEMMA HitMovesItem ==
  ASSUME CacheIInv, CacheIInv', NEW k \in DOMAIN cacheMap,
         cacheList' = ToFront(cacheList, cacheMap[k]),
         \A c \in DOMAIN node : c # cacheMap[k] => node'[c] = node[c]
  PROVE  Items' = Store!MovedToFront(Items, Store!PlaceOf(Items, k), node'[cacheMap[k]])
<1>1. PICK i : i = PlaceIn(cacheList, cacheMap[k])
  OBVIOUS
<1>2. i = Store!PlaceOf(Items, k)
  BY <1>1, ItemPlace
<1>3. i \in 1 .. Len(cacheList) /\ cacheList[i] = cacheMap[k]
  BY <1>1, HitPlace
<1>4. Moved(cacheList', cacheList, i, cacheMap[k])
  <2>1. cacheList \in Seq(Cells) /\ cacheMap[k] \in Cells
    BY <1>3, CachePlaces DEF CacheIInv, ListOK
  <2> QED
    BY <1>1, <2>1, ToFrontPlaces
<1>5. Len(cacheList) \in Nat /\ i \in 1 .. Len(cacheList) + 1 /\ i <= Len(cacheList)
  BY <1>3, CacheSizes
<1>6. Len(cacheList') = IF i <= Len(cacheList) THEN Len(cacheList) ELSE i
  BY <1>4, <1>5 DEF Moved
<1>7. ASSUME NEW j \in 1 .. Len(cacheList), j # i PROVE node'[cacheList[j]] = node[cacheList[j]]
  <2>1. cacheList[j] # cacheList[i]
    BY <1>3, <1>7 DEF CacheIInv, ListOK, Once
  <2>2. cacheList[j] \in DOMAIN node
    BY CachePlaces
  <2> QED
    BY <1>3, <2>1, <2>2
<1>8. ASSUME NEW j \in 2 .. i PROVE node'[cacheList'[j]] = node[cacheList[j - 1]]
  <2>1. j - 1 \in 1 .. Len(cacheList) /\ j - 1 # i
    BY <1>3, <1>5
  <2> QED
    BY <1>4, <1>7, <2>1 DEF Moved
<1>9. ASSUME NEW j \in i + 1 .. Len(cacheList) PROVE node'[cacheList'[j]] = node[cacheList[j]]
  <2>1. j \in 1 .. Len(cacheList) /\ j # i
    BY <1>3, <1>5
  <2> QED
    BY <1>4, <1>7, <2>1 DEF Moved
<1>10. node'[cacheList'[1]] = node'[cacheMap[k]]
  BY <1>4 DEF Moved
<1> QED
  BY <1>2, <1>5, <1>6, <1>8, <1>9, <1>10, ItemsMove

\* A get that finds nothing is the store's.
LEMMA GetMissIsGet ==
  ASSUME CacheIInv, NEW k, GetMiss(k)
  PROVE  Store!Get(k)
<1>1. ~Store!Cached(Items, k) /\ got' = NoValue /\ Items' = Items
  BY ItemPlace DEF GetMiss, Items
<1> QED
  BY <1>1 DEF Store!Get, Store!LRUGet, Items

\* A get that finds its key returns and moves what the store's does.
LEMMA GetHitIsGet ==
  ASSUME CacheIInv, CacheIInv', NEW k \in Keys, GetHit(k)
  PROVE  Store!Get(k)
<1>1. /\ k \in DOMAIN cacheMap /\ cacheList' = ToFront(cacheList, cacheMap[k])
      /\ node' = node /\ got' = node[Head(cacheList')].value
  BY DEF GetHit
<1>2. Head(cacheList') = cacheMap[k]
  <2>1. \A c \in DOMAIN node : node'[c] \in [key : Keys, value : Values] /\ node'[c].key = node[c].key
    BY <1>1 DEF CacheIInv, ListOK
  <2> QED
    BY <1>1, <2>1, HitKeepsIInv DEF GetHit
<1>3. Store!Cached(Items, k) /\ Items[Store!PlaceOf(Items, k)] = node[cacheMap[k]]
  BY <1>1, ItemPlace, HitPlace, ItemsPlaces
<1>4. Items' = Store!MovedToFront(Items, Store!PlaceOf(Items, k), node[cacheMap[k]])
  BY <1>1, HitMovesItem
<1>5. got' = Store!CachedValue(Items, k)
  BY <1>1, <1>2, <1>3 DEF Store!CachedValue
<1>6. Items' = Store!LRUGet(Items, k)
  BY <1>3, <1>4 DEF Store!LRUGet
<1> QED
  BY <1>3, <1>5, <1>6 DEF Store!Get, Items

\* A set of a key that is cached is the store's.
LEMMA SetHitIsSet ==
  ASSUME CacheIInv, CacheIInv', NEW k, NEW v, SetHit(k, v)
  PROVE  Store!Set(k, v)
<1>1. /\ k \in DOMAIN cacheMap /\ cacheList' = ToFront(cacheList, cacheMap[k])
      /\ node' = [node EXCEPT ![cacheMap[k]].value = v] /\ got' = got
  BY DEF SetHit
<1>2. \A c \in DOMAIN node : c # cacheMap[k] => node'[c] = node[c]
  BY <1>1
<1>3. node'[cacheMap[k]] = [key |-> k, value |-> v]
  <2>1. /\ cacheMap[k] \in DOMAIN node /\ node[cacheMap[k]].key = k
        /\ node[cacheMap[k]] \in [key : Keys, value : Values]
    BY <1>1 DEF CacheIInv, MapOK, ListOK
  <2>2. node'[cacheMap[k]] = [node[cacheMap[k]] EXCEPT !.value = v]
    BY <1>1, <2>1
  <2> QED
    BY <2>1, <2>2
<1>4. Items' = Store!MovedToFront(Items, Store!PlaceOf(Items, k), [key |-> k, value |-> v])
  BY <1>1, <1>2, <1>3, HitMovesItem
<1>5. Store!Cached(Items, k)
  BY <1>1, ItemPlace
<1> QED
  BY <1>1, <1>4, <1>5 DEF Store!Set, Store!LRUSet, Items

\* A set of a new key is the store's, which pushes the same pair out.
LEMMA SetMissIsSet ==
  ASSUME CacheIInv, CacheIInv', NEW k, NEW v, SetMiss(k, v)
  PROVE  Store!Set(k, v)
<1>1. ~Store!Cached(Items, k) /\ got' = got
  BY ItemPlace DEF SetMiss
<1>2. PICK cell, m : MissLeaves(cell, m, k, v)
  BY MissPlaces
<1>3. PICK i : i = m + 1
  OBVIOUS
<1>4. /\ m \in Nat /\ m <= Len(cacheList) /\ Len(cacheList) \in Nat
      /\ m = IF Full THEN Len(cacheList) - 1 ELSE Len(cacheList)
      /\ Len(cacheList') = m + 1
  BY <1>2, CacheSizes DEF MissLeaves
<1>5. i \in 1 .. Len(cacheList) + 1 /\ Len(cacheList') = IF i <= Len(cacheList) THEN Len(cacheList) ELSE i
  BY <1>3, <1>4
<1>6. i = IF Len(Items) = Capacity THEN Len(Items) ELSE Len(Items) + 1
  <2>1. Len(Items) = Len(cacheList)
    BY ItemsPlaces
  <2> QED
    BY <1>3, <1>4, <2>1 DEF Full
<1>7. node'[cacheList'[1]] = [key |-> k, value |-> v]
  BY <1>2 DEF MissLeaves
<1>8. ASSUME NEW j \in 2 .. i PROVE node'[cacheList'[j]] = node[cacheList[j - 1]]
  <2>1. j \in 2 .. m + 1 /\ j - 1 \in 1 .. m
    BY <1>3, <1>4
  <2>2. cacheList'[j] = cacheList[j - 1] /\ cacheList[j - 1] \in InUse
    BY <1>2, <2>1 DEF MissLeaves
  <2> QED
    BY <1>2, <2>2 DEF MissLeaves
<1>9. ASSUME NEW j \in i + 1 .. Len(cacheList) PROVE node'[cacheList'[j]] = node[cacheList[j]]
  BY <1>3, <1>4
<1>10. Items' = Store!MovedToFront(Items, i, [key |-> k, value |-> v])
  BY <1>5, <1>7, <1>8, <1>9, ItemsMove
<1> QED
  BY <1>1, <1>6, <1>10 DEF Store!Set, Store!LRUSet, Items

\* The list and the map implement the bounded store: whatever the capacity,
\* the client sees a map that gives up the key used longest ago.
THEOREM CacheImplementsStore == Spec => ImplementsStore
<1>1. Init => Store!Init
  BY DEF Init, Store!Init
<1>2. CacheIInv /\ CacheIInv' /\ [Next]_vars => [Store!Next]_<<Items, got>>
  <2> SUFFICES ASSUME CacheIInv, CacheIInv', [Next]_vars
               PROVE  [Store!Next]_<<Items, got>>
    OBVIOUS
  <2>1. CASE UNCHANGED vars
    BY <2>1 DEF vars, Items
  <2>2. ASSUME NEW k \in Keys, GetMiss(k) \/ GetHit(k) PROVE Store!Next
    BY <2>2, GetMissIsGet, GetHitIsGet DEF Store!Next
  <2>3. ASSUME NEW k \in Keys, NEW v \in Values, SetHit(k, v) \/ SetMiss(k, v) PROVE Store!Next
    BY <2>3, SetHitIsSet, SetMissIsSet DEF Store!Next
  <2> QED
    BY <2>1, <2>2, <2>3 DEF Next
<1>3. CacheIInv /\ CacheIInv' /\ [Next]_vars =>
        [Store!Next]_<<[i \in DOMAIN cacheList |-> node[cacheList[i]]], got>>
  BY <1>2 DEF Items
<1> QED
  BY <1>1, <1>3, InitCache, NextKeepsCache, PTL DEF Spec, ImplementsStore, Store!Spec
=============================================================================
