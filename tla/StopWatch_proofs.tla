-------------------------- MODULE StopWatch_proofs --------------------------
(***************************************************************************)
(* The stop watch is right for TimeVals of every width, although it and the *)
(* clock wrap around at different moments.                                  *)
(***************************************************************************)
EXTENDS StopWatch, TLAPS

\* What \div and % are to each other.
LEMMA DivMod ==
  ASSUME NEW w \in Nat \ {0}, NEW x \in Int
  PROVE  x = w * (x \div w) + (x % w) /\ x % w \in 0 .. w - 1 /\ x \div w \in Int
OBVIOUS

\* A positive multiple is no smaller.
LEMMA AtLeast ==
  ASSUME NEW w \in Nat \ {0}, NEW k \in Int, k >= 1
  PROVE  w * k >= w
OBVIOUS

\* The remainder is determined by being one.
LEMMA ModUnique ==
  ASSUME NEW w \in Nat \ {0}, NEW x \in Int, NEW q \in Int, NEW r \in 0 .. w - 1, x = w * q + r
  PROVE  x % w = r
<1> DEFINE d == x \div w
           s == x % w
<1>1. x = w * d + s /\ s \in 0 .. w - 1 /\ d \in Int
  BY DivMod
<1> HIDE DEF d, s
<1>2. w * (q - d) = s - r /\ w * (d - q) = r - s
  BY <1>1
<1>3. ~(q - d >= 1)
  BY <1>1, <1>2, AtLeast
<1>4. ~(d - q >= 1)
  BY <1>1, <1>2, AtLeast
<1>5. q = d
  BY <1>1, <1>3, <1>4
<1> QED
  BY <1>1, <1>5 DEF s

\* Taking the remainder of an operand of a sum first changes nothing.
LEMMA ModSum ==
  ASSUME NEW w \in Nat \ {0}, NEW m \in Int, NEW n \in Int
  PROVE  ((m % w) + n) % w = (m + n) % w
<1> DEFINE d == m \div w
           s == m % w
           e == (s + n) \div w
           t == (s + n) % w
<1>1. m = w * d + s /\ s \in 0 .. w - 1 /\ d \in Int
  BY DivMod
<1>2. s + n = w * e + t /\ t \in 0 .. w - 1 /\ e \in Int
  <2> DEFINE x == s + n
  <2> HIDE DEF s
  <2>1. x \in Int
    BY <1>1
  <2> HIDE DEF x
  <2>2. x = w * (x \div w) + (x % w) /\ x % w \in 0 .. w - 1 /\ x \div w \in Int
    BY <2>1, DivMod
  <2> QED
    BY <2>2 DEF x
<1> HIDE DEF d, s, e, t
<1>3. m + n = w * (d + e) + t
  BY <1>1, <1>2
<1>4. (m + n) % w = t
  <2>1. m + n \in Int /\ d + e \in Int
    BY <1>1, <1>2
  <2> QED
    BY <1>2, <1>3, <2>1, ModUnique
<1> QED
  BY <1>4 DEF t, s

\* The same of Wrap, and what is wrapped fits the width.
LEMMA WrapFacts ==
  /\ \A n \in Nat : Wrap(n) \in 0 .. 2 ^ Width - 1
  /\ \A m \in Nat, n \in Nat : Wrap(m + Wrap(n)) = Wrap(m + n) /\ Wrap(Wrap(m) + n) = Wrap(m + n)
<1> DEFINE w == 2 ^ Width
<1>1. w \in Nat \ {0}
  BY WidthAssumption
<1> HIDE DEF w
<1>2. \A n \in Nat : n % w \in 0 .. w - 1
  BY <1>1
<1>3. ASSUME NEW m \in Nat, NEW n \in Nat
      PROVE  (m + (n % w)) % w = (m + n) % w /\ ((m % w) + n) % w = (m + n) % w
  <2>0. m \in Int /\ n \in Int
    OBVIOUS
  <2>1. ((n % w) + m) % w = (n + m) % w /\ ((m % w) + n) % w = (m + n) % w
    BY <1>1, <2>0, ModSum, Zenon
  <2>2. n % w \in Nat
    BY <1>1
  <2>3. (n % w) + m = m + (n % w) /\ n + m = m + n
    BY <2>2
  <2> QED
    BY <2>1, <2>3
<1> QED
  BY <1>2, <1>3 DEF Wrap, w

\* Every delay is a whole number of microseconds.
LEMMA DelaysAreWhole ==
  ASSUME NEW type \in DOMAIN Bounds, NEW t \in Delays(type)
  PROVE  t.us \in 0 .. 2 ^ Width - 1 /\ t.ns = 0
<1>1. /\ AsBound(Bounds[type].lower) \in Nat
      /\ AsBound(Bounds[type].upper) \in Nat
  <2>1. type \in {"tcp", "memory", "ipc", "IPoIB"}
    BY DEF Bounds
  <2> QED
    BY <2>1 DEF Bounds, AsBound, TimeOf
<1>2. PICK n \in AsBound(Bounds[type].lower) .. AsBound(Bounds[type].upper) : t = TimeOf(Wrap(n), 0)
  BY DEF Delays
<1>3. n \in Nat
  BY <1>1, <1>2
<1> QED
  BY <1>2, <1>3, WrapFacts DEF TimeOf

\* The inductive invariant: without the nanoseconds being zero, a reset
\* would leave some behind.
NoNanoseconds == gsw.ns = 0 /\ get.ns = 0 /\ start.ns = 0

IInv == TypeOK /\ NoNanoseconds /\ MeasuresSinceReset

\* Adding Times without nanoseconds is adding their microseconds.
LEMMA PlusWhole ==
  ASSUME NEW l, NEW r, l.us \in Nat, r.us \in Nat, l.ns = 0, r.ns = 0
  PROVE  Plus(l, r) = TimeOf(Wrap(l.us + r.us), 0)
<1>1. (0 + 0) \div 1000 = 0 /\ (0 + 0) % 1000 = 0
  OBVIOUS
<1>2. l.us + r.us + 0 = l.us + r.us
  OBVIOUS
<1> QED
  BY <1>1, <1>2 DEF Plus

\* A delay keeps the invariant: both watches advance by the same Time, which
\* has no nanoseconds.
LEMMA TickKeepsIInv ==
  ASSUME IInv, NEW type \in DOMAIN Bounds, Tick(type)
  PROVE  IInv'
<1> DEFINE top == 2 ^ Width - 1
<1>1. top \in Nat
  BY WidthAssumption
<1>2. PICK t \in Delays(type) : gsw' = Plus(gsw, t) /\ get' = Plus(get, t) /\ start' = start
  BY DEF Tick
<1>3. t.us \in 0 .. top /\ t.ns = 0
  BY DelaysAreWhole
<1>4. /\ gsw.us \in 0 .. top /\ get.us \in 0 .. top /\ start.us \in 0 .. top
      /\ gsw.ns = 0 /\ get.ns = 0 /\ start.ns = 0
  BY DEF IInv, TypeOK, TimeType, NoNanoseconds
<1> HIDE DEF top
<1>5. gsw.us \in Nat /\ get.us \in Nat /\ start.us \in Nat /\ t.us \in Nat
  BY <1>1, <1>3, <1>4
<1>6. gsw' = TimeOf(Wrap(gsw.us + t.us), 0) /\ get' = TimeOf(Wrap(get.us + t.us), 0)
  BY <1>2, <1>3, <1>4, <1>5, PlusWhole
<1>7. gsw'.us = Wrap(gsw.us + t.us) /\ gsw'.ns = 0 /\ get'.us = Wrap(get.us + t.us) /\ get'.ns = 0
  BY <1>6 DEF TimeOf
<1>8. gsw.us + t.us \in Nat /\ get.us + t.us \in Nat /\ start.us + gsw.us \in Nat
  BY <1>5
<1>9. Wrap(gsw.us + t.us) \in 0 .. top /\ Wrap(get.us + t.us) \in 0 .. top
  BY <1>8, WrapFacts DEF top
<1>10. TypeOK'
  <2>1. gsw' \in TimeType /\ get' \in TimeType
    BY <1>6, <1>9 DEF TimeOf, TimeType, top
  <2> QED
    BY <1>2, <2>1 DEF IInv, TypeOK, TimeType
<1>11. NoNanoseconds'
  BY <1>2, <1>4, <1>7 DEF NoNanoseconds
<1>12. MeasuresSinceReset'
  <2>1. get = TimeOf(Wrap(start.us + gsw.us), 0)
    BY <1>4, <1>5, PlusWhole DEF IInv, MeasuresSinceReset
  <2>2. get.us = Wrap(start.us + gsw.us)
    BY <2>1 DEF TimeOf
  <2>3. Wrap(get.us + t.us) = Wrap((start.us + gsw.us) + t.us)
    <3> DEFINE s == start.us + gsw.us
    <3>1. s \in Nat /\ get.us = Wrap(s)
      BY <1>8, <2>2
    <3> HIDE DEF s
    <3>2. Wrap(Wrap(s) + t.us) = Wrap(s + t.us)
      BY <1>5, <3>1, WrapFacts
    <3> QED
      BY <3>1, <3>2 DEF s
  <2>4. Wrap(start.us + Wrap(gsw.us + t.us)) = Wrap(start.us + (gsw.us + t.us))
    BY <1>5, <1>8, WrapFacts
  <2>5. (start.us + gsw.us) + t.us = start.us + (gsw.us + t.us)
    BY <1>5
  <2>6. Plus(start, gsw') = TimeOf(Wrap(start.us + gsw'.us), 0)
    BY <1>1, <1>4, <1>5, <1>7, <1>9, PlusWhole
  <2>7. Plus(start, gsw') = get'
    BY <1>6, <1>7, <2>3, <2>4, <2>5, <2>6
  <2> QED
    BY <1>2, <2>7 DEF MeasuresSinceReset
<1> QED
  BY <1>10, <1>11, <1>12 DEF IInv

\* A reset keeps it, since there are no nanoseconds for it to leave behind.
LEMMA ResetKeepsIInv ==
  ASSUME IInv, ResetZero
  PROVE  IInv'
<1> DEFINE top == 2 ^ Width - 1
<1>1. top \in Nat
  BY WidthAssumption
<1>2. gsw' = [gsw EXCEPT !.us = 0] /\ start' = get /\ get' = get
  BY DEF ResetZero
<1>3. gsw \in [us : 0 .. top, ns : 0 .. 999] /\ get \in [us : 0 .. top, ns : 0 .. 999] /\ gsw.ns = 0 /\ get.ns = 0
  BY DEF IInv, TypeOK, TimeType, NoNanoseconds
<1> HIDE DEF top
<1>4. gsw' = TimeOf(0, 0)
  BY <1>2, <1>3 DEF TimeOf
<1>5. TypeOK'
  BY <1>1, <1>2, <1>3, <1>4 DEF TypeOK, TimeType, TimeOf, top
<1>6. NoNanoseconds'
  BY <1>2, <1>3, <1>4 DEF NoNanoseconds, TimeOf
<1>7. MeasuresSinceReset'
  <2>1. get.us \in Nat
    BY <1>1, <1>3
  <2>2. Plus(get, TimeOf(0, 0)) = TimeOf(Wrap(get.us + 0), 0)
    BY <1>3, <2>1, PlusWhole DEF TimeOf
  <2>3. Wrap(get.us + 0) = get.us
    <3> DEFINE w == 2 ^ Width
    <3>1. w \in Nat \ {0} /\ get.us \in 0 .. w - 1
      BY <1>3, WidthAssumption DEF top
    <3> HIDE DEF w
    <3>2. get.us = w * 0 + get.us /\ get.us \in Int
      BY <3>1
    <3>3. get.us % w = get.us
      BY <3>1, <3>2, ModUnique
    <3> QED
      BY <2>1, <3>3 DEF Wrap, w
  <2>4. get = TimeOf(get.us, 0)
    BY <1>3 DEF TimeOf
  <2> QED
    BY <1>2, <1>4, <2>2, <2>3, <2>4 DEF MeasuresSinceReset
<1> QED
  BY <1>5, <1>6, <1>7 DEF IInv

\* Every step keeps it.
LEMMA NextKeepsIInv == IInv /\ [Next]_vars => IInv'
<1>1. CASE UNCHANGED vars
  BY <1>1 DEF vars, IInv, TypeOK, NoNanoseconds, MeasuresSinceReset
<1> QED
  BY <1>1, TickKeepsIInv, ResetKeepsIInv DEF Next

\* Both watches start at zero.
LEMMA InitIInv == Init => IInv
<1> SUFFICES ASSUME Init PROVE IInv
  OBVIOUS
<1> DEFINE w == 2 ^ Width
<1>1. w \in Nat \ {0}
  BY WidthAssumption
<1> HIDE DEF w
<1>2. gsw = TimeOf(0, 0) /\ get = TimeOf(0, 0) /\ start = TimeOf(0, 0)
  BY DEF Init
<1>3. TypeOK
  BY <1>1, <1>2 DEF TypeOK, TimeType, TimeOf, w
<1>4. NoNanoseconds
  BY <1>2 DEF NoNanoseconds, TimeOf
<1>5. MeasuresSinceReset
  <2>1. Plus(TimeOf(0, 0), TimeOf(0, 0)) = TimeOf(Wrap(0 + 0), 0)
    BY PlusWhole DEF TimeOf
  <2>2. (0 + 0) % w = 0
    BY <1>1
  <2> QED
    BY <1>2, <2>1, <2>2 DEF MeasuresSinceReset, Wrap, w
<1> QED
  BY <1>3, <1>4, <1>5 DEF IInv

\* Both clocks are Times whose microseconds fit the width.
THEOREM TypeCorrect == Spec => []TypeOK
<1>1. IInv => TypeOK
  BY DEF IInv
<1> QED
  BY <1>1, InitIInv, NextKeepsIInv, PTL DEF Spec

\* The stop watch shows the time since it was reset, up to the width.
THEOREM WatchIsRight == Spec => []MeasuresSinceReset
<1>1. IInv => MeasuresSinceReset
  BY DEF IInv
<1> QED
  BY <1>1, InitIInv, NextKeepsIInv, PTL DEF Spec
=============================================================================
