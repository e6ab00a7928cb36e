----------------------------- MODULE StopWatch -----------------------------
(***************************************************************************)
(* Simulated time (time/Time.h, time/Time.cc).  Every send and every        *)
(* directory entry that is charged advances the stop watch gsw, which the   *)
(* workload resets and reads, and with it the clock get, which nobody       *)
(* resets.  A Time is a number of microseconds that wraps around at the     *)
(* width of TimeVal, and of nanoseconds below a thousand.                   *)
(***************************************************************************)
EXTENDS Integers

CONSTANT Width   \* the width of TimeVal: 32 bits

\* (The second half is arithmetic; it spares the proofs a theory of powers.)
ASSUME WidthAssumption == Width \in Nat \ {0} /\ 2 ^ Width \in Nat \ {0}

Wrap(n) == n % 2 ^ Width

TimeOf(us, ns) == [us |-> us, ns |-> ns]

\* Slip: the sum is as wide as it gets.
PlusUnwrapped(l, r) == TimeOf(l.us + r.us + (l.ns + r.ns) \div 1000, (l.ns + r.ns) % 1000)

\* operator+=, and operator+: the nanoseconds carry.
Plus(l, r) ==
  TimeOf(Wrap(l.us + r.us + (l.ns + r.ns) \div 1000), (l.ns + r.ns) % 1000)

\* What a Time is as a bound of a RandomRange: a double, cut to a size_t.
AsBound(t) == t.us + t.ns \div 1000

\* The bounds tick_random has for a kind of delay.
Bounds ==
  [tcp    |-> [lower |-> TimeOf(30, 0), upper |-> TimeOf(40, 0)],
   memory |-> [lower |-> TimeOf(0, 50), upper |-> TimeOf(0, 150)],
   ipc    |-> [lower |-> TimeOf(6, 0), upper |-> TimeOf(8, 0)],
   IPoIB  |-> [lower |-> TimeOf(20, 0), upper |-> TimeOf(25, 0)]]

\* Slip: the number is drawn between the bounds, not between what they are cut to.
DelaysUncut(type) ==
  {TimeOf(n \div 1000, n % 1000) :
     n \in (1000 * Bounds[type].lower.us + Bounds[type].lower.ns) ..
           (1000 * Bounds[type].upper.us + Bounds[type].upper.ns)}

\* The Times a delay of that kind may take: the number that is drawn is
\* converted to a Time, as microseconds.
Delays(type) ==
  {TimeOf(Wrap(n), 0) : n \in AsBound(Bounds[type].lower) .. AsBound(Bounds[type].upper)}

VARIABLES
  gsw,     \* the stop watch
  get,     \* the clock
  start    \* history: the clock when the stop watch was last reset

vars == <<gsw, get, start>>

Init ==
  /\ gsw = TimeOf(0, 0)
  /\ get = TimeOf(0, 0)
  /\ start = TimeOf(0, 0)

\* gsw.tick_random(type).
Tick(type) ==
  \E t \in Delays(type) :
    /\ gsw' = Plus(gsw, t)
    /\ get' = Plus(get, t)
    /\ UNCHANGED start

\* reset_zero calls set(TimeVal), which leaves the nanoseconds as they are.
ResetZero ==
  /\ gsw' = [gsw EXCEPT !.us = 0]
  /\ start' = get
  /\ UNCHANGED get

Next == (\E type \in DOMAIN Bounds : Tick(type)) \/ ResetZero

Spec == Init /\ [][Next]_vars
-----------------------------------------------------------------------------
TimeType == [us : 0 .. 2 ^ Width - 1, ns : 0 .. 999]

\* Both are Times with carried nanoseconds.
TypeOK == gsw \in TimeType /\ get \in TimeType /\ start \in TimeType

\* The stop watch shows what has passed since it was last reset, up to the
\* width of its microseconds, also when one of the two has wrapped around.
\* reset_zero is right only because no delay has nanoseconds: the bounds of
\* the "memory" delay are cut to zero before a number is drawn between them.
MeasuresSinceReset == get = Plus(start, gsw)
=============================================================================
