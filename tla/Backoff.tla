------------------------------ MODULE Backoff ------------------------------
(***************************************************************************)
(* The retry delay: the Fibonacci curve, its clamps and saturation, and    *)
(* the proportional jitter.  A duration is a natural number of ticks.      *)
(*                                                                         *)
(* The f64 arithmetic of the jitter is modelled by exact fractions: the    *)
(* configured fraction and the unit sample are given in Grain-ths, and the *)
(* product is truncated to whole ticks as `nanos as u64` does.  The sample *)
(* is a hash of the job's id and the attempt; here it is any number below  *)
(* Grain.                                                                  *)
(***************************************************************************)
EXTENDS Naturals

CONSTANTS
  MinBase,  \* the floor of a base delay (1 ms in the code)
  MaxU64,   \* largest u64
  MaxU128,  \* largest u128
  Grain,    \* denominator of the jitter fraction and the unit sample
  Far       \* what is left until DateTime::MAX_UTC

ASSUME BackoffAssumption ==
  /\ MinBase \in Nat \ {0}
  /\ MaxU64 \in Nat \ {0}
  /\ MaxU128 \in Nat /\ MaxU128 >= MaxU64
  /\ Grain \in Nat \ {0}
  /\ Far \in Nat

AtMost(n, bound)  == IF n <= bound THEN n ELSE bound
AtLeast(n, bound) == IF n >= bound THEN n ELSE bound

(* jitter_unit, in Grain-ths: a hash of the job's id and the attempt *)
JitterUnits == 0..(Grain - 1)

FaultyNewBackoff(base, cap) == [base |-> base, cap |-> cap]

(* Backoff::new *)
NewBackoff(base, cap) ==
  [base |-> AtLeast(base, MinBase),
   cap  |-> AtLeast(cap, AtLeast(base, MinBase))]

(* The value of curr after the loop has run up to n, with saturating_add. *)
Curve[n \in Nat] ==
  IF n <= 2 THEN 1 ELSE AtMost(Curve[n - 2] + Curve[n - 1], MaxU64)

FaultyFibMinusOne(n) == IF n < 2 THEN 0 ELSE Curve[n + 1] - 1

FibMinusOne(n) == IF n <= 2 THEN 0 ELSE Curve[n] - 1

(* base.saturating_mul(multiplier).min(cap), narrowed to u64 *)
Scaled(b, multiplier) ==
  AtMost(AtMost(AtMost(b.base * multiplier, MaxU128), b.cap), MaxU64)

BaseDelay(b, attempt) == Scaled(b, FibMinusOne(attempt))

FaultyJittered(delay, fraction, unit) ==
  (delay * (Grain * Grain + fraction * (Grain - unit))) \div (Grain * Grain)

(* delay * (1 - fraction * (1 - unit)), for a unit in [0, 1) *)
Jittered(delay, fraction, unit) ==
  (delay * (Grain * Grain - AtMost(fraction, Grain) * (Grain - unit)))
    \div (Grain * Grain)

RetryDelay(b, fraction, attempt, unit) ==
  Jittered(BaseDelay(b, attempt), fraction, unit)

FaultyAddDuration(delta) == IF delta > Far THEN 0 ELSE delta

(* add_duration, relative to now: an instant beyond the calendar saturates *)
(* to the far future.                                                      *)
AddDuration(delta) == AtMost(delta, Far)
=============================================================================
