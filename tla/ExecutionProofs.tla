-------------------------- MODULE ExecutionProofs --------------------------
(***************************************************************************)
(* Proofs, for every schedule, bound and limit, of what happens to one job *)
(* through all its runs.                                                   *)
(*                                                                         *)
(* The retry curve is a recursive function.  That it is one, and how it    *)
(* relates to the Fibonacci numbers of the documentation, is shown from    *)
(* the fact that a set of natural numbers has a least element.             *)
(*                                                                         *)
(* The argument.  Each run that ends has one entry in the journal, so what *)
(* a task counts there is failure_count, except in a run that was not      *)
(* given the journal or could not answer; each of those is an unruly event *)
(* (LimitInv).  Each settlement is one of five kinds of row and entry, and *)
(* ConcludeInv says what of them keeps Inv.  A delay that a settlement     *)
(* writes lies within the bounds of its schedule, and a tick takes from    *)
(* what is left of it as much as it adds to what has passed (Due).         *)
(***************************************************************************)
EXTENDS Execution, StoreProofs, FiniteSetTheorems, SequenceTheorems,
        WellFoundedInduction

-----------------------------------------------------------------------------
(* Recursive functions. *)

(* A non-empty set of natural numbers has a least element. *)
LEMMA LeastNatural ==
  ASSUME NEW T \in SUBSET Nat, T # {}
  PROVE  \E x \in T : \A y \in T : x <= y
<1> DEFINE R == OpToRel(<, Nat)
<1>1. IsWellFoundedOn(R, Nat)
  BY NatLessThanWellFounded
<1> HIDE DEF R
<1>2. PICK x \in T : \A y \in T : ~ (<<y, x>> \in R)
  BY <1>1, WFMin
<1>3. \A y \in T : ~ (y < x)
  BY <1>2 DEF R, OpToRel
<1> QED
  BY <1>3

(* A set that has a number whenever it has all the lower ones is Nat. *)
LEMMA StrongInduction ==
  ASSUME NEW T \in SUBSET Nat,
         \A n \in Nat : (\A m \in 0..(n - 1) : m \in T) => n \in T
  PROVE  T = Nat
<1> SUFFICES ASSUME Nat \ T # {} PROVE FALSE
  OBVIOUS
<1>1. Nat \ T \in SUBSET Nat
  OBVIOUS
<1>2. PICK x \in Nat \ T : \A y \in Nat \ T : x <= y
  BY <1>1, LeastNatural
<1>3. \A m \in 0..(x - 1) : m \in T
  BY <1>2
<1> QED
  BY <1>3

(* g is what the recursion f[k] == IF k <= 2 THEN c ELSE                   *)
(* G[k][f[k - 2]][f[k - 1]] gives up to n.                                 *)
Approximates(g, n, S, c, G) ==
  /\ g \in [0..n -> S]
  /\ \A k \in 0..n : g[k] = IF k <= 2 THEN c ELSE G[k][g[k - 2]][g[k - 1]]

(* Two approximations agree where both are defined. *)
LEMMA ApproximationsAgree ==
  \A S, c, G, g, h : \A m, n \in Nat :
    Approximates(g, m, S, c, G) /\ Approximates(h, n, S, c, G)
      => \A k \in 0..m : k <= n => g[k] = h[k]
<1> SUFFICES ASSUME NEW S, NEW c, NEW G, NEW g, NEW h,
                    NEW m \in Nat, NEW n \in Nat,
                    Approximates(g, m, S, c, G), Approximates(h, n, S, c, G)
             PROVE  \A k \in 0..m : k <= n => g[k] = h[k]
  OBVIOUS
<1> DEFINE T == {k \in Nat : k <= m /\ k <= n => g[k] = h[k]}
<1>1. ASSUME NEW k \in Nat, \A i \in 0..(k - 1) : i \in T, k <= m, k <= n
      PROVE  g[k] = h[k]
  <2>1. CASE k <= 2
    BY <1>1, <2>1 DEF Approximates
  <2>2. CASE k > 2
    <3>1. g[k - 2] = h[k - 2] /\ g[k - 1] = h[k - 1]
      BY <1>1, <2>2
    <3>2. /\ g[k] = G[k][g[k - 2]][g[k - 1]]
          /\ h[k] = G[k][h[k - 2]][h[k - 1]]
      BY <1>1, <2>2 DEF Approximates
    <3> QED BY <3>1, <3>2
  <2> QED BY <2>1, <2>2
<1>2. T \in SUBSET Nat
  OBVIOUS
<1>3. \A k \in Nat : (\A i \in 0..(k - 1) : i \in T) => k \in T
  BY <1>1
<1> HIDE DEF T
<1>4. T = Nat
  BY <1>2, <1>3, StrongInduction
<1>5. \A k \in 0..m : k \in T
  BY <1>4
<1> QED BY <1>5 DEF T

(* There is one for every n. *)
LEMMA ApproximationsExist ==
  ASSUME NEW S, NEW c \in S, NEW G \in [Nat -> [S -> [S -> S]]]
  PROVE  \A n \in Nat : \E g : Approximates(g, n, S, c, G)
<1> DEFINE T == {n \in Nat : \E g : Approximates(g, n, S, c, G)}
<1>1. ASSUME NEW n \in Nat, \A i \in 0..(n - 1) : i \in T
      PROVE  \E g : Approximates(g, n, S, c, G)
  <2>1. CASE n <= 2
    <3>1. Approximates([k \in 0..n |-> c], n, S, c, G)
      BY <2>1 DEF Approximates
    <3> QED BY <3>1
  <2>2. CASE n > 2
    <3>1. n - 1 \in T
      BY <1>1, <2>2
    <3>2. PICK g : Approximates(g, n - 1, S, c, G)
      BY <3>1
    <3>3. /\ g \in [0..(n - 1) -> S] /\ g[n - 2] \in S /\ g[n - 1] \in S
          /\ \A k \in 0..(n - 1) :
               g[k] = IF k <= 2 THEN c ELSE G[k][g[k - 2]][g[k - 1]]
      BY <2>2, <3>2 DEF Approximates
    <3>4. PICK last \in S : last = G[n][g[n - 2]][g[n - 1]]
      BY <3>3
    <3> DEFINE h == [k \in 0..n |-> IF k = n THEN last ELSE g[k]]
    <3>5. h \in [0..n -> S]
      BY <3>3
    <3>6. h[n] = last /\ \A k \in 0..(n - 1) : h[k] = g[k]
      OBVIOUS
    <3> HIDE DEF h
    <3>7. ASSUME NEW k \in 0..n
          PROVE  h[k] = IF k <= 2 THEN c ELSE G[k][h[k - 2]][h[k - 1]]
      <4>1. CASE k = n
        <5>1. h[n - 2] = g[n - 2] /\ h[n - 1] = g[n - 1]
          BY <2>2, <3>6
        <5> QED BY <2>2, <3>4, <3>6, <4>1, <5>1
      <4>2. CASE k # n /\ k <= 2
        BY <3>3, <3>6, <4>2
      <4>3. CASE k # n /\ k > 2
        <5>1. /\ h[k] = g[k] /\ h[k - 2] = g[k - 2] /\ h[k - 1] = g[k - 1]
          BY <3>6, <4>3
        <5> QED BY <3>3, <4>3, <5>1
      <4> QED BY <4>1, <4>2, <4>3
    <3> QED BY <3>5, <3>7 DEF Approximates
  <2> QED BY <2>1, <2>2
<1>2. T \in SUBSET Nat
  OBVIOUS
<1>3. \A n \in Nat : (\A i \in 0..(n - 1) : i \in T) => n \in T
  BY <1>1
<1> HIDE DEF T
<1>4. T = Nat
  BY <1>2, <1>3, StrongInduction
<1> QED BY <1>4 DEF T

(* f is what the recursion defines. *)
Recursive(f, S, c, G) ==
  /\ f \in [Nat -> S]
  /\ \A n \in Nat : f[n] = IF n <= 2 THEN c ELSE G[n][f[n - 2]][f[n - 1]]

Step(S, c, G) == c \in S /\ G \in [Nat -> [S -> [S -> S]]]

(* The recursion defines a function. *)
LEMMA Recursion == \A S, c, G : Step(S, c, G) => \E f : Recursive(f, S, c, G)
<1> SUFFICES ASSUME NEW S, NEW c \in S, NEW G \in [Nat -> [S -> [S -> S]]]
             PROVE  \E f : Recursive(f, S, c, G)
  BY DEF Step
<1> DEFINE A(n) == CHOOSE g : Approximates(g, n, S, c, G)
           f == [n \in Nat |-> A(n)[n]]
<1>1. \A n \in Nat : Approximates(A(n), n, S, c, G)
  BY ApproximationsExist
<1> HIDE DEF A
<1>2. f \in [Nat -> S]
  BY <1>1 DEF Approximates
<1>3. ASSUME NEW n \in Nat, NEW k \in 0..n
      PROVE  A(n)[k] = f[k]
  <2>1. k \in Nat /\ Approximates(A(n), n, S, c, G) /\ Approximates(A(k), k, S, c, G)
    BY <1>1
  <2>2. A(n)[k] = A(k)[k]
    BY <2>1, ApproximationsAgree
  <2> QED BY <2>1, <2>2 DEF f
<1> HIDE DEF f
<1>4. ASSUME NEW n \in Nat
      PROVE  f[n] = IF n <= 2 THEN c ELSE G[n][f[n - 2]][f[n - 1]]
  <2>1. A(n)[n] = IF n <= 2 THEN c ELSE G[n][A(n)[n - 2]][A(n)[n - 1]]
    BY <1>1 DEF Approximates
  <2>2. A(n)[n] = f[n]
    BY <1>3
  <2>3. n > 2 => A(n)[n - 2] = f[n - 2] /\ A(n)[n - 1] = f[n - 1]
    BY <1>3
  <2> QED BY <2>1, <2>2, <2>3
<1> QED BY <1>2, <1>4 DEF Recursive

(* The loop of the code computes the saturating curve: the CHOOSE in the  *)
(* definition has something to choose.                                     *)
LEMMA CurveRecursion ==
  /\ Curve \in [Nat -> Nat]
  /\ \A n \in Nat : Curve[n] = IF n <= 2 THEN 1 ELSE AtMost(Curve[n - 2] + Curve[n - 1], MaxU64)
<1> DEFINE G == [n \in Nat |-> [a \in Nat |-> [b \in Nat |-> AtMost(a + b, MaxU64)]]]
           P(g) == g = [n \in Nat |-> IF n <= 2 THEN 1 ELSE AtMost(g[n - 2] + g[n - 1], MaxU64)]
<1>1. PICK f : Recursive(f, Nat, 1, G)
  <2>1. Step(Nat, 1, G)
    BY BackoffAssumption DEF Step, AtMost
  <2> HIDE DEF G
  <2> QED BY <2>1, Recursion
<1>2. P(f)
  <2>1. ASSUME NEW n \in Nat
        PROVE  f[n] = IF n <= 2 THEN 1 ELSE AtMost(f[n - 2] + f[n - 1], MaxU64)
    <3>1. f[n] = IF n <= 2 THEN 1 ELSE G[n][f[n - 2]][f[n - 1]]
      BY <1>1 DEF Recursive
    <3>2. n > 2 => f[n - 2] \in Nat /\ f[n - 1] \in Nat
      BY <1>1 DEF Recursive
    <3>3. \A a, b \in Nat : G[n][a][b] = AtMost(a + b, MaxU64)
      OBVIOUS
    <3> HIDE DEF G
    <3>4. CASE n <= 2
      BY <3>1, <3>4
    <3>5. CASE n > 2
      <4>1. G[n][f[n - 2]][f[n - 1]] = AtMost(f[n - 2] + f[n - 1], MaxU64)
        BY <3>2, <3>3, <3>5
      <4> QED BY <3>1, <3>5, <4>1
    <3> QED BY <3>4, <3>5
  <2>2. f \in [Nat -> Nat]
    BY <1>1 DEF Recursive
  <2> QED BY <2>1, <2>2
<1>3. Curve = CHOOSE g : P(g)
  BY DEF Curve
<1>4. P(Curve)
  <2> HIDE DEF P
  <2> QED BY <1>2, <1>3
<1>5. \A n \in Nat : Curve[n] = IF n <= 2 THEN 1 ELSE AtMost(Curve[n - 2] + Curve[n - 1], MaxU64)
  BY <1>4
<1> DEFINE T == {n \in Nat : Curve[n] \in Nat}
<1>6. ASSUME NEW n \in Nat, \A i \in 0..(n - 1) : i \in T
      PROVE  n \in T
  <2>1. n > 2 => Curve[n - 2] \in Nat /\ Curve[n - 1] \in Nat
    BY <1>6
  <2>2. Curve[n] \in Nat
    BY <1>5, <2>1, BackoffAssumption DEF AtMost
  <2> QED BY <2>2
<1>7. T \in SUBSET Nat
  OBVIOUS
<1> HIDE DEF T
<1>8. T = Nat
  BY <1>6, <1>7, StrongInduction
<1>9. \A n \in Nat : Curve[n] \in Nat
  BY <1>8 DEF T
<1> QED BY <1>4, <1>5, <1>9

(* So are the Fibonacci numbers a function on Nat, *)
LEMMA FibonacciRecursion ==
  /\ Fibonacci \in [Nat -> Nat]
  /\ \A n \in Nat : Fibonacci[n] = IF n <= 2 THEN 1 ELSE Fibonacci[n - 1] + Fibonacci[n - 2]
<1> DEFINE G == [n \in Nat |-> [a \in Nat |-> [b \in Nat |-> b + a]]]
           P(g) == g = [n \in Nat |-> IF n <= 2 THEN 1 ELSE g[n - 1] + g[n - 2]]
<1>1. PICK f : Recursive(f, Nat, 1, G)
  <2>1. Step(Nat, 1, G)
    BY BackoffAssumption DEF Step, AtMost
  <2> HIDE DEF G
  <2> QED BY <2>1, Recursion
<1>2. P(f)
  <2>1. ASSUME NEW n \in Nat
        PROVE  f[n] = IF n <= 2 THEN 1 ELSE f[n - 1] + f[n - 2]
    <3>1. f[n] = IF n <= 2 THEN 1 ELSE G[n][f[n - 2]][f[n - 1]]
      BY <1>1 DEF Recursive
    <3>2. n > 2 => f[n - 2] \in Nat /\ f[n - 1] \in Nat
      BY <1>1 DEF Recursive
    <3>3. \A a, b \in Nat : G[n][a][b] = b + a
      OBVIOUS
    <3> HIDE DEF G
    <3>4. CASE n <= 2
      BY <3>1, <3>4
    <3>5. CASE n > 2
      <4>1. G[n][f[n - 2]][f[n - 1]] = f[n - 1] + f[n - 2]
        BY <3>2, <3>3, <3>5
      <4> QED BY <3>1, <3>5, <4>1
    <3> QED BY <3>4, <3>5
  <2>2. f \in [Nat -> Nat]
    BY <1>1 DEF Recursive
  <2> QED BY <2>1, <2>2
<1>3. Fibonacci = CHOOSE g : P(g)
  BY DEF Fibonacci
<1>4. P(Fibonacci)
  <2> HIDE DEF P
  <2> QED BY <1>2, <1>3
<1>5. \A n \in Nat : Fibonacci[n] = IF n <= 2 THEN 1 ELSE Fibonacci[n - 1] + Fibonacci[n - 2]
  BY <1>4
<1> DEFINE T == {n \in Nat : Fibonacci[n] \in Nat}
<1>6. ASSUME NEW n \in Nat, \A i \in 0..(n - 1) : i \in T
      PROVE  n \in T
  <2>1. n > 2 => Fibonacci[n - 2] \in Nat /\ Fibonacci[n - 1] \in Nat
    BY <1>6
  <2>2. Fibonacci[n] \in Nat
    BY <1>5, <2>1, BackoffAssumption DEF AtMost
  <2> QED BY <2>2
<1>7. T \in SUBSET Nat
  OBVIOUS
<1> HIDE DEF T
<1>8. T = Nat
  BY <1>6, <1>7, StrongInduction
<1>9. \A n \in Nat : Fibonacci[n] \in Nat
  BY <1>8 DEF T
<1> QED BY <1>4, <1>5, <1>9

(* and the sums of the first of them. *)
LEMMA MultiplierRecursion ==
  /\ Multiplier \in [Nat -> Nat]
  /\ \A n \in Nat : Multiplier[n] = IF n <= 2 THEN 0 ELSE Multiplier[n - 1] + Fibonacci[n - 2]
<1> DEFINE G == [n \in Nat |-> [a \in Nat |-> [b \in Nat |-> IF n <= 2 THEN 0 ELSE b + Fibonacci[n - 2]]]]
           P(g) == g = [n \in Nat |-> IF n <= 2 THEN 0 ELSE g[n - 1] + Fibonacci[n - 2]]
<1>1. PICK f : Recursive(f, Nat, 0, G)
  <2>1. Step(Nat, 0, G)
    BY FibonacciRecursion DEF Step, AtMost
  <2> HIDE DEF G
  <2> QED BY <2>1, Recursion
<1>2. P(f)
  <2>1. ASSUME NEW n \in Nat
        PROVE  f[n] = IF n <= 2 THEN 0 ELSE f[n - 1] + Fibonacci[n - 2]
    <3>1. f[n] = IF n <= 2 THEN 0 ELSE G[n][f[n - 2]][f[n - 1]]
      BY <1>1 DEF Recursive
    <3>2. n > 2 => f[n - 2] \in Nat /\ f[n - 1] \in Nat
      BY <1>1 DEF Recursive
    <3>3. \A a, b \in Nat : G[n][a][b] = IF n <= 2 THEN 0 ELSE b + Fibonacci[n - 2]
      OBVIOUS
    <3> HIDE DEF G
    <3>4. CASE n <= 2
      BY <3>1, <3>4
    <3>5. CASE n > 2
      <4>1. G[n][f[n - 2]][f[n - 1]] = f[n - 1] + Fibonacci[n - 2]
        BY <3>2, <3>3, <3>5
      <4> QED BY <3>1, <3>5, <4>1
    <3> QED BY <3>4, <3>5
  <2>2. f \in [Nat -> Nat]
    BY <1>1 DEF Recursive
  <2> QED BY <2>1, <2>2
<1>3. Multiplier = CHOOSE g : P(g)
  BY DEF Multiplier
<1>4. P(Multiplier)
  <2> HIDE DEF P
  <2> QED BY <1>2, <1>3
<1>5. \A n \in Nat : Multiplier[n] = IF n <= 2 THEN 0 ELSE Multiplier[n - 1] + Fibonacci[n - 2]
  BY <1>4
<1> DEFINE T == {n \in Nat : Multiplier[n] \in Nat}
<1>6. ASSUME NEW n \in Nat, \A i \in 0..(n - 1) : i \in T
      PROVE  n \in T
  <2>1. n > 2 => Multiplier[n - 2] \in Nat /\ Multiplier[n - 1] \in Nat
    BY <1>6
  <2>2. Multiplier[n] \in Nat
    BY <1>5, <2>1, FibonacciRecursion DEF AtMost
  <2> QED BY <2>2
<1>7. T \in SUBSET Nat
  OBVIOUS
<1> HIDE DEF T
<1>8. T = Nat
  BY <1>6, <1>7, StrongInduction
<1>9. \A n \in Nat : Multiplier[n] \in Nat
  BY <1>8 DEF T
<1> QED BY <1>4, <1>5, <1>9

(* fib(n) - 1 is the sum of the first n - 2 Fibonacci numbers. *)
LEMMA FibonacciSum == \A n \in Nat : Fibonacci[n] = Multiplier[n] + 1
<1> DEFINE T == {n \in Nat : Fibonacci[n] = Multiplier[n] + 1}
<1>1. ASSUME NEW n \in Nat, \A i \in 0..(n - 1) : i \in T
      PROVE  n \in T
  <2>1. CASE n <= 2
    BY <2>1, FibonacciRecursion, MultiplierRecursion
  <2>2. CASE n > 2
    <3>1. /\ Fibonacci[n] = Fibonacci[n - 1] + Fibonacci[n - 2]
          /\ Multiplier[n] = Multiplier[n - 1] + Fibonacci[n - 2]
      BY <2>2, FibonacciRecursion, MultiplierRecursion
    <3>2. /\ Fibonacci[n - 1] \in Nat /\ Fibonacci[n - 2] \in Nat
          /\ Multiplier[n - 1] \in Nat
      BY <2>2, FibonacciRecursion, MultiplierRecursion
    <3>3. Fibonacci[n - 1] = Multiplier[n - 1] + 1
      BY <1>1, <2>2
    <3> QED BY <3>1, <3>2, <3>3
  <2> QED BY <2>1, <2>2
<1>2. T \in SUBSET Nat
  OBVIOUS
<1> HIDE DEF T
<1>3. T = Nat
  BY <1>1, <1>2, StrongInduction
<1> QED BY <1>3 DEF T

(* The curve is the Fibonacci numbers, up to where it saturates. *)
LEMMA CurveSaturates == \A n \in Nat : Curve[n] = AtMost(Fibonacci[n], MaxU64)
<1> DEFINE T == {n \in Nat : Curve[n] = AtMost(Fibonacci[n], MaxU64)}
<1>0. MaxU64 \in Nat \ {0}
  BY BackoffAssumption
<1>1. ASSUME NEW n \in Nat, \A i \in 0..(n - 1) : i \in T
      PROVE  n \in T
  <2>1. CASE n <= 2
    BY <1>0, <2>1, FibonacciRecursion, CurveRecursion DEF AtMost
  <2>2. CASE n > 2
    <3>1. /\ Fibonacci[n] = Fibonacci[n - 1] + Fibonacci[n - 2]
          /\ Curve[n] = AtMost(Curve[n - 2] + Curve[n - 1], MaxU64)
      BY <2>2, FibonacciRecursion, CurveRecursion
    <3>2. Fibonacci[n - 1] \in Nat /\ Fibonacci[n - 2] \in Nat
      BY <2>2, FibonacciRecursion
    <3>3. /\ Curve[n - 1] = AtMost(Fibonacci[n - 1], MaxU64)
          /\ Curve[n - 2] = AtMost(Fibonacci[n - 2], MaxU64)
      BY <1>1, <2>2
    <3> QED BY <1>0, <3>1, <3>2, <3>3 DEF AtMost
  <2> QED BY <2>1, <2>2
<1>2. T \in SUBSET Nat
  OBVIOUS
<1> HIDE DEF T
<1>3. T = Nat
  BY <1>1, <1>2, StrongInduction
<1> QED BY <1>3 DEF T

(* So the multiplier of the code is the one of the documentation, up to    *)
(* the largest u64 less one.                                               *)
LEMMA MultiplierSaturates ==
  \A n \in Nat : /\ Multiplier[n] \in Nat
                 /\ FibMinusOne(n) = AtMost(Multiplier[n], MaxU64 - 1)
<1> SUFFICES ASSUME NEW n \in Nat
             PROVE  /\ Multiplier[n] \in Nat
                    /\ FibMinusOne(n) = AtMost(Multiplier[n], MaxU64 - 1)
  OBVIOUS
<1>1. Multiplier[n] \in Nat /\ MaxU64 \in Nat \ {0}
  BY MultiplierRecursion, BackoffAssumption
<1>2. CASE n <= 2
  BY <1>1, <1>2, MultiplierRecursion DEF FibMinusOne, AtMost
<1>3. CASE n > 2
  BY <1>1, <1>3, CurveSaturates, FibonacciSum DEF FibMinusOne, AtMost
<1> QED BY <1>1, <1>2, <1>3

-----------------------------------------------------------------------------
(* Products and quotients. *)

(* A product of natural numbers is one, and grows with its factors. *)
LEMMA Products ==
  \A x, y, z \in Nat : /\ x * y \in Nat
                       /\ x <= y => x * z <= y * z /\ z * x <= z * y
  OBVIOUS

(* What a quotient of natural numbers is. *)
LEMMA Quotient ==
  \A a \in Nat, d \in Nat \ {0} :
    /\ a \div d \in Nat
    /\ (a \div d) * d <= a
    /\ a < (a \div d) * d + d
  OBVIOUS

(* A quotient is at most a number whose multiple is above the dividend,    *)
(* and at least one whose multiple is not.                                 *)
LEMMA QuotientBounds ==
  \A a, q \in Nat, d \in Nat \ {0} :
    /\ a <= q * d => a \div d <= q
    /\ q * d <= a => q <= a \div d
<1> SUFFICES ASSUME NEW a \in Nat, NEW q \in Nat, NEW d \in Nat \ {0}
             PROVE  /\ a <= q * d => a \div d <= q
                    /\ q * d <= a => q <= a \div d
  OBVIOUS
<1> DEFINE p == a \div d
<1>1. p \in Nat /\ p * d <= a /\ a < p * d + d
  BY Quotient
<1> HIDE DEF p
<1>2. ASSUME q < p PROVE q * d + d <= p * d
  <2>1. (q + 1) * d <= p * d
    BY <1>1, <1>2, Products
  <2>2. (q + 1) * d = q * d + d
    OBVIOUS
  <2> QED BY <2>1, <2>2
<1>3. ASSUME p < q PROVE p * d + d <= q * d
  <2>1. (p + 1) * d <= q * d
    BY <1>1, <1>3, Products
  <2>2. (p + 1) * d = p * d + d
    BY <1>1
  <2> QED BY <2>1, <2>2
<1>4. q * d \in Nat /\ p * d \in Nat
  BY <1>1, Products
<1>5. a <= q * d => p <= q
  BY <1>1, <1>2, <1>4
<1>6. q * d <= a => q <= p
  BY <1>1, <1>3, <1>4
<1> QED BY <1>5, <1>6 DEF p
-----------------------------------------------------------------------------
(* Delays. *)

(* Jitter leaves of a delay at least what the fraction leaves of it, and   *)
(* never adds to it.                                                       *)
LEMMA JitterBounds ==
  ASSUME NEW L \in Nat, NEW f \in Nat, NEW u \in JitterUnits
  PROVE  /\ Jittered(L, f, u) \in Nat
         /\ Jittered(L, f, u) <= L
         /\ (L * (Grain - AtMost(f, Grain))) \div Grain <= Jittered(L, f, u)
<1>1. PICK g \in Nat \ {0} : g = Grain
  BY BackoffAssumption
<1>2. PICK F \in 0..g : F = AtMost(f, Grain)
  BY <1>1 DEF AtMost
<1>3. PICK v \in 0..g : v = Grain - u
  BY <1>1 DEF JitterUnits
<1>4. PICK gg \in Nat \ {0} : gg = g * g
  <2>1. g * g \in Nat /\ 1 * 1 <= g * g
    OBVIOUS
  <2> QED BY <2>1
<1>5. PICK w \in Nat : w = F * v /\ w <= gg /\ w <= F * g
  <2>1. F * v \in Nat /\ F * v <= F * g
    BY Products
  <2>2. F * g <= g * g
    BY Products
  <2> QED BY <1>4, <2>1, <2>2
<1>6. PICK a \in Nat : a = L * (gg - w) /\ a <= L * gg
  <2>1. gg - w \in Nat /\ gg - w <= gg
    BY <1>5
  <2> QED BY <2>1, Products
<1>7. Jittered(L, f, u) = a \div gg
  BY <1>1, <1>2, <1>3, <1>4, <1>5, <1>6 DEF Jittered
<1>8. a \div gg \in Nat /\ a \div gg <= L
  BY <1>6, Quotient, QuotientBounds
<1>9. PICK c \in Nat : c = L * (g - F)
  <2>1. g - F \in Nat
    OBVIOUS
  <2> QED BY <2>1, Products
<1>10. PICK q \in Nat : q = c \div g /\ q * g <= c
  BY Quotient
<1>11. q <= a \div gg
  <2>1. (q * g) * g <= c * g
    <3>1. q * g \in Nat
      BY Products
    <3> QED BY <1>10, <3>1, Products
  <2>2. (q * g) * g = q * gg
    BY <1>4
  <2>3. c * g = L * (gg - F * g)
    BY <1>4, <1>9
  <2>4. L * (gg - F * g) <= L * (gg - w)
    <3>1. F * g \in Nat /\ F * g <= gg
      BY <1>4, Products
    <3>2. gg - F * g \in Nat /\ gg - w \in Nat /\ gg - F * g <= gg - w
      BY <1>5, <3>1
    <3> QED BY <3>2, Products
  <2>5. q * gg <= a
    BY <1>6, <2>1, <2>2, <2>3, <2>4
  <2> QED BY <2>5, QuotientBounds
<1> QED BY <1>1, <1>2, <1>7, <1>8, <1>9, <1>10, <1>11

(* The base delay is a number, and the one of the documentation as long as *)
(* the cap fits in 64 bits.                                                *)
LEMMA BaseDelayFacts ==
  ASSUME NEW b \in Nat \X Nat, NEW n \in Nat
  PROVE  /\ BaseDelay(NewBackoff(b[1], b[2]), n) \in Nat
         /\ BaseDelay(NewBackoff(b[1], b[2]), n) <= MaxU64
         /\ AtLeast(b[2], AtLeast(b[1], MinBase)) < MaxU64 =>
              BaseDelay(NewBackoff(b[1], b[2]), n) = Longest(b, n)
<1>1. PICK x \in Nat \ {0} : x = AtLeast(b[1], MinBase)
  BY BackoffAssumption DEF AtLeast
<1>2. PICK c \in Nat : c = AtLeast(b[2], AtLeast(b[1], MinBase))
  BY <1>1 DEF AtLeast
<1>3. PICK m \in Nat : m = Multiplier[n] /\ FibMinusOne(n) = AtMost(m, MaxU64 - 1)
  BY MultiplierSaturates
<1>4. /\ MaxU64 \in Nat \ {0} /\ MaxU128 \in Nat /\ MaxU64 <= MaxU128
  BY BackoffAssumption
<1>5. PICK k \in Nat : k = FibMinusOne(n) /\ k = AtMost(m, MaxU64 - 1)
  BY <1>3, <1>4 DEF AtMost
<1>6. BaseDelay(NewBackoff(b[1], b[2]), n)
        = AtMost(AtMost(AtMost(x * k, MaxU128), c), MaxU64)
  BY <1>1, <1>2, <1>5 DEF BaseDelay, NewBackoff, Scaled
<1>7. Longest(b, n) = AtMost(x * m, c)
  BY <1>1, <1>2, <1>3 DEF Longest
<1>8. x * k \in Nat /\ x * m \in Nat
  BY Products
<1>9. ASSUME c < MaxU64
      PROVE  AtMost(AtMost(AtMost(x * k, MaxU128), c), MaxU64) = AtMost(x * m, c)
  <2>1. CASE k = m
    BY <1>4, <1>8, <1>9, <2>1 DEF AtMost
  <2>2. CASE k # m
    <3>1. k = MaxU64 - 1 /\ k <= m
      BY <1>4, <1>5, <2>2 DEF AtMost
    <3>2. 1 * k <= x * k /\ 1 * m <= x * m
      BY Products
    <3>3. c <= x * k /\ c <= x * m
      BY <1>4, <1>8, <1>9, <3>1, <3>2
    <3> QED BY <1>4, <1>8, <1>9, <3>3 DEF AtMost
  <2> QED BY <2>1, <2>2
<1>10. /\ AtMost(AtMost(AtMost(x * k, MaxU128), c), MaxU64) \in Nat
       /\ AtMost(AtMost(AtMost(x * k, MaxU128), c), MaxU64) <= MaxU64
  BY <1>4, <1>8 DEF AtMost
<1> QED BY <1>2, <1>6, <1>7, <1>9, <1>10

(* The schedule a retry is taken from. *)
Schedule(override) == IF override = None THEN WorkerBackoff ELSE override

(* Delays fit in the 64 bits the code keeps them in, and the calendar      *)
(* reaches further than the longest one.                                   *)
Fits(b) == AtLeast(b[2], AtLeast(b[1], MinBase)) < MaxU64

DelaysFit ==
  /\ Far >= MaxU64
  /\ Fits(WorkerBackoff)
  /\ TaskBackoff # None => Fits(TaskBackoff)

(* When a failed job becomes visible again. *)
LEMMA RetryDelayFacts ==
  ASSUME NEW override \in {TaskBackoff, None}, NEW n \in Nat, NEW u \in JitterUnits
  PROVE  LET d == AddDuration(RetryDelay(BackoffFor(override), Fraction, n, u))
             b == Schedule(override)
         IN  /\ d \in Nat
             /\ DelaysFit => /\ Shortest(b, n) \in Nat /\ Longest(b, n) \in Nat
                             /\ Shortest(b, n) <= d
                             /\ d <= Longest(b, n)
                             /\ Longest(b, n) <= MaxU64
<1>1. PICK b \in Nat \X Nat : b = Schedule(override)
  BY ExecutionAssumption DEF Schedule
<1>2. PICK L \in Nat : L = BaseDelay(NewBackoff(b[1], b[2]), n)
  BY BaseDelayFacts
<1>3. /\ L <= MaxU64
      /\ Fits(b) => L = Longest(b, n)
  BY <1>2, BaseDelayFacts DEF Fits
<1>4. Fraction \in Nat /\ Far \in Nat /\ MaxU64 \in Nat
  BY ExecutionAssumption, BackoffAssumption
<1>5. PICK j \in Nat : /\ j = Jittered(L, Fraction, u) /\ j <= L
                       /\ (L * (Grain - AtMost(Fraction, Grain))) \div Grain <= j
  BY <1>4, JitterBounds
<1>6. AddDuration(RetryDelay(BackoffFor(override), Fraction, n, u)) = AtMost(j, Far)
  BY <1>1, <1>2, <1>5 DEF AddDuration, RetryDelay, BackoffFor, Schedule
<1>7. AtMost(j, Far) \in Nat
  BY <1>4 DEF AtMost
<1>8. ASSUME DelaysFit
      PROVE  /\ Shortest(b, n) \in Nat /\ Longest(b, n) \in Nat
             /\ Shortest(b, n) <= AtMost(j, Far)
             /\ AtMost(j, Far) <= Longest(b, n)
             /\ Longest(b, n) <= MaxU64
  <2>1. L = Longest(b, n)
    BY <1>1, <1>3, <1>8 DEF DelaysFit, Schedule
  <2>2. AtMost(j, Far) = j
    BY <1>3, <1>4, <1>5, <1>8 DEF DelaysFit, AtMost
  <2>3. Shortest(b, n) = (L * (Grain - AtMost(Fraction, Grain))) \div Grain
    BY <2>1 DEF Shortest
  <2>4. Shortest(b, n) \in Nat
    <3>1. Grain - AtMost(Fraction, Grain) \in Nat /\ Grain \in Nat \ {0}
      BY <1>4, BackoffAssumption DEF AtMost
    <3>2. L * (Grain - AtMost(Fraction, Grain)) \in Nat
      BY <3>1, Products
    <3> QED BY <2>3, <3>1, <3>2, Quotient
  <2> QED BY <1>3, <1>5, <2>1, <2>2, <2>3, <2>4
<1> QED BY <1>1, <1>6, <1>7, <1>8

(* The curve of the documentation: as long as the cap fits in 64 bits,     *)
(* retry_delay, for all its saturating arithmetic, is                      *)
(* min(base * (fib(n) - 1), cap), less at most the fraction that jitter    *)
(* takes of it, for every base, cap, attempt and sample.                   *)
THEOREM DocumentedDelay ==
  \A b \in Nat \X Nat, n \in Nat, u \in JitterUnits :
    Fits(b) =>
      LET full == AtMost(AtLeast(b[1], MinBase) * (Fibonacci[n] - 1),
                         AtLeast(b[2], AtLeast(b[1], MinBase)))
          d    == RetryDelay(NewBackoff(b[1], b[2]), Fraction, n, u)
      IN  /\ d <= full
          /\ d >= (full * (Grain - AtMost(Fraction, Grain))) \div Grain
<1> SUFFICES ASSUME NEW b \in Nat \X Nat, NEW n \in Nat, NEW u \in JitterUnits,
                    Fits(b)
             PROVE  LET full == AtMost(AtLeast(b[1], MinBase) * (Fibonacci[n] - 1),
                                       AtLeast(b[2], AtLeast(b[1], MinBase)))
                        d    == RetryDelay(NewBackoff(b[1], b[2]), Fraction, n, u)
                    IN  /\ d <= full
                        /\ d >= (full * (Grain - AtMost(Fraction, Grain))) \div Grain
  OBVIOUS
<1>1. PICK L \in Nat : L = BaseDelay(NewBackoff(b[1], b[2]), n)
  BY BaseDelayFacts
<1>2. L = Longest(b, n)
  BY <1>1, BaseDelayFacts DEF Fits
<1>3. Fibonacci[n] - 1 = Multiplier[n]
  BY FibonacciSum, MultiplierRecursion
<1>4. L = AtMost(AtLeast(b[1], MinBase) * (Fibonacci[n] - 1),
                 AtLeast(b[2], AtLeast(b[1], MinBase)))
  BY <1>2, <1>3 DEF Longest
<1>5. PICK j : j = Jittered(L, Fraction, u)
  OBVIOUS
<1>6. /\ j \in Nat /\ j <= L
      /\ (L * (Grain - AtMost(Fraction, Grain))) \div Grain <= j
  BY <1>5, JitterBounds, ExecutionAssumption
<1>7. PICK low : low = (L * (Grain - AtMost(Fraction, Grain))) \div Grain
  OBVIOUS
<1>8. low \in Nat
  <2>1. Grain - AtMost(Fraction, Grain) \in Nat /\ Grain \in Nat \ {0}
    BY ExecutionAssumption, BackoffAssumption DEF AtMost
  <2>2. L * (Grain - AtMost(Fraction, Grain)) \in Nat
    BY <2>1, Products
  <2> QED BY <1>7, <2>1, <2>2, Quotient
<1>9. j <= L /\ j >= low
  BY <1>6, <1>7, <1>8
<1>10. RetryDelay(NewBackoff(b[1], b[2]), Fraction, n, u) = j
  BY <1>1, <1>5 DEF RetryDelay
<1> QED BY <1>4, <1>7, <1>9, <1>10
-----------------------------------------------------------------------------
(* The invariant. *)

(* Every run that ended has its entry, in order; torn runs have ended. *)
RunInv ==
  /\ row.run_count = Len(journal) + (IF pc = "idle" THEN 0 ELSE 1)
  /\ \A i \in DOMAIN journal : journal[i].run_no = i
  /\ \A n \in torn : n <= Len(journal)

(* failure_count is what a task can count in the journal. *)
FailureInv == row.failure_count = FailuresIn(journal)

Live == row.status \in {Pending, Claimed}

(* A live job has not failed too often for its limit; while a run could    *)
(* still fail without counting, one unruly event has been spent on it.     *)
LimitInv ==
  Live /\ limit # None =>
    /\ row.failure_count <= limit + unruly
    /\ pc = "running" =>
         history = journal \/ row.failure_count < limit + unruly

(* The last failure of a live job beyond the backstop was an expiry. *)
BackstopInv ==
  Live /\ Backstop # None /\ row.failure_count >= AtLeast(Backstop, 1) =>
    \E i \in DOMAIN journal :
      /\ journal[i].outcome = "stale-recovered"
      /\ FailuresIn(SubSeq(journal, 1, i)) = row.failure_count

Inv == /\ TypeOK /\ RunInv /\ FailureInv
       /\ LimitInv /\ BackstopInv /\ CarryIsLastReturned

USE DEF Pending, Claimed, Completed, Dead
-----------------------------------------------------------------------------
(* The journal. *)

(* What a task counts in a journal grows with its failures. *)
LEMMA Counting ==
  ASSUME NEW js \in Seq(JournalEntry), NEW e \in JournalEntry
  PROVE  /\ FailuresIn(js) \in Nat /\ FailuresIn(js) <= Len(js)
         /\ FailuresIn(Append(js, e)) =
              FailuresIn(js) + (IF IsFailure(e.outcome) THEN 1 ELSE 0)
<1> DEFINE F(s) == {i \in DOMAIN s : IsFailure(s[i].outcome)}
           n == Len(js)
           ks == Append(js, e)
<1>1. /\ n \in Nat /\ DOMAIN js = 1..n /\ DOMAIN ks = 1..(n + 1)
      /\ ks[n + 1] = e /\ \A i \in 1..n : ks[i] = js[i]
  OBVIOUS
<1>2. IsFiniteSet(1..n) /\ Cardinality(1..n) = n
  BY <1>1, FS_Interval, SMTT(30)
<1>3. F(js) \in SUBSET (1..n)
  BY <1>1
<1>4. IsFiniteSet(F(js)) /\ Cardinality(F(js)) \in Nat /\ Cardinality(F(js)) <= n
  BY <1>2, <1>3, FS_Subset, FS_CardinalityType
<1>5. n + 1 \notin F(js)
  BY <1>1
<1> HIDE DEF n, ks
<1>6. CASE IsFailure(e.outcome)
  <2>1. F(ks) = F(js) \cup {n + 1}
    BY <1>1, <1>6
  <2> HIDE DEF F
  <2>2. Cardinality(F(js) \cup {n + 1}) = Cardinality(F(js)) + 1
    BY <1>4, <1>5, FS_AddElement
  <2> QED BY <1>4, <1>6, <2>1, <2>2 DEF FailuresIn, F, n, ks
<1>7. CASE ~ IsFailure(e.outcome)
  <2>1. F(ks) = F(js)
    BY <1>1, <1>7
  <2>2. /\ FailuresIn(js) = Cardinality(F(js))
        /\ FailuresIn(Append(js, e)) = Cardinality(F(ks))
    BY DEF FailuresIn, ks
  <2> HIDE DEF F
  <2>3. Cardinality(F(ks)) = Cardinality(F(js))
    BY <2>1
  <2> QED BY <1>4, <1>7, <2>2, <2>3 DEF n
<1> QED BY <1>6, <1>7

(* The prefixes of a journal stay what they are. *)
LEMMA Prefixes ==
  ASSUME NEW js \in Seq(JournalEntry), NEW e \in JournalEntry
  PROVE  /\ \A i \in 1..Len(js) : SubSeq(Append(js, e), 1, i) = SubSeq(js, 1, i)
         /\ SubSeq(Append(js, e), 1, Len(js) + 1) = Append(js, e)
  OBVIOUS

(* What a row is after the claim on it ended. *)
Ended(new, old, status, visible_at, failure_count, carry) ==
  /\ new \in Row /\ new.status = status
  /\ new.visible_at = visible_at
  /\ new.run_count = old.run_count
  /\ new.failure_count = failure_count
  /\ new.carry = carry

(* Ending a claim clears the claim, and leaves the counters. *)
LEMMA ClearedRow ==
  ASSUME NEW old \in Row
  PROVE  LET new == ClearClaim(old)
         IN  /\ new \in Row /\ new.run_count = old.run_count
             /\ new.visible_at = old.visible_at
             /\ new.failure_count = old.failure_count /\ new.carry = old.carry
BY DEF ClearClaim, Row

(* The rows the settlements make: a job that completes, *)
LEMMA CompletedRow ==
  \A old \in Row, v \in Nat :
    Ended(SettledRow(old, Complete(v)), old, Completed, old.visible_at, old.failure_count, old.carry)
<1> SUFFICES ASSUME NEW old \in Row, NEW v \in Nat
             PROVE  Ended(SettledRow(old, Complete(v)), old, Completed, old.visible_at, old.failure_count, old.carry)
  OBVIOUS
<1>1. PICK cl \in Row : /\ cl = ClearClaim(old) /\ cl.run_count = old.run_count
                        /\ cl.visible_at = old.visible_at
                        /\ cl.failure_count = old.failure_count
                        /\ cl.carry = old.carry
  BY ClearedRow
<1>2. SettledRow(old, Complete(v))
        = [cl EXCEPT !.status = Completed, !.finished_at = v]
  BY <1>1 DEF SettledRow, Complete
<1> QED BY <1>1, <1>2 DEF Ended, Row, Status, Stored

(* one that is given up, *)
LEMMA GivenUpRow ==
  \A old \in Row, v \in Nat, f \in 0..MaxInt :
    Ended(SettledRow(old, GiveUp(v, f)), old, Dead, old.visible_at, f, old.carry)
<1> SUFFICES ASSUME NEW old \in Row, NEW v \in Nat, NEW f \in 0..MaxInt
             PROVE  Ended(SettledRow(old, GiveUp(v, f)), old, Dead, old.visible_at, f, old.carry)
  OBVIOUS
<1>1. PICK cl \in Row : /\ cl = ClearClaim(old) /\ cl.run_count = old.run_count
                        /\ cl.visible_at = old.visible_at
                        /\ cl.failure_count = old.failure_count
                        /\ cl.carry = old.carry
  BY ClearedRow
<1>2. SettledRow(old, GiveUp(v, f))
        = [cl EXCEPT !.status = Dead, !.finished_at = v, !.failure_count = f]
  BY <1>1 DEF SettledRow, GiveUp
<1> QED BY <1>1, <1>2 DEF Ended, Row, Status, Stored

(* one to be retried with the carry of the report, *)
LEMMA RetriedRow ==
  \A old \in Row, v \in Nat, f \in 0..MaxInt, c \in 0..MaxInt :
    Ended(SettledRow(old, Retry(v, f, c)), old, Pending, v, f, c)
<1> SUFFICES ASSUME NEW old \in Row, NEW v \in Nat, NEW f \in 0..MaxInt, NEW c \in 0..MaxInt
             PROVE  Ended(SettledRow(old, Retry(v, f, c)), old, Pending, v, f, c)
  OBVIOUS
<1>1. PICK cl \in Row : /\ cl = ClearClaim(old) /\ cl.run_count = old.run_count
                        /\ cl.visible_at = old.visible_at
                        /\ cl.failure_count = old.failure_count
                        /\ cl.carry = old.carry
  BY ClearedRow
<1>2. SettledRow(old, Retry(v, f, c))
        = [cl EXCEPT !.status = Pending, !.visible_at = v,
                     !.failure_count = f, !.carry = c]
  BY <1>1 DEF SettledRow, Retry
<1>3. PICK new : new = SettledRow(old, Retry(v, f, c))
  OBVIOUS
<1>4. new \in Row
  BY <1>2, <1>3 DEF Row, Status, Stored
<1>5. /\ new.status = Pending /\ new.visible_at = v /\ new.failure_count = f
      /\ new.carry = c /\ new.run_count = cl.run_count
  BY <1>2, <1>3 DEF Row
<1> QED BY <1>1, <1>3, <1>4, <1>5 DEF Ended

(* one that pauses, *)
LEMMA PausedRow ==
  \A old \in Row, v \in Nat, c \in 0..MaxInt :
    Ended(SettledRow(old, Pause(v, c)), old, Pending, v, old.failure_count, c)
<1> SUFFICES ASSUME NEW old \in Row, NEW v \in Nat, NEW c \in 0..MaxInt
             PROVE  Ended(SettledRow(old, Pause(v, c)), old, Pending, v, old.failure_count, c)
  OBVIOUS
<1>1. PICK cl \in Row : /\ cl = ClearClaim(old) /\ cl.run_count = old.run_count
                        /\ cl.visible_at = old.visible_at
                        /\ cl.failure_count = old.failure_count
                        /\ cl.carry = old.carry
  BY ClearedRow
<1>2. SettledRow(old, Pause(v, c))
        = [cl EXCEPT !.status = Pending, !.visible_at = v, !.carry = c]
  BY <1>1 DEF SettledRow, Pause
<1> QED BY <1>1, <1>2 DEF Ended, Row, Status, Stored

(* one that is released, *)
LEMMA ReleasedRow ==
  \A old \in Row, v \in Nat :
    Ended(SettledRow(old, Release(v)), old, Pending, v, old.failure_count, old.carry)
<1> SUFFICES ASSUME NEW old \in Row, NEW v \in Nat
             PROVE  Ended(SettledRow(old, Release(v)), old, Pending, v, old.failure_count, old.carry)
  OBVIOUS
<1>1. PICK cl \in Row : /\ cl = ClearClaim(old) /\ cl.run_count = old.run_count
                        /\ cl.visible_at = old.visible_at
                        /\ cl.failure_count = old.failure_count
                        /\ cl.carry = old.carry
  BY ClearedRow
<1>2. SettledRow(old, Release(v))
        = [cl EXCEPT !.status = Pending, !.visible_at = v]
  BY <1>1 DEF SettledRow, Release
<1> QED BY <1>1, <1>2 DEF Ended, Row, Status, Stored

(* and one whose claim expired. *)
LEMMA ExpiredRow ==
  \A old \in Row, v \in Nat, f \in 0..MaxInt :
    Ended(RecoveredRow(old, v, f), old, Pending, v, f, old.carry)
<1> SUFFICES ASSUME NEW old \in Row, NEW v \in Nat, NEW f \in 0..MaxInt
             PROVE  Ended(RecoveredRow(old, v, f), old, Pending, v, f, old.carry)
  OBVIOUS
<1>1. PICK cl \in Row : /\ cl = ClearClaim(old) /\ cl.run_count = old.run_count
                        /\ cl.visible_at = old.visible_at
                        /\ cl.failure_count = old.failure_count
                        /\ cl.carry = old.carry
  BY ClearedRow
<1>2. RecoveredRow(old, v, f)
        = [cl EXCEPT !.status = Pending, !.visible_at = v,
                     !.failure_count = f]
  BY <1>1 DEF RecoveredRow
<1> QED BY <1>1, <1>2 DEF Ended, Row, Status, Stored

-----------------------------------------------------------------------------
(* The steps. *)

(* The numbers of a state. *)
LEMMA Numbers ==
  ASSUME Inv
  PROVE  /\ row \in Row /\ journal \in Seq(JournalEntry) /\ Len(journal) \in Nat
         /\ row.run_count \in 0..MaxInt /\ row.failure_count \in 0..MaxInt
         /\ row.carry \in 0..MaxInt /\ row.visible_at \in Nat
         /\ row.failure_count <= Len(journal)
         /\ unruly \in Nat /\ yields \in Nat /\ MaxInt \in Nat
         /\ limit # None => limit \in Nat
         /\ Backstop # None => Backstop \in Nat
<1>1. row \in Row /\ journal \in Seq(JournalEntry) /\ Len(journal) \in Nat
  BY DEF Inv, TypeOK
<1>2. /\ row.run_count \in 0..MaxInt /\ row.failure_count \in 0..MaxInt
      /\ row.carry \in 0..MaxInt /\ row.visible_at \in Nat
  BY <1>1 DEF Row
<1>3. row.failure_count <= Len(journal)
  <2>1. 0 \in 0..MaxInt
    BY StoreAssumption
  <2>2. [run_no |-> 0, outcome |-> "completed"] \in JournalEntry
    BY <2>1 DEF JournalEntry, JournalOutcome
  <2>3. FailuresIn(journal) <= Len(journal)
    BY <1>1, <2>2, Counting
  <2> QED BY <2>3 DEF Inv, FailureInv
<1>4. unruly \in Nat /\ yields \in Nat
  BY ExecutionAssumption DEF Inv, TypeOK
<1>5. limit # None => limit \in Nat
  BY ExecutionAssumption DEF Inv, TypeOK
<1> QED BY <1>1, <1>2, <1>3, <1>4, <1>5, StoreAssumption, ExecutionAssumption

(* What must be so of the transaction that ends a claim for the invariant  *)
(* to survive it.                                                          *)
LEMMA ConcludeInv ==
  ASSUME Inv, pc # "idle", NEW new \in Row, NEW outcome \in JournalOutcome,
         Conclude(new, outcome),
         new.status # Claimed,
         new.run_count = row.run_count,
         new.failure_count =
           row.failure_count + (IF IsFailure(outcome) THEN 1 ELSE 0),
         torn' \in {torn, torn \cup {row.run_count}},
         asked' \in Nat, yields' \in 0..MaxYields, unruly' \in 0..MaxUnruly,
         new.status = Pending /\ limit # None =>
           new.failure_count <= limit + unruly',
         new.status = Pending /\ Backstop # None /\ IsFailure(outcome) =>
           outcome = "stale-recovered" \/ new.failure_count < AtLeast(Backstop, 1),
         new.status = Pending =>
           \/ /\ outcome \in {"paused", "retried"} /\ torn' = torn
              /\ new.carry = row.run_count
           \/ /\ outcome \in {"paused", "retried"} => torn' = torn \cup {row.run_count}
              /\ new.carry = row.carry
  PROVE  Inv'
<1> DEFINE n == Len(journal)
           e == Entry(row.run_count, outcome)
<1>1. /\ row' = new /\ journal' = Append(journal, e)
      /\ pc' = "idle" /\ history' = << >> /\ waited' = 0 /\ limit' = limit
  BY DEF Conclude
<1>2. /\ row \in Row /\ row.status = Claimed /\ journal \in Seq(JournalEntry)
      /\ n \in Nat /\ row.run_count = n + 1 /\ row.run_count \in 1..MaxInt
      /\ torn \subseteq 1..n
  BY Numbers DEF Inv, TypeOK, RunInv
<1>3. e \in JournalEntry /\ e.run_no = row.run_count /\ e.outcome = outcome
  BY <1>2 DEF Entry, JournalEntry
<1>4. /\ Len(journal') = n + 1 /\ journal'[n + 1] = e
      /\ DOMAIN journal' = 1..(n + 1) /\ DOMAIN journal = 1..n
      /\ \A i \in 1..n : journal'[i] = journal[i]
      /\ journal' \in Seq(JournalEntry)
  BY <1>1, <1>2, <1>3
<1> HIDE DEF n, e
<1>5. TypeOK'
  <2>1. torn' \subseteq 1..MaxInt
    BY <1>2 DEF Inv, TypeOK
  <2>2. history' \in Seq(JournalEntry)
    BY <1>1
  <2> QED BY <1>1, <1>4, <2>1, <2>2 DEF Inv, TypeOK
<1>6. RunInv'
  BY <1>1, <1>2, <1>3, <1>4 DEF Inv, RunInv, n
<1>7. FailureInv'
  <2>1. FailuresIn(journal') =
          FailuresIn(journal) + (IF IsFailure(outcome) THEN 1 ELSE 0)
    BY <1>1, <1>2, <1>3, Counting
  <2> QED BY <1>1, <2>1 DEF Inv, FailureInv
<1>8. LimitInv'
  BY <1>1 DEF LimitInv, Live
<1>9. BackstopInv'
  <2> SUFFICES ASSUME new.status = Pending, Backstop # None,
                      new.failure_count >= AtLeast(Backstop, 1)
               PROVE  \E i \in DOMAIN journal' :
                        /\ journal'[i].outcome = "stale-recovered"
                        /\ FailuresIn(SubSeq(journal', 1, i)) = new.failure_count
    BY <1>1 DEF BackstopInv, Live
  <2>1. AtLeast(Backstop, 1) \in Nat /\ new.failure_count \in Nat
    BY Numbers DEF AtLeast
  <2>2. CASE outcome = "stale-recovered"
    <3>1. SubSeq(journal', 1, n + 1) = journal'
      BY <1>1, <1>2, <1>3, Prefixes DEF n
    <3>2. FailuresIn(SubSeq(journal', 1, n + 1)) = new.failure_count
      BY <1>1, <1>7, <3>1 DEF FailureInv
    <3> QED BY <1>2, <1>3, <1>4, <2>2, <3>2
  <2>3. CASE outcome # "stale-recovered"
    <3>1. ~ IsFailure(outcome)
      BY <2>1, <2>3
    <3>2. new.failure_count = row.failure_count
      BY <3>1, Numbers
    <3>3. PICK i \in 1..n :
            /\ journal[i].outcome = "stale-recovered"
            /\ FailuresIn(SubSeq(journal, 1, i)) = row.failure_count
      BY <1>2, <1>4, <3>2 DEF Inv, BackstopInv, Live
    <3>4. SubSeq(journal', 1, i) = SubSeq(journal, 1, i)
      BY <1>1, <1>2, <1>3, Prefixes DEF n
    <3>5. i \in 1..(n + 1)
      BY <1>2
    <3> QED BY <1>4, <3>2, <3>3, <3>4, <3>5
  <2> QED BY <2>2, <2>3
<1>10. CarryIsLastReturned'
  <2> SUFFICES ASSUME new.status = Pending
               PROVE  /\ new.carry \in Kept(journal)' \cup {0}
                      /\ \A k \in Kept(journal)' : k <= new.carry
    BY <1>1 DEF CarryIsLastReturned
  <2>1. /\ row.carry \in Kept(journal) \cup {0}
        /\ \A k \in Kept(journal) : k <= row.carry
    BY <1>2 DEF Inv, CarryIsLastReturned
  <2>2. /\ \A i \in 1..n : journal[i].run_no = i
        /\ row.run_count \notin torn
    BY <1>2, <1>4 DEF Inv, RunInv
  <2>3. /\ Kept(journal) \subseteq 1..n
        /\ \A i \in 1..n : i \in Kept(journal) <=>
             journal[i].outcome \in {"paused", "retried"} /\ i \notin torn
    BY <1>4, <2>2 DEF Kept
  <2>4. /\ Kept(journal)' \subseteq 1..(n + 1)
        /\ \A i \in 1..(n + 1) : i \in Kept(journal)' <=>
             journal'[i].outcome \in {"paused", "retried"} /\ i \notin torn'
    <3>1. \A i \in 1..(n + 1) : journal'[i].run_no = i
      BY <1>2, <1>3, <1>4, <2>2
    <3> QED BY <1>4, <3>1 DEF Kept
  <2>5. \A i \in 1..n : i \in Kept(journal)' <=> i \in Kept(journal)
    BY <1>2, <1>4, <2>3, <2>4
  <2>6. CASE /\ outcome \in {"paused", "retried"} /\ torn' = torn
             /\ new.carry = row.run_count
    BY <1>2, <1>3, <1>4, <2>2, <2>4, <2>6
  <2>7. CASE /\ outcome \in {"paused", "retried"} => torn' = torn \cup {row.run_count}
             /\ new.carry = row.carry
    <3>1. n + 1 \notin Kept(journal)'
      BY <1>2, <1>3, <1>4, <2>4, <2>7
    <3>2. \A k \in Kept(journal)' : k \in Kept(journal)
      <4>1. \A k \in Kept(journal)' : k \in 1..n
        BY <1>2, <2>4, <3>1
      <4> QED BY <2>5, <4>1
    <3>3. \A k \in Kept(journal) : k \in Kept(journal)'
      BY <2>3, <2>5
    <3> QED BY <2>1, <2>7, <3>2, <3>3
  <2> QED BY <2>6, <2>7
<1> QED BY <1>5, <1>6, <1>7, <1>8, <1>9, <1>10 DEF Inv
(* A new job has run nothing. *)
LEMMA InitInv == Init => Inv
<1> SUFFICES ASSUME Init PROVE Inv
  OBVIOUS
<1>1. /\ row \in Row /\ row.status = Pending /\ row.run_count = 0
      /\ row.failure_count = 0 /\ row.carry = 0
  <2>1. EnqueuedRow(0).carry = 0
    BY DEF EnqueuedRow, AbsentRow
  <2> QED BY <2>1, EnqueuedRowFacts DEF Init
<1>2. /\ journal = << >> /\ journal \in Seq(JournalEntry) /\ Len(journal) = 0
      /\ DOMAIN journal = {}
  BY DEF Init
<1>3. TypeOK
  BY <1>1, <1>2, ExecutionAssumption DEF Init, TypeOK
<1>4. FailuresIn(journal) = 0
  <2>1. {i \in DOMAIN journal : IsFailure(journal[i].outcome)} = {}
    BY <1>2
  <2> QED BY <2>1, FS_EmptySet DEF FailuresIn
<1>5. RunInv /\ FailureInv
  BY <1>1, <1>2, <1>4 DEF Init, RunInv, FailureInv
<1>6. LimitInv
  BY <1>1, ExecutionAssumption DEF Init, LimitInv
<1>7. BackstopInv
  BY <1>1, ExecutionAssumption DEF BackstopInv, AtLeast
<1>8. CarryIsLastReturned
  BY <1>1, <1>2 DEF CarryIsLastReturned, Kept
<1> QED BY <1>3, <1>5, <1>6, <1>7, <1>8 DEF Inv

(* The passing of time moves nothing but visible_at. *)
LEMMA TickInv ==
  ASSUME Inv, Tick
  PROVE  Inv'
<1>1. PICK v \in Nat : row' = [row EXCEPT !.visible_at = v]
  <2> DEFINE v == IF row.visible_at > 0 THEN row.visible_at - 1 ELSE 0
  <2>1. v \in Nat
    BY Numbers
  <2>2. row' = [row EXCEPT !.visible_at = v]
    BY DEF Tick
  <2> HIDE DEF v
  <2> QED BY <2>1, <2>2
<1>2. /\ row' \in Row /\ row'.status = row.status /\ row'.run_count = row.run_count
      /\ row'.failure_count = row.failure_count /\ row'.carry = row.carry
  BY <1>1, Numbers DEF Row
<1>3. waited' \in Nat
  BY BackoffAssumption DEF Tick, Inv, TypeOK, AtMost, AtLeast, Horizon
<1>4. UNCHANGED <<journal, limit, pc, history, torn, asked, yields, unruly>>
  BY DEF Tick
<1> QED
  BY <1>2, <1>3, <1>4
  DEF Inv, TypeOK, RunInv, FailureInv, LimitInv, BackstopInv,
      CarryIsLastReturned, Kept, Live

(* A claim begins the next run. *)
LEMMA ClaimInv ==
  ASSUME Inv, Claim
  PROVE  Inv'
<1>1. /\ row.status = Pending /\ row.run_count < MaxInt /\ Worker \in Identities
      /\ row' = ClaimedRow(row, Worker, 0) /\ pc' = "claimed" /\ pc = "idle"
      /\ UNCHANGED <<journal, limit, history, torn, waited, asked, yields, unruly>>
  BY ExecutionAssumption DEF Claim, Eligible, Inv, TypeOK
<1>2. /\ row' \in Row /\ row'.status = Claimed
      /\ row'.run_count = row.run_count + 1
      /\ row'.failure_count = row.failure_count /\ row'.carry = row.carry
  BY <1>1, Numbers, ClaimedRowFacts
<1>3. TypeOK' /\ RunInv' /\ FailureInv'
  BY <1>1, <1>2, Numbers DEF Inv, TypeOK, RunInv, FailureInv
<1> QED
  BY <1>1, <1>2, <1>3
  DEF Inv, LimitInv, BackstopInv, CarryIsLastReturned, Kept, Live

(* A handler is given the journal, or nothing at the cost of an unruly     *)
(* event.                                                                  *)
LEMMA LoadHistoryInv ==
  ASSUME Inv, LoadHistory
  PROVE  Inv'
<1>1. /\ pc = "claimed" /\ pc' = "running"
      /\ UNCHANGED <<row, journal, limit, torn, waited, asked, yields>>
  BY DEF LoadHistory
<1>2. \/ history' = journal /\ unruly' = unruly
      \/ history' = << >> /\ unruly < MaxUnruly /\ unruly' = unruly + 1
  BY DEF LoadHistory, HistoryFor, Unruly
<1>3. TypeOK'
  <2>1. history' \in Seq(JournalEntry)
    <3>1. journal \in Seq(JournalEntry) /\ << >> \in Seq(JournalEntry)
      BY Numbers
    <3> QED BY <1>2, <3>1
  <2>2. unruly' \in 0..MaxUnruly
    BY <1>2, ExecutionAssumption DEF Inv, TypeOK
  <2> QED BY <1>1, <2>1, <2>2 DEF Inv, TypeOK
<1>4. LimitInv'
  BY <1>1, <1>2, Numbers DEF Inv, LimitInv, Live
<1> QED
  BY <1>1, <1>3, <1>4
  DEF Inv, RunInv, FailureInv, BackstopInv, CarryIsLastReturned, Kept, Live

(* An expired lease is recovered: one more failure, at the cost of an      *)
(* unruly event, and the carry stays.                                      *)
LEMMA ExpiresInv ==
  ASSUME Inv, Expires
  PROVE  Inv'
<1>1. PICK unit \in JitterUnits :
        Conclude(RecoveredRow(row,
                   AddDuration(RetryDelay(BackoffFor(None), Fraction,
                     SaturatingInc(row.failure_count), unit)),
                   SaturatingInc(row.failure_count)), "stale-recovered")
  BY DEF Expires
<1>2. /\ pc # "idle" /\ unruly' = unruly + 1 /\ unruly < MaxUnruly
      /\ UNCHANGED <<torn, asked, yields>>
  BY DEF Expires, Unruly
<1>3. PICK f \in 0..MaxInt : /\ f = SaturatingInc(row.failure_count)
                             /\ f = row.failure_count + 1
  BY <1>2, Numbers DEF SaturatingInc, Inv, RunInv
<1>4. PICK v \in Nat : v = AddDuration(RetryDelay(BackoffFor(None), Fraction, f, unit))
  BY RetryDelayFacts
<1>5. PICK new : new = RecoveredRow(row, v, f)
  OBVIOUS
<1>6. Conclude(new, "stale-recovered")
  BY <1>1, <1>3, <1>4, <1>5
<1>7. /\ new \in Row /\ new.status = Pending /\ new.run_count = row.run_count
      /\ new.failure_count = f /\ new.carry = row.carry
  <2>1. row \in Row
    BY Numbers
  <2>2. Ended(RecoveredRow(row, v, f), row, Pending, v, f, row.carry)
    BY <2>1, ExpiredRow
  <2> QED BY <1>5, <2>2 DEF Ended
<1>8. row.status = Claimed
  BY <1>2 DEF Inv, TypeOK
<1>9. limit # None => new.failure_count <= limit + unruly'
  BY <1>2, <1>3, <1>7, <1>8, Numbers DEF Inv, LimitInv, Live
<1>10. IsFailure("stale-recovered") /\ "stale-recovered" \in JournalOutcome
  BY DEF IsFailure, JournalOutcome
<1>11. asked' \in Nat /\ yields' \in 0..MaxYields /\ unruly' \in 0..MaxUnruly
  BY <1>2, Numbers, ExecutionAssumption DEF Inv, TypeOK
<1> QED BY <1>2, <1>3, <1>6, <1>7, <1>9, <1>10, <1>11, ConcludeInv

(* A released job goes on where its last run that returned had left it. *)
LEMMA ReleasedInv ==
  ASSUME Inv, Released
  PROVE  Inv'
<1>1. PICK new : new = SettledRow(row, Release(0))
  OBVIOUS
<1>2. Conclude(new, "released")
  BY <1>1 DEF Released, ApplySettlement, JournalOutcomeFor, Release
<1>3. /\ new \in Row /\ new.status = Pending /\ new.run_count = row.run_count
      /\ new.failure_count = row.failure_count /\ new.carry = row.carry
  <2>1. row \in Row
    BY Numbers
  <2>2. Ended(SettledRow(row, Release(0)), row, Pending, 0, row.failure_count, row.carry)
    BY <2>1, ReleasedRow
  <2> QED BY <1>1, <2>2 DEF Ended
<1>4. /\ pc = "running" /\ row.status = Claimed
      /\ UNCHANGED <<torn, asked, unruly>>
  BY DEF Released, Inv, TypeOK
<1>5. limit # None => new.failure_count <= limit + unruly'
  BY <1>3, <1>4, Numbers DEF Inv, LimitInv, Live
<1>6. ~ IsFailure("released") /\ "released" \in JournalOutcome
  BY DEF IsFailure, JournalOutcome
<1>7. asked' \in Nat /\ yields' \in 0..MaxYields /\ unruly' \in 0..MaxUnruly
  <2>1. yields' \in 0..MaxYields
    BY ExecutionAssumption DEF Released, Yield, Inv, TypeOK
  <2> QED BY <1>4, <2>1 DEF Inv, TypeOK
<1> QED BY <1>2, <1>3, <1>4, <1>5, <1>6, <1>7, Numbers, ConcludeInv
(* The settlement of a handler that ran to its end: the four outcomes of   *)
(* SettlementFor, each a transaction that keeps the invariant.             *)
LEMMA FinishInv ==
  ASSUME Inv, NEW result \in {"completed", "error", "unencodable", "undecodable",
                              "pause", "panic"},
         NEW resume_in \in Nat, NEW unit \in JitterUnits,
         Finish(result, resume_in, unit),
         asked' \in Nat, yields' \in 0..MaxYields,
         unruly' = unruly \/ (unruly' = unruly + 1 /\ unruly < MaxUnruly),
         result = "panic" => unruly' = unruly + 1
  PROVE  Inv'
<1>1. /\ pc = "running" /\ row.status = Claimed /\ row \in Row
      /\ torn' = IF result = "panic" THEN torn \cup {row.run_count} ELSE torn
  BY Numbers DEF Finish, Inv, TypeOK
<1>2. PICK f \in 0..MaxInt : /\ f = SaturatingInc(row.failure_count)
                             /\ f = row.failure_count + 1
  BY <1>1, Numbers, SMTT(30) DEF SaturatingInc, Inv, RunInv
<1>3. PICK report : report = Report(result)
  OBVIOUS
<1>4. PICK c \in 0..MaxInt :
        /\ c = report.carry
        /\ c = IF result = "panic" THEN row.carry
               ELSE IF result = "unencodable" THEN 0 ELSE row.run_count
  BY <1>3, Numbers DEF Report
<1>5. PICK s : s = SettlementFor(report, resume_in, unit, f)
  OBVIOUS
<1>6. Conclude(SettledRow(row, s), JournalOutcomeFor(s))
  BY <1>1, <1>2, <1>3, <1>5 DEF Finish, ApplySettlement
<1>7. unruly' \in 0..MaxUnruly
  BY Numbers, ExecutionAssumption, SMTT(30) DEF Inv, TypeOK
<1>8. torn' \in {torn, torn \cup {row.run_count}}
  BY <1>1
<1>9. limit # None => row.failure_count <= limit + unruly
  BY <1>1 DEF Inv, LimitInv, Live
<1>10. CASE report.result = "completed"
  <2>1. s = Complete(0)
    BY <1>5, <1>10 DEF SettlementFor
  <2>2. JournalOutcomeFor(s) = "completed"
    BY <2>1 DEF JournalOutcomeFor, Complete
  <2>3. PICK new : new = SettledRow(row, s)
    OBVIOUS
  <2>4. /\ new \in Row /\ new.status = Completed
        /\ new.run_count = row.run_count /\ new.failure_count = row.failure_count
    <3>1. Ended(SettledRow(row, Complete(0)), row, Completed, row.visible_at,
                row.failure_count, row.carry)
      BY <1>1, CompletedRow
    <3> QED BY <2>1, <2>3, <3>1 DEF Ended
  <2>5. Conclude(new, "completed") /\ ~ IsFailure("completed") /\ "completed" \in JournalOutcome
    BY <1>6, <2>2, <2>3 DEF IsFailure, JournalOutcome
  <2>6. new.failure_count =
          row.failure_count + (IF IsFailure("completed") THEN 1 ELSE 0)
    BY <2>4, <2>5, Numbers
  <2>7. new.status # Claimed /\ new.status # Pending /\ pc # "idle"
    BY <1>1, <2>4
  <2> QED BY <1>7, <1>8, <2>4, <2>5, <2>6, <2>7, ConcludeInv
<1>11. CASE report.result = "pause"
  <2>1. result = "pause" /\ c = row.run_count /\ torn' = torn
    BY <1>1, <1>3, <1>4, <1>11 DEF Report, TaskError, PanicError
  <2>2. PICK v \in Nat : v = AddDuration(resume_in)
    BY BackoffAssumption DEF AddDuration, AtMost
  <2>3. s = Pause(v, c)
    BY <1>4, <1>5, <1>11, <2>2 DEF SettlementFor
  <2>4. JournalOutcomeFor(s) = "paused"
    BY <2>3 DEF JournalOutcomeFor, Pause
  <2>5. PICK new : new = SettledRow(row, s)
    OBVIOUS
  <2>6. /\ new \in Row /\ new.status = Pending /\ new.carry = row.run_count
        /\ new.run_count = row.run_count /\ new.failure_count = row.failure_count
    <3>1. Ended(SettledRow(row, Pause(v, c)), row, Pending, v, row.failure_count, c)
      BY <1>1, PausedRow
    <3> QED BY <2>1, <2>3, <2>5, <3>1 DEF Ended
  <2>7. Conclude(new, "paused") /\ ~ IsFailure("paused") /\ "paused" \in JournalOutcome
    BY <1>6, <2>4, <2>5 DEF IsFailure, JournalOutcome
  <2>8. limit # None => new.failure_count <= limit + unruly'
    BY <1>9, <2>6, Numbers, SMTT(30)
  <2> QED
    BY <1>1, <1>7, <1>8, <2>1, <2>6, <2>7, <2>8, Numbers, ConcludeInv, SMTT(30)
<1>12. ASSUME s = GiveUp(0, f)
       PROVE  Inv'
  <2>1. JournalOutcomeFor(s) = "dead"
    BY <1>12 DEF JournalOutcomeFor, GiveUp
  <2>2. PICK new : new = SettledRow(row, s)
    OBVIOUS
  <2>3. /\ new \in Row /\ new.status = Dead
        /\ new.run_count = row.run_count /\ new.failure_count = f
    <3>1. Ended(SettledRow(row, GiveUp(0, f)), row, Dead, row.visible_at, f, row.carry)
      BY <1>1, GivenUpRow
    <3> QED BY <1>12, <2>2, <3>1 DEF Ended
  <2>4. Conclude(new, "dead") /\ IsFailure("dead") /\ "dead" \in JournalOutcome
    BY <1>6, <2>1, <2>2 DEF IsFailure, JournalOutcome
  <2> QED BY <1>1, <1>2, <1>7, <1>8, <2>3, <2>4, ConcludeInv
<1>13. CASE report.result = "permanent"
  BY <1>5, <1>12, <1>13 DEF SettlementFor
<1>14. CASE report.result = "retryable"
  <2>1. s = RetryOrBackstop(report, unit, f)
    BY <1>5, <1>14 DEF SettlementFor
  <2>2. CASE Backstop # None /\ f >= Backstop
    BY <1>12, <2>1, <2>2 DEF RetryOrBackstop
  <2>3. CASE ~ (Backstop # None /\ f >= Backstop)
    <3>1. result = "panic" \/ (result = "error" /\ ~ Counted)
      BY <1>3, <1>14 DEF Report, TaskError, PanicError
    <3>2. PICK v \in Nat : v = AddDuration(RetryDelay(BackoffFor(TaskBackoff),
                                                      Fraction, f, unit))
      BY RetryDelayFacts
    <3>3. s = Retry(v, f, c)
      BY <1>4, <2>1, <2>3, <3>2 DEF RetryOrBackstop
    <3>4. JournalOutcomeFor(s) = "retried"
      BY <3>3 DEF JournalOutcomeFor, Retry
    <3>5. PICK new : new = SettledRow(row, s)
      OBVIOUS
    <3>6. /\ new \in Row /\ new.status = Pending /\ new.carry = c
          /\ new.run_count = row.run_count /\ new.failure_count = f
      <4>1. Ended(SettledRow(row, Retry(v, f, c)), row, Pending, v, f, c)
        BY <1>1, RetriedRow
      <4> QED BY <3>3, <3>5, <4>1 DEF Ended
    <3>7. Conclude(new, "retried") /\ IsFailure("retried") /\ "retried" \in JournalOutcome
      BY <1>6, <3>4, <3>5 DEF IsFailure, JournalOutcome
    <3>8. ASSUME limit # None PROVE new.failure_count <= limit + unruly'
      <4>1. CASE result = "panic"
        BY <1>2, <1>9, <3>6, <3>8, <4>1, Numbers, SMTT(30)
      <4>2. CASE ~ Counted
        <5>1. history = journal \/ row.failure_count < limit + unruly
          BY <1>1, <3>8 DEF Inv, LimitInv, Live
        <5>2. history = journal => row.failure_count < limit
          BY <3>8, <4>2, Numbers DEF Counted, Inv, FailureInv
        <5> QED BY <1>2, <3>6, <3>8, <5>1, <5>2, Numbers, SMTT(30)
      <4> QED BY <3>1, <4>1, <4>2
    <3>9. Backstop # None => new.failure_count < AtLeast(Backstop, 1)
      BY <2>3, <3>6, Numbers DEF AtLeast
    <3>10. \/ torn' = torn /\ new.carry = row.run_count
           \/ torn' = torn \cup {row.run_count} /\ new.carry = row.carry
      BY <1>1, <1>4, <3>1, <3>6
    <3> QED
      BY <1>1, <1>2, <1>7, <1>8, <3>6, <3>7, <3>8, <3>9, <3>10, ConcludeInv
  <2> QED BY <2>2, <2>3
<1>15. report.result \in {"completed", "pause", "permanent", "retryable"}
  BY <1>3 DEF Report, TaskError, PanicError
<1> QED BY <1>10, <1>11, <1>13, <1>14, <1>15

(* Every step keeps the invariant. *)
LEMMA NextInv == Inv /\ [Next]_vars => Inv'
<1> SUFFICES ASSUME Inv, [Next]_vars PROVE Inv'
  OBVIOUS
<1>1. /\ asked \in Nat /\ yields \in 0..MaxYields /\ unruly \in 0..MaxUnruly
      /\ MaxYields \in Nat /\ MaxUnruly \in Nat /\ 0 \in JitterUnits
  BY ExecutionAssumption, BackoffAssumption DEF Inv, TypeOK, JitterUnits
<1>2. CASE Returns
  <2>1. PICK result \in {"completed", "error", "unencodable", "undecodable"},
             unit \in JitterUnits : Finish(result, 0, unit)
    BY <1>2 DEF Returns
  <2>2. UNCHANGED <<asked, yields, unruly>>
    BY <1>2 DEF Returns
  <2> QED BY <1>1, <2>1, <2>2, FinishInv
<1>3. CASE Pauses
  <2>1. PICK resume_in \in Resumes :
          Finish("pause", resume_in, 0) /\ asked' = resume_in
    BY <1>3 DEF Pauses
  <2>2. resume_in \in Nat
    BY ExecutionAssumption
  <2>3. yields' \in 0..MaxYields /\ unruly' = unruly
    BY <1>1, <1>3 DEF Pauses, Yield
  <2> QED BY <1>1, <2>1, <2>2, <2>3, FinishInv
<1>4. CASE Panics
  <2>1. PICK unit \in JitterUnits : Finish("panic", 0, unit)
    BY <1>4 DEF Panics
  <2>2. /\ asked' = asked /\ yields' = yields
        /\ unruly' = unruly + 1 /\ unruly < MaxUnruly
    BY <1>4 DEF Panics, Unruly
  <2> QED BY <1>1, <2>1, <2>2, FinishInv
<1>5. CASE UNCHANGED vars
  BY <1>5
  DEF vars, Inv, TypeOK, RunInv, FailureInv, LimitInv, BackstopInv,
      CarryIsLastReturned, Kept, Live
<1> QED
  BY <1>2, <1>3, <1>4, <1>5, TickInv, ClaimInv, LoadHistoryInv, ReleasedInv,
     ExpiresInv DEF Next

-----------------------------------------------------------------------------
(* The inductive invariant holds throughout. *)
THEOREM Invariance == Spec => []Inv
<1> QED BY InitInv, NextInv, PTL DEF Spec

(* The state of a job through all its runs is well typed; in particular    *)
(* every delay the schedules yield is one.                                 *)
THEOREM TypeCorrect == Spec => []TypeOK
<1>1. Inv => TypeOK
  BY DEF Inv
<1> QED BY <1>1, Invariance, PTL

(* A task that counts the failures of its history gives up in time: beyond *)
(* the limit it is scheduled only as often as a run could not count or     *)
(* could not answer.                                                       *)
THEOREM GivenUpInTime == Spec => []GivesUpInTime
<1>1. Inv => GivesUpInTime
  BY DEF Inv, LimitInv, Live, GivesUpInTime
<1> QED BY <1>1, Invariance, PTL

(* The backstop ends every job whose handlers fail: what gets one past it  *)
(* is only the recovery of an expired lease.                               *)
THEOREM BackstopHolds == Spec => []BackstopPassedOnlyByExpiry
<1>1. Inv => BackstopPassedOnlyByExpiry
  BY DEF Inv, BackstopInv, Live, BackstopPassedOnlyByExpiry
<1> QED BY <1>1, Invariance, PTL

(* The next run continues from the carry of the last handler that returned *)
(* to be run again.                                                        *)
THEOREM CarryKept == Spec => []CarryIsLastReturned
<1>1. Inv => CarryIsLastReturned
  BY DEF Inv
<1> QED BY <1>1, Invariance, PTL
-----------------------------------------------------------------------------
(* When a job runs again, for schedules that fit. *)

(* The schedule the job was put off by. *)
Override(outcome) == IF outcome = "retried" THEN TaskBackoff ELSE None

(* How a pending job waits, given the outcome of its last run: v ticks are *)
(* left and w have passed, n runs have failed and the last pause asked for *)
(* a.                                                                      *)
Due(v, w, outcome, n, a) ==
  IF IsFailure(outcome)
  THEN /\ v + w >= Shortest(Schedule(Override(outcome)), n)
       /\ v > 0 => v + w <= Longest(Schedule(Override(outcome)), n)
  ELSE outcome = "paused" => v + w >= AtMost(a, Far)

(* Every pending job that ran before waits so. *)
OnSchedule ==
  row.status = Pending /\ journal # << >> =>
    Due(row.visible_at, waited, Last.outcome, row.failure_count, asked)

(* A tick takes as much from what is left as it adds to what has passed,   *)
(* and the count of what has passed reaches beyond every delay.            *)
LEMMA DueAfterTick ==
  ASSUME DelaysFit, NEW v \in Nat, NEW w \in Nat, NEW n \in Nat, NEW a \in Nat,
         NEW outcome \in JournalOutcome,
         Due(v, w, outcome, n, a)
  PROVE  Due(IF v > 0 THEN v - 1 ELSE 0, AtMost(w + 1, Horizon), outcome, n, a)
<1>1. MaxU64 \in Nat /\ Far \in Nat /\ 0 \in JitterUnits
  BY BackoffAssumption DEF JitterUnits
<1>2. PICK h \in Nat : h = Horizon /\ h >= MaxU64 /\ h >= Far
  BY <1>1 DEF Horizon, AtLeast
<1>3. PICK left \in Nat : left = IF v > 0 THEN v - 1 ELSE 0
  OBVIOUS
<1>4. PICK passed \in Nat : passed = AtMost(w + 1, Horizon)
  BY <1>2 DEF AtMost
<1>5. /\ left + passed >= v + w \/ left + passed >= h
      /\ left > 0 => v > 0 /\ left + passed <= v + w
  BY <1>2, <1>3, <1>4 DEF AtMost
<1>6. CASE IsFailure(outcome)
  <2>1. Override(outcome) \in {TaskBackoff, None}
    BY DEF Override
  <2>2. PICK s \in Nat, l \in Nat :
          /\ s = Shortest(Schedule(Override(outcome)), n)
          /\ l = Longest(Schedule(Override(outcome)), n)
          /\ l <= MaxU64 /\ s <= l
    <3>1. PICK o \in {TaskBackoff, None} : o = Override(outcome)
      BY <2>1
    <3>2. PICK d : d = AddDuration(RetryDelay(BackoffFor(o), Fraction, n, 0))
      OBVIOUS
    <3>3. /\ d \in Nat
          /\ Shortest(Schedule(o), n) \in Nat /\ Longest(Schedule(o), n) \in Nat
          /\ Shortest(Schedule(o), n) <= d /\ d <= Longest(Schedule(o), n)
          /\ Longest(Schedule(o), n) <= MaxU64
      BY <1>1, <3>2, RetryDelayFacts
    <3> QED BY <3>1, <3>3
  <2>3. v + w >= s /\ (v > 0 => v + w <= l)
    BY <1>6, <2>2 DEF Due
  <2>4. left + passed >= s /\ (left > 0 => left + passed <= l)
    BY <1>1, <1>2, <1>5, <2>2, <2>3
  <2> QED BY <1>3, <1>4, <1>6, <2>2, <2>4 DEF Due
<1>7. CASE ~ IsFailure(outcome) /\ outcome = "paused"
  <2>1. PICK m \in Nat : m = AtMost(a, Far) /\ m <= Far
    BY <1>1 DEF AtMost
  <2>2. left + passed >= m
    BY <1>1, <1>2, <1>5, <1>7, <2>1 DEF Due
  <2> QED BY <1>3, <1>4, <1>7, <2>1, <2>2 DEF Due
<1>8. CASE ~ IsFailure(outcome) /\ outcome # "paused"
  BY <1>8 DEF Due
<1> QED BY <1>6, <1>7, <1>8

(* A claim that ends in a due row leaves the job due. *)
LEMMA DueAfterConclude ==
  ASSUME Inv, NEW new, NEW outcome, Conclude(new, outcome),
         new.status = Pending =>
           Due(new.visible_at, 0, outcome, new.failure_count, asked')
  PROVE  OnSchedule'
<1>1. /\ row' = new /\ waited' = 0
      /\ journal' = Append(journal, Entry(row.run_count, outcome))
  BY DEF Conclude
<1>2. Last'.outcome = outcome
  <2>1. PICK e : e = Entry(row.run_count, outcome)
    OBVIOUS
  <2>2. journal'[Len(journal')] = e
    BY <1>1, <2>1, Numbers
  <2> QED BY <2>1, <2>2 DEF Last, Entry
<1>3. row'.status = Pending =>
        Due(row'.visible_at, waited', Last'.outcome, row'.failure_count, asked')
  BY <1>1, <1>2
<1> QED BY <1>3 DEF OnSchedule
(* A handler that ends leaves its job due when its settlement says.        *)
LEMMA DueFinish ==
  ASSUME DelaysFit, Inv,
         NEW result \in {"completed", "error", "unencodable", "undecodable",
                         "pause", "panic"},
         NEW resume_in \in Nat, NEW unit \in JitterUnits,
         Finish(result, resume_in, unit),
         result = "pause" => asked' = resume_in
  PROVE  OnSchedule'
<1>1. /\ pc = "running" /\ row.status = Claimed /\ row \in Row
  BY Numbers DEF Finish, Inv, TypeOK
<1>2. PICK f \in 0..MaxInt : f = SaturatingInc(row.failure_count)
  BY Numbers DEF SaturatingInc
<1>3. PICK report : report = Report(result)
  OBVIOUS
<1>4. PICK c \in 0..MaxInt : c = report.carry
  BY <1>3, Numbers DEF Report, Inv, RunInv
<1>5. PICK s : s = SettlementFor(report, resume_in, unit, f)
  OBVIOUS
<1>6. PICK new : new = SettledRow(row, s)
  OBVIOUS
<1>7. Conclude(new, JournalOutcomeFor(s))
  BY <1>2, <1>3, <1>5, <1>6 DEF Finish, ApplySettlement
<1>8. CASE report.result = "completed"
  <2>1. s = Complete(0)
    BY <1>5, <1>8 DEF SettlementFor
  <2>2. Ended(SettledRow(row, Complete(0)), row, Completed, row.visible_at,
              row.failure_count, row.carry)
    BY <1>1, CompletedRow
  <2>3. new.status # Pending
    BY <1>6, <2>1, <2>2 DEF Ended
  <2> QED BY <1>7, <2>3, DueAfterConclude
<1>9. CASE report.result = "pause"
  <2>1. asked' = resume_in
    BY <1>3, <1>9 DEF Report, TaskError, PanicError
  <2>2. PICK v \in Nat : v = AddDuration(resume_in)
    BY BackoffAssumption DEF AddDuration, AtMost
  <2>3. s = Pause(v, c)
    BY <1>4, <1>5, <1>9, <2>2 DEF SettlementFor
  <2>4. JournalOutcomeFor(s) = "paused" /\ ~ IsFailure("paused")
    BY <2>3 DEF JournalOutcomeFor, Pause, IsFailure
  <2>5. Ended(SettledRow(row, Pause(v, c)), row, Pending, v, row.failure_count, c)
    BY <1>1, PausedRow
  <2>6. new.visible_at = AtMost(asked', Far) /\ new.visible_at \in Nat
    BY <1>6, <2>1, <2>2, <2>3, <2>5 DEF Ended, AddDuration
  <2>7. new.visible_at + 0 >= AtMost(asked', Far)
    BY <2>6
  <2>8. Due(new.visible_at, 0, "paused", new.failure_count, asked')
    BY <2>4, <2>7 DEF Due
  <2> QED BY <1>7, <2>4, <2>8, DueAfterConclude
<1>10. ASSUME s = GiveUp(0, f)
       PROVE  OnSchedule'
  <2>1. Ended(SettledRow(row, GiveUp(0, f)), row, Dead, row.visible_at, f, row.carry)
    BY <1>1, GivenUpRow
  <2>2. new.status # Pending
    BY <1>6, <1>10, <2>1 DEF Ended
  <2> QED BY <1>7, <2>2, DueAfterConclude
<1>11. CASE report.result = "permanent"
  BY <1>5, <1>10, <1>11 DEF SettlementFor
<1>12. CASE report.result = "retryable"
  <2>1. s = RetryOrBackstop(report, unit, f)
    BY <1>5, <1>12 DEF SettlementFor
  <2>2. CASE Backstop # None /\ f >= Backstop
    BY <1>10, <2>1, <2>2 DEF RetryOrBackstop
  <2>3. CASE ~ (Backstop # None /\ f >= Backstop)
    <3>1. PICK v : v = AddDuration(RetryDelay(BackoffFor(TaskBackoff),
                                              Fraction, f, unit))
      OBVIOUS
    <3>2. f \in Nat
      BY StoreAssumption
    <3>3. /\ v \in Nat
          /\ Shortest(Schedule(TaskBackoff), f) \in Nat
          /\ Longest(Schedule(TaskBackoff), f) \in Nat
          /\ Shortest(Schedule(TaskBackoff), f) <= v
          /\ v <= Longest(Schedule(TaskBackoff), f)
      BY <3>1, <3>2, RetryDelayFacts
    <3>4. s = Retry(v, f, c)
      BY <1>4, <2>1, <2>3, <3>1 DEF RetryOrBackstop
    <3>5. /\ JournalOutcomeFor(s) = "retried" /\ IsFailure("retried")
          /\ Override("retried") = TaskBackoff
      BY <3>4 DEF JournalOutcomeFor, Retry, IsFailure, Override
    <3>6. Ended(SettledRow(row, Retry(v, f, c)), row, Pending, v, f, c)
      BY <1>1, <3>3, RetriedRow
    <3>7. new.visible_at = v /\ new.failure_count = f
      BY <1>6, <3>4, <3>6 DEF Ended
    <3>8. Due(v, 0, "retried", f, asked')
      BY <3>3, <3>5 DEF Due
    <3> QED BY <1>7, <3>5, <3>7, <3>8, DueAfterConclude
  <2> QED BY <2>2, <2>3
<1>13. report.result \in {"completed", "pause", "permanent", "retryable"}
  BY <1>3 DEF Report, TaskError, PanicError
<1> QED BY <1>8, <1>9, <1>11, <1>12, <1>13

(* A recovered job is put off by the schedule of the worker.               *)
LEMMA DueExpires ==
  ASSUME DelaysFit, Inv, Expires
  PROVE  OnSchedule'
<1>1. PICK unit \in JitterUnits :
        Conclude(RecoveredRow(row,
                   AddDuration(RetryDelay(BackoffFor(None), Fraction,
                     SaturatingInc(row.failure_count), unit)),
                   SaturatingInc(row.failure_count)), "stale-recovered")
  BY DEF Expires
<1>2. PICK f \in 0..MaxInt : f = SaturatingInc(row.failure_count) /\ f \in Nat
  BY Numbers DEF SaturatingInc
<1>3. PICK v : v = AddDuration(RetryDelay(BackoffFor(None), Fraction, f, unit))
  OBVIOUS
<1>4. /\ v \in Nat
      /\ Shortest(Schedule(None), f) \in Nat /\ Longest(Schedule(None), f) \in Nat
      /\ Shortest(Schedule(None), f) <= v /\ v <= Longest(Schedule(None), f)
  BY <1>2, <1>3, RetryDelayFacts
<1>5. PICK new : new = RecoveredRow(row, v, f)
  OBVIOUS
<1>6. Conclude(new, "stale-recovered")
  BY <1>1, <1>2, <1>3, <1>5
<1>7. row \in Row
  BY Numbers
<1>8. Ended(RecoveredRow(row, v, f), row, Pending, v, f, row.carry)
  BY <1>4, <1>7, ExpiredRow
<1>9. new.visible_at = v /\ new.failure_count = f
  BY <1>5, <1>8 DEF Ended
<1>10. IsFailure("stale-recovered") /\ Override("stale-recovered") = None
  BY DEF IsFailure, Override
<1>11. Due(v, 0, "stale-recovered", f, asked')
  BY <1>4, <1>10 DEF Due
<1> QED BY <1>6, <1>9, <1>11, DueAfterConclude

(* No step makes a job run before it is due, or hides it longer.           *)
LEMMA DueNext == DelaysFit /\ Inv /\ OnSchedule /\ [Next]_vars => OnSchedule'
<1> SUFFICES ASSUME DelaysFit, Inv, OnSchedule, [Next]_vars PROVE OnSchedule'
  OBVIOUS
<1>1. CASE Tick
  <2>1. /\ row.status = Pending
        /\ UNCHANGED <<journal, asked>>
        /\ waited' = AtMost(waited + 1, Horizon)
    BY <1>1 DEF Tick
  <2>2. PICK v \in Nat : /\ v = IF row.visible_at > 0 THEN row.visible_at - 1 ELSE 0
                         /\ row' = [row EXCEPT !.visible_at = v]
    <3> DEFINE v == IF row.visible_at > 0 THEN row.visible_at - 1 ELSE 0
    <3>1. v \in Nat
      BY Numbers
    <3>2. row' = [row EXCEPT !.visible_at = v]
      BY <1>1 DEF Tick
    <3> HIDE DEF v
    <3>3. v = IF row.visible_at > 0 THEN row.visible_at - 1 ELSE 0
      BY DEF v
    <3> QED BY <3>1, <3>2, <3>3
  <2>3. row'.visible_at = v /\ row'.failure_count = row.failure_count
    BY <2>2, Numbers DEF Row
  <2>4. CASE journal = << >>
    BY <2>1, <2>4 DEF OnSchedule
  <2>5. CASE journal # << >>
    <3>1. Last.outcome \in JournalOutcome
      <4>1. Len(journal) \in 1..Len(journal)
        BY <2>5, Numbers
      <4>2. journal[Len(journal)] \in JournalEntry
        BY <4>1, Numbers
      <4> QED BY <4>2 DEF Last, JournalEntry
    <3>2. Due(row.visible_at, waited, Last.outcome, row.failure_count, asked)
      BY <2>1, <2>5 DEF OnSchedule
    <3>3. /\ row.visible_at \in Nat /\ waited \in Nat /\ asked \in Nat
          /\ row.failure_count \in Nat
      BY Numbers DEF Inv, TypeOK
    <3>4. Due(v, waited', Last.outcome, row.failure_count, asked)
      BY <2>1, <2>2, <3>1, <3>2, <3>3, DueAfterTick
    <3>5. Last' = Last
      BY <2>1 DEF Last
    <3>6. Due(row'.visible_at, waited', Last'.outcome, row'.failure_count, asked')
      BY <2>1, <2>3, <3>4, <3>5
    <3> QED BY <3>6 DEF OnSchedule
  <2> QED BY <2>4, <2>5
<1>2. CASE Claim
  <2>1. row' = ClaimedRow(row, Worker, 0) /\ Worker \in Identities
    BY <1>2, ExecutionAssumption DEF Claim
  <2>2. row'.status = Claimed
    BY <1>2, <2>1, Numbers, ClaimedRowFacts DEF Claim
  <2> QED BY <2>2 DEF OnSchedule
<1>3. CASE LoadHistory
  BY <1>3 DEF LoadHistory, Inv, TypeOK, OnSchedule
<1>4. CASE Returns
  <2>1. PICK result \in {"completed", "error", "unencodable", "undecodable"},
             unit \in JitterUnits : Finish(result, 0, unit)
    BY <1>4 DEF Returns
  <2> QED BY <2>1, DueFinish
<1>5. CASE Pauses
  <2>1. PICK resume_in \in Resumes :
          Finish("pause", resume_in, 0) /\ asked' = resume_in
    BY <1>5 DEF Pauses
  <2>2. resume_in \in Nat /\ 0 \in JitterUnits
    BY ExecutionAssumption, BackoffAssumption DEF JitterUnits
  <2> QED BY <2>1, <2>2, DueFinish
<1>6. CASE Panics
  <2>1. PICK unit \in JitterUnits : Finish("panic", 0, unit)
    BY <1>6 DEF Panics
  <2> QED BY <2>1, DueFinish
<1>7. CASE Released
  <2>1. Conclude(SettledRow(row, Release(0)), "released")
    BY <1>7 DEF Released, ApplySettlement, JournalOutcomeFor, Release
  <2>2. \A v, n, a : Due(v, 0, "released", n, a)
    BY DEF Due, IsFailure
  <2> QED BY <2>1, <2>2, DueAfterConclude
<1>8. CASE UNCHANGED vars
  BY <1>8 DEF vars, OnSchedule, Last
<1> QED
  BY <1>1, <1>2, <1>3, <1>4, <1>5, <1>6, <1>7, <1>8, DueExpires DEF Next

(* With schedules whose caps fit, a job that failed runs again no earlier  *)
(* than the shortest jittered delay for its failures and is hidden no      *)
(* longer than the full one, by its task's schedule after a failed run and *)
(* by its task's or the worker's after an expired lease; and a pause lasts *)
(* as long as was asked.                                                   *)
THEOREM DelaysKept == ASSUME DelaysFit PROVE Spec => []RunsWhenDue
<1>1. Init => OnSchedule
  BY DEF Init, OnSchedule
<1>2. Inv /\ OnSchedule /\ [Next]_vars => OnSchedule'
  BY DueNext
<1>3. OnSchedule => RunsWhenDue
  <2> SUFFICES ASSUME OnSchedule, row.status = Pending, journal # << >>
               PROVE  RunsWhenDue
    BY DEF RunsWhenDue
  <2>1. Due(row.visible_at, waited, Last.outcome, row.failure_count, asked)
    BY DEF OnSchedule
  <2>2. Last.outcome = "retried" => WaitFits(OwnBackoff)
    BY <2>1 DEF Due, IsFailure, Schedule, Override, WaitFits, OwnBackoff
  <2>3. Last.outcome = "stale-recovered" => WaitFits(WorkerBackoff)
    BY <2>1 DEF Due, IsFailure, Schedule, Override, WaitFits
  <2>4. Last.outcome = "paused" => row.visible_at + waited >= AtMost(asked, Far)
    BY <2>1 DEF Due, IsFailure
  <2> QED BY <2>2, <2>3, <2>4 DEF RunsWhenDue
<1> QED BY <1>1, <1>2, <1>3, Invariance, PTL DEF Spec
=============================================================================
