----------------------------- MODULE Arithmetic -----------------------------
(***************************************************************************)
(* Multiples, quotients and remainders, for the proofs about pages,        *)
(* sectors and transfers; induction and recursion over numbers, for what a *)
(* loop computes.  Both are stated over sets and functions, where the      *)
(* library has operators.                                                  *)
(***************************************************************************)
EXTENDS Integers, FiniteSetTheorems, WellFoundedInduction, TLAPS

\* What a larger number has more.
LEMMA Difference ==
    ASSUME NEW i \in Int, NEW n \in Int, i < n
    PROVE  \E d \in Nat : n = i + 1 + d
<1>1. n - i - 1 \in Nat /\ n = i + 1 + (n - i - 1)
  OBVIOUS
<1>2. QED BY <1>1

\* Multiples of the same number are at least that number apart.
LEMMA MultiplesApart ==
    ASSUME NEW i \in Int, NEW n \in Int, i < n, NEW s \in Nat
    PROVE  i * s \in Int /\ n * s \in Int /\ i * s + s <= n * s
<1>1. PICK d \in Nat : n = i + 1 + d
  BY Difference
<1>2. n * s = i * s + s + d * s /\ d * s \in Nat /\ i * s \in Int
  BY <1>1
<1>3. QED BY <1>2

\* Whole transfers below the end of an area of whole transfers leave room for
\* one more.
LEMMA RoomForOneMore ==
    ASSUME NEW n \in Nat, NEW q \in Nat, NEW t \in Nat \ {0}, n * t < q * t
    PROVE  n * t + t <= q * t
<1>1. CASE n < q
  BY <1>1, MultiplesApart
<1>2. CASE q < n
  <2>1. q * t + t <= n * t
    BY <1>2, MultiplesApart
  <2>2. QED BY <2>1
<1>3. QED BY <1>1, <1>2

\* The quotient of two natural numbers, and what is left.
LEMMA Division ==
    ASSUME NEW x \in Nat, NEW w \in Nat \ {0}
    PROVE  /\ x = (x \div w) * w + (x % w)
           /\ x \div w \in Nat /\ x % w \in 0 .. w - 1
<1>1. x = (x \div w) * w + (x % w) /\ x \div w \in Int /\ x % w \in 0 .. w - 1
  OBVIOUS
<1>2. CASE x \div w < 0
  <2>1. (x \div w) * w + w <= 0 * w
    BY <1>1, <1>2, MultiplesApart
  <2>2. QED BY <1>1, <2>1
<1>3. QED BY <1>1, <1>2

\* Quotient and remainder are unique.
LEMMA DivisionUnique ==
    ASSUME NEW x \in Nat, NEW w \in Nat \ {0}, NEW q \in Nat, NEW r \in 0 .. w - 1,
           x = q * w + r
    PROVE  x \div w = q /\ x % w = r
<1> DEFINE p == x \div w
<1>1. x = p * w + (x % w) /\ p \in Nat /\ x % w \in 0 .. w - 1
  BY Division
<1>2. CASE q < p
  <2>1. q * w + w <= p * w /\ q * w \in Int /\ p * w \in Int
    BY <1>1, <1>2, MultiplesApart
  <2>2. QED BY <1>1, <2>1
<1>3. CASE p < q
  <2>1. p * w + w <= q * w /\ q * w \in Int /\ p * w \in Int
    BY <1>1, <1>3, MultiplesApart
  <2>2. QED BY <1>1, <2>1
<1>4. CASE p = q
  BY <1>1, <1>4
<1>5. QED BY <1>1, <1>2, <1>3, <1>4

-----------------------------------------------------------------------------
(* Induction and recursion.                                                 *)

\* Every set of natural numbers that is not empty has a least element: the
\* intervals below its elements are finite sets, and inclusion is well-founded on
\* those.
LEMMA LeastElement ==
    ASSUME NEW D \in SUBSET Nat, D # {}
    PROVE  \E m \in D : \A d \in D : m <= d
<1> DEFINE T == {0 .. d - 1 : d \in D}
<1>1. \A d \in D : IsFiniteSet(0 .. d - 1) /\ 0 .. d - 1 \in SUBSET Nat
  BY FS_Interval
<1>2. T \subseteq FiniteSubsetsOf(Nat) /\ T # {}
  BY <1>1 DEF FiniteSubsetsOf
<1>3. PICK x \in T : \A y \in T : ~(<<y, x>> \in StrictSubsetOrdering(Nat))
  BY <1>2, FS_StrictSubsetOrderingWellFounded, WFMin
<1>4. PICK m \in D : x = 0 .. m - 1
  OBVIOUS
<1>5. ASSUME NEW d \in D, d < m
      PROVE  FALSE
  <2>1. 0 .. d - 1 \in T /\ 0 .. d - 1 \in SUBSET Nat /\ 0 .. m - 1 \in SUBSET Nat
    OBVIOUS
  <2>2. 0 .. d - 1 \subseteq 0 .. m - 1
    BY <1>5
  <2>3. 0 .. d - 1 # 0 .. m - 1
    BY <1>5
  <2>4. QED BY <2>1, <2>2, <2>3, <1>3, <1>4 DEF StrictSubsetOrdering
<1>6. QED BY <1>5

\* Induction: a set of numbers that has 0 and with each number up to N the next one.
LEMMA Induction ==
    ASSUME NEW N \in Nat, NEW D, 0 \in D, \A n \in 0 .. N - 1 : n \in D => n + 1 \in D
    PROVE  \A n \in 0 .. N : n \in D
<1> SUFFICES ASSUME NEW b \in 0 .. N, b \notin D
             PROVE  FALSE
  OBVIOUS
<1> DEFINE Bad == (0 .. N) \ D
<1>1. Bad \in SUBSET Nat /\ Bad # {}
  OBVIOUS
<1>2. PICK m \in Bad : \A d \in Bad : m <= d
  BY <1>1, LeastElement
<1>3. m # 0 /\ m - 1 \in 0 .. N - 1 /\ m - 1 \notin Bad
  BY <1>2
<1>4. m - 1 \in D
  BY <1>3
<1>5. (m - 1) + 1 = m
  BY <1>1
<1>6. QED BY <1>3, <1>4, <1>5

\* Recursion: whatever the base and the steps, there is a function that starts at
\* the one and goes on by the others.
StepFunctions(N, S) == [1 .. N -> [S -> S]]

Computes(f, N, S, base, step) ==
    /\ f \in [0 .. N -> S]
    /\ f[0] = base /\ \A k \in 1 .. N : f[k] = step[k][f[k - 1]]

LEMMA Recursion ==
    ASSUME NEW N \in Nat, NEW S, NEW base \in S, NEW step \in StepFunctions(N, S)
    PROVE  \E f : Computes(f, N, S, base, step)
<1> USE DEF StepFunctions
<1> DEFINE Upto(n, f) ==
              f[0] = base /\ \A k \in 1 .. n : f[k] = step[k][f[k - 1]]
           D == {n \in 0 .. N : \E f \in [0 .. n -> S] : Upto(n, f)}
<1>1. 0 \in D
  <2> DEFINE f == [n \in 0 .. 0 |-> base]
  <2>1. f \in [0 .. 0 -> S] /\ Upto(0, f)
    OBVIOUS
  <2> HIDE DEF f
  <2>2. QED BY <2>1
<1>2. ASSUME NEW n \in 0 .. N - 1, n \in D
      PROVE  n + 1 \in D
  <2>1. PICK f \in [0 .. n -> S] : Upto(n, f)
    BY <1>2
  <2> DEFINE last == step[n + 1][f[n]]
             g == [k \in 0 .. n + 1 |-> IF k = n + 1 THEN last ELSE f[k]]
  <2>2. last \in S
    <3>1. f[n] \in S /\ n + 1 \in 1 .. N
      OBVIOUS
    <3>2. step[n + 1] \in [S -> S]
      BY <3>1
    <3>3. QED BY <3>1, <3>2
  <2>3. g \in [0 .. n + 1 -> S] /\ g[0] = base
    BY <2>1, <2>2
  <2>4. ASSUME NEW k \in 1 .. n + 1
        PROVE  g[k] = step[k][g[k - 1]]
    <3>1. CASE k = n + 1
      BY <3>1
    <3>2. CASE k # n + 1
      <4>1. k \in 1 .. n /\ k - 1 \in 0 .. n /\ k - 1 # n + 1
        BY <3>2
      <4>2. g[k] = f[k] /\ g[k - 1] = f[k - 1]
        BY <4>1
      <4>3. QED BY <2>1, <4>1, <4>2
    <3>3. QED BY <3>1, <3>2
  <2>5. n + 1 \in 0 .. N
    OBVIOUS
  <2> HIDE DEF g
  <2>6. QED BY <2>3, <2>4, <2>5
<1>3. N \in D
  <2> HIDE DEF D
  <2>1. \A n \in 0 .. N - 1 : n \in D => n + 1 \in D
    BY <1>2
  <2>2. \A n \in 0 .. N : n \in D
    BY <1>1, <2>1, Induction
  <2>3. QED BY <2>2
<1>4. QED BY <1>3 DEF Computes
=============================================================================
