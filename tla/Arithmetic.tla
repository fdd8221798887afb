----------------------------- MODULE Arithmetic -----------------------------
(***************************************************************************)
(* Facts about natural numbers that the other proofs need: division,       *)
(* spans, the largest member of a bounded set, and induction and recursion *)
(* over data, both stated of sets and functions rather than of operators.  *)
(***************************************************************************)
EXTENDS Integers, TLAPS, WellFoundedInduction

Positive == Nat \ {0}

\* Quotients are natural numbers, and remainders.
LEMMA Quotient ==
    ASSUME NEW a \in Nat, NEW b \in Positive
    PROVE  a \div b \in Nat /\ a % b \in 0..(b - 1)
  BY DEF Positive

\* A quotient is the largest factor that fits.
LEMMA FactorFits ==
    ASSUME NEW d \in Nat, NEW a \in Nat, NEW b \in Positive
    PROVE  d <= a \div b <=> d * b <= a
  <1>1. d <= a \div b => d * b <= a
    BY DEF Positive
  <1>2. d * b <= a => d <= a \div b
    BY DEF Positive
  <1>. QED  BY <1>1, <1>2

\* Quotient and remainder are determined by the division.
LEMMA DivisionUnique ==
    ASSUME NEW a \in Nat, NEW b \in Positive, NEW q \in Nat, NEW r \in 0..(b - 1),
           a = q * b + r
    PROVE  a \div b = q /\ a % b = r
  BY DEF Positive

\* A number is its quotient times the divisor, and the remainder.
LEMMA Division ==
    ASSUME NEW a \in Nat, NEW b \in Positive
    PROVE  a = (a \div b) * b + (a % b)
  <1>. DEFINE q == a \div b
              r == a - q * b
  <1>1. q \in Nat
    BY Quotient
  <1>2. r \in 0..(b - 1)
    <2>1. q * b <= a
      BY DEF Positive
    <2>2. q * b > a - b
      BY DEF Positive
    <2>. QED  BY <2>1, <2>2, <1>1 DEF Positive
  <1>3. a = q * b + r
    BY <1>1 DEF Positive
  <1>4. a % b = r
    <2>. HIDE DEF q, r
    <2>. QED  BY <1>1, <1>2, <1>3, DivisionUnique
  <1>5. a = q * b + (a % b)
    <2>. HIDE DEF q, r
    <2>. QED  BY <1>3, <1>4
  <1>. QED  BY <1>5

\* A product is divided exactly by its factors.
LEMMA ExactDivision ==
    ASSUME NEW q \in Nat, NEW b \in Positive
    PROVE  (q * b) \div b = q /\ (q * b) % b = 0
  <1>1. q * b \in Nat /\ q * b = q * b + 0 /\ 0 \in 0..(b - 1)
    BY DEF Positive
  <1>. QED  BY <1>1, DivisionUnique

\* A divisor is no larger than what it divides.
LEMMA DivisorBound ==
    ASSUME NEW K \in Positive, NEW d \in Positive, K % d = 0
    PROVE  d <= K
  <1>. DEFINE q == K \div d
  <1>1. q \in Nat /\ K = q * d + 0
    BY Division, Quotient DEF Positive
  <1>. HIDE DEF q
  <1>2. q # 0
    BY <1>1 DEF Positive
  <1>. QED  BY <1>1, <1>2 DEF Positive

\* What lies below a multiple of b has a smaller quotient.
LEMMA BelowQuotient ==
    ASSUME NEW x \in Nat, NEW b \in Positive, NEW m \in Nat, x < m * b
    PROVE  x \div b < m
  <1>1. x \div b \in Nat
    BY Quotient
  <1>2. m <= x \div b => m * b <= x
    BY FactorFits
  <1>3. m * b \in Nat
    BY DEF Positive
  <1>. QED  BY <1>1, <1>2, <1>3

\* Products grow with their factors.
LEMMA Monotone ==
    ASSUME NEW m \in Nat, NEW t \in Nat, m <= t, NEW x \in Nat
    PROVE  m * x <= t * x /\ x * m <= x * t
  <1>1. PICK d \in Nat : t = m + d
    <2>1. t - m \in Nat /\ t = m + (t - m)
      OBVIOUS
    <2>. QED  BY <2>1
  <1>2. (m + d) * x = m * x + d * x /\ d * x \in Nat /\ m * x \in Nat
    OBVIOUS
  <1>. QED  BY <1>1, <1>2

\* The x-th and the y-th span of length k.
LEMMA SpansApart ==
    ASSUME NEW k \in Nat, NEW x \in Nat, NEW y \in Nat, x < y
    PROVE  x * k + k <= y * k
  <1>1. PICK e \in Nat : y = x + 1 + e
    <2>1. y - x - 1 \in Nat /\ y = x + 1 + (y - x - 1)
      OBVIOUS
    <2>. QED  BY <2>1
  <1>2. e * k \in Nat
    OBVIOUS
  <1>3. y * k = x * k + k + e * k
    BY <1>1
  <1>. QED  BY <1>2, <1>3

\* A bounded set of natural numbers has a largest member.
LEMMA LargestExists ==
    ASSUME NEW cap \in Nat, NEW T \in SUBSET Nat, T # {}, \A x \in T : x <= cap
    PROVE  \E x \in T : \A y \in T : y <= x
  <1>. DEFINE Below == {ss \in Nat \X Nat : ss[1] < ss[2]}
              S == {cap - x : x \in T}
  <1>1. IsWellFoundedOn(Below, Nat)
    BY NatLessThanWellFounded DEF OpToRel
  <1>2. S \subseteq Nat /\ S # {}
    <2>1. ASSUME NEW x \in T PROVE cap - x \in Nat
      BY x <= cap
    <2>. QED  BY <2>1
  <1>3. PICK n \in S : \A m \in S : ~ (<<m, n>> \in Below)
    <2>. HIDE DEF Below, S
    <2>. QED  BY <1>1, <1>2, WFMin
  <1>4. PICK x \in T : n = cap - x
    BY <1>3
  <1>5. ASSUME NEW y \in T PROVE y <= x
    <2>1. cap - y \in S /\ cap - y \in Nat /\ n \in Nat
      BY <1>2
    <2>2. ~ (cap - y < n)
      BY <2>1, <1>3
    <2>. QED  BY <2>1, <2>2, <1>4
  <1>. QED  BY <1>5
-----------------------------------------------------------------------------
(* Induction and recursion *)

\* A set that holds 0, and k + 1 whenever it holds k, holds everything up to n.
LEMMA Induction ==
    ASSUME NEW n \in Nat, NEW S, 0 \in S, \A k \in 0..(n - 1) : k \in S => k + 1 \in S
    PROVE  0..n \subseteq S
  <1>. DEFINE Below == {ss \in Nat \X Nat : ss[1] < ss[2]}
              T == (0..n) \ S
  <1>1. IsWellFoundedOn(Below, Nat)
    BY NatLessThanWellFounded DEF OpToRel
  <1>. SUFFICES ASSUME T # {} PROVE FALSE
    OBVIOUS
  <1>2. PICK m \in T : \A k \in T : ~ (<<k, m>> \in Below)
    <2>. T \subseteq Nat
      OBVIOUS
    <2>. HIDE DEF Below, T
    <2>. QED  BY <1>1, WFMin
  <1>3. m # 0 /\ m \in Nat /\ m - 1 \in 0..(n - 1) /\ m - 1 \in Nat
    OBVIOUS
  <1>4. m - 1 \in S
    <2>1. <<m - 1, m>> \in Below
      BY <1>3
    <2>2. m - 1 \notin T
      BY <1>2, <2>1
    <2>. QED  BY <2>2, <1>3
  <1>. QED  BY <1>3, <1>4

\* The functions that recursion over 0..n defines from a first value and a step.
Unfolds(f, n, v, step) ==
    f[0] = v /\ \A i \in 1..n : f[i] = step[<<i, f[i - 1]>>]

Recursive(n, V, v, step) == \E f \in [0..n -> V] : Unfolds(f, n, v, step)

\* There is one.
LEMMA Recursion ==
    ASSUME NEW n \in Nat, NEW V, NEW v \in V, NEW step \in [(1..n) \X V -> V]
    PROVE  Recursive(n, V, v, step)
  <1>. DEFINE S == {k \in 0..n : \E f \in [0..k -> V] : Unfolds(f, k, v, step)}
  <1>1. 0 \in S
    <2>. DEFINE f == [i \in 0..0 |-> v]
    <2>1. f \in [0..0 -> V] /\ 0 \in 0..n
      OBVIOUS
    <2>2. Unfolds(f, 0, v, step)
      BY DEF Unfolds
    <2>. HIDE DEF f
    <2>. QED  BY <2>1, <2>2
  <1>2. ASSUME NEW k \in 0..(n - 1), k \in S PROVE k + 1 \in S
    <2>1. PICK f \in [0..k -> V] : Unfolds(f, k, v, step)
      BY <1>2
    <2>. DEFINE g == [i \in 0..(k + 1) |-> IF i = k + 1 THEN step[<<i, f[k]>>] ELSE f[i]]
    <2>2. f[k] \in V /\ k + 1 \in 1..n
      OBVIOUS
    <2>3. g \in [0..(k + 1) -> V]
      BY <2>2
    <2>4. g[0] = v /\ \A i \in 1..(k + 1) : g[i] = step[<<i, g[i - 1]>>]
      BY <2>1 DEF Unfolds
    <2>5. Unfolds(g, k + 1, v, step) /\ k + 1 \in 0..n
      <3>. HIDE DEF g
      <3>. QED  BY <2>4 DEF Unfolds
    <2>. HIDE DEF g
    <2>. QED  BY <2>3, <2>5
  <1>3. n \in S
    <2>1. \A k \in 0..(n - 1) : k \in S => k + 1 \in S
      BY <1>2
    <2>2. n \in 0..n
      OBVIOUS
    <2>. HIDE DEF S
    <2>. QED  BY <1>1, <2>1, <2>2, Induction
  <1>. QED  BY <1>3 DEF Recursive
\* A function that unfolds as long as its values are in V has them all in V.
LEMMA RecursionStays ==
    ASSUME NEW n \in Nat, NEW V, NEW v \in V, NEW step \in [(1..n) \X V -> V],
           NEW f, f = [i \in 0..n |-> f[i]], f[0] = v,
           \A i \in 1..n : f[i - 1] \in V => f[i] = step[<<i, f[i - 1]>>]
    PROVE  f \in [0..n -> V] /\ Unfolds(f, n, v, step)
  <1>. DEFINE S == {k \in 0..n : f[k] \in V}
  <1>1. 0 \in S
    OBVIOUS
  <1>2. ASSUME NEW k \in 0..(n - 1), k \in S PROVE k + 1 \in S
    <2>1. k + 1 \in 1..n /\ (k + 1) - 1 = k
      OBVIOUS
    <2>2. f[k + 1] = step[<<k + 1, f[k]>>]
      BY <1>2, <2>1
    <2>3. <<k + 1, f[k]>> \in (1..n) \X V
      BY <1>2, <2>1
    <2>. QED  BY <2>1, <2>2, <2>3
  <1>3. 0..n \subseteq S
    <2>. HIDE DEF S
    <2>. QED  BY <1>1, <1>2, Induction
  <1>4. f \in [0..n -> V]
    BY <1>3
  <1>5. ASSUME NEW i \in 1..n PROVE f[i] = step[<<i, f[i - 1]>>]
    <2>1. i - 1 \in 0..n
      OBVIOUS
    <2>. QED  BY <2>1, <1>3
  <1>. QED  BY <1>4, <1>5 DEF Unfolds
=============================================================================
