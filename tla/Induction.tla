----------------------------- MODULE Induction ------------------------------
(***************************************************************************)
(* Induction and recursion in a first-order form: a property of numbers is *)
(* the set of those that have it, a recursive definition a function that   *)
(* is applied over and over.  The proofs cite these.                       *)
(***************************************************************************)
EXTENDS Integers, WellFoundedInduction, TLAPS

\* A set of natural numbers has a least element.
LEMMA LeastOf ==
  ASSUME NEW S \in SUBSET Nat, S # {}
  PROVE  \E m \in S : \A n \in S : m <= n
<1> DEFINE R == OpToRel(<, Nat)
<1>1. IsWellFoundedOn(R, Nat)
  BY NatLessThanWellFounded
<1>2. \A x, y \in Nat : <<y, x>> \in R <=> y < x
  BY DEF OpToRel
<1> HIDE DEF R
<1>3. PICK x \in S : \A y \in S : ~ (<<y, x>> \in R)
  BY <1>1, WFMin
<1>4. \A y \in S : ~ (y < x)
  BY <1>2, <1>3
<1> QED
  BY <1>4

\* A bounded one has a greatest.
LEMMA GreatestOf ==
  ASSUME NEW S \in SUBSET Nat, S # {}, NEW b \in Nat, \A n \in S : n <= b
  PROVE  \E m \in S : \A n \in S : n <= m
<1> DEFINE T == {b - n : n \in S}
<1>1. T \in SUBSET Nat /\ T # {}
  <2>1. PICK n \in S : TRUE
    OBVIOUS
  <2>2. b - n \in T
    OBVIOUS
  <2>3. \A t \in T : t \in Nat
    OBVIOUS
  <2> QED
    BY <2>2, <2>3
<1>2. PICK t \in T : \A u \in T : t <= u
  <2> HIDE DEF T
  <2> QED
    BY <1>1, LeastOf
<1>3. PICK m \in S : t = b - m
  OBVIOUS
<1>4. \A n \in S : b - n \in T
  OBVIOUS
<1>5. \A n \in S : b - m <= b - n
  BY <1>2, <1>3, <1>4
<1> QED
  BY <1>3, <1>5

\* What holds of 0, and of n + 1 whenever it holds of n, holds of every number.
LEMMA NatInd ==
  ASSUME NEW S, 0 \in S, \A n \in Nat : n \in S => n + 1 \in S
  PROVE  Nat \subseteq S
<1>1. SUFFICES ASSUME Nat \ S # {} PROVE FALSE
  OBVIOUS
<1> DEFINE T == Nat \ S
<1>2. T \in SUBSET Nat /\ T # {}
  BY <1>1
<1> HIDE DEF T
<1>3. PICK m \in T : \A n \in T : m <= n
  BY <1>2, LeastOf
<1> USE DEF T
<1>4. m \in Nat /\ m # 0
  BY <1>3
<1>5. m - 1 \in Nat /\ m - 1 \in S
  BY <1>3, <1>4
<1> QED
  BY <1>3, <1>4, <1>5

\* The functions whose value for 0 is a and whose step from n to n + 1 is h.
Iterates(S, a, h) == {f \in [Nat -> S] : f[0] = a /\ \A n \in Nat : f[n + 1] = h[<<n, f[n]>>]}

\* There is one: a function of the numbers can be defined by its value for 0 and by the step.
LEMMA RecursionOnNat ==
  ASSUME NEW S, NEW a \in S, NEW h \in [Nat \X S -> S]
  PROVE  Iterates(S, a, h) # {}
<1> DEFINE Up(n, f) == f[0] = a /\ \A k \in 0..(n - 1) : f[k + 1] = h[<<k, f[k]>>]
           G == {n \in Nat : \E f \in [0..n -> S] : Up(n, f)}
<1>1. Nat \subseteq G
  <2>1. 0 \in G
    <3> DEFINE f == [k \in 0..0 |-> a]
    <3>1. f \in [0..0 -> S] /\ Up(0, f)
      OBVIOUS
    <3> QED
      BY <3>1
  <2>2. ASSUME NEW n \in Nat, n \in G PROVE n + 1 \in G
    <3>1. PICK f \in [0..n -> S] : Up(n, f)
      BY <2>2
    <3> DEFINE e == [k \in 0..(n + 1) |-> IF k = n + 1 THEN h[<<n, f[n]>>] ELSE f[k]]
    <3>2. e \in [0..(n + 1) -> S]
      BY <3>1
    <3>3. e[0] = a
      BY <3>1
    <3>4. ASSUME NEW k \in 0..n PROVE e[k + 1] = h[<<k, e[k]>>]
      <4>1. e[k] = f[k]
        OBVIOUS
      <4>2. CASE k = n
        <5>1. e[n + 1] = h[<<n, f[n]>>]
          OBVIOUS
        <5> QED
          BY <4>1, <4>2, <5>1
      <4>3. CASE k # n
        <5>1. k \in 0..(n - 1) /\ k + 1 \in 0..n
          BY <4>3
        <5> QED
          BY <3>1, <4>1, <5>1
      <4> QED
        BY <4>2, <4>3
    <3> HIDE DEF e
    <3>5. Up(n + 1, e)
      BY <3>3, <3>4
    <3> QED
      BY <3>2, <3>5
  <2> HIDE DEF G
  <2> QED
    BY <2>1, <2>2, NatInd
<1> DEFINE F(n) == CHOOSE f \in [0..n -> S] : Up(n, f)
<1>2. \A n \in Nat : F(n) \in [0..n -> S] /\ Up(n, F(n))
  <2> TAKE n \in Nat
  <2>1. \E f \in [0..n -> S] : Up(n, f)
    BY <1>1
  <2> HIDE DEF Up
  <2> QED
    BY <2>1
<1> HIDE DEF F
<1>3. \A n \in Nat : F(n + 1)[n] = F(n)[n]
  <2> SUFFICES ASSUME NEW n \in Nat PROVE F(n + 1)[n] = F(n)[n]
    OBVIOUS
  <2> DEFINE E == {k \in Nat : k <= n => F(n + 1)[k] = F(n)[k]}
  <2>1. 0 \in E
    BY <1>2
  <2>2. ASSUME NEW k \in Nat, k \in E PROVE k + 1 \in E
    <3>1. SUFFICES ASSUME k + 1 <= n PROVE F(n + 1)[k + 1] = F(n)[k + 1]
      OBVIOUS
    <3>2. F(n + 1)[k] = F(n)[k] /\ k \in 0..(n - 1) /\ k \in 0..(n + 1 - 1)
      BY <2>2, <3>1
    <3>3. F(n)[k + 1] = h[<<k, F(n)[k]>>]
      BY <1>2, <3>2
    <3>4. F(n + 1)[k + 1] = h[<<k, F(n + 1)[k]>>]
      BY <1>2, <3>2
    <3> QED
      BY <3>2, <3>3, <3>4
  <2> HIDE DEF E
  <2>3. Nat \subseteq E
    BY <2>1, <2>2, NatInd
  <2> QED
    BY <2>3 DEF E
<1> DEFINE f == [n \in Nat |-> F(n)[n]]
<1>4. f \in [Nat -> S] /\ f[0] = a
  BY <1>2
<1>5. ASSUME NEW n \in Nat PROVE f[n + 1] = h[<<n, f[n]>>]
  <2>1. F(n + 1)[n + 1] = h[<<n, F(n + 1)[n]>>]
    BY <1>2
  <2> QED
    BY <1>3, <2>1
<1> HIDE DEF f
<1>6. f \in Iterates(S, a, h)
  BY <1>4, <1>5 DEF Iterates
<1> QED
  BY <1>6
=============================================================================
