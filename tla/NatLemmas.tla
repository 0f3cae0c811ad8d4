------------------------------ MODULE NatLemmas ------------------------------
(***************************************************************************)
(* Induction over the naturals in the first-order form the provers accept: *)
(* over a set instead of a predicate.  It rests on the library's theorem   *)
(* that < is well founded on Nat.  And the multiples of a number, for the  *)
(* depths that are logged.                                                 *)
(***************************************************************************)
EXTENDS Integers, TLAPS, WellFoundedInduction, NaturalsInduction

\* Every non-empty set of naturals has a least element (the Min of the commit
\* bar, the first position of a walk).
LEMMA LeastNat ==
  ASSUME NEW S, S \subseteq Nat, S # {}
  PROVE  \E m \in S : \A k \in S : m <= k
<1> DEFINE R == {ss \in Nat \X Nat : ss[1] < ss[2]}
<1>1. IsWellFoundedOn(R, Nat)
  BY NatLessThanWellFounded, Zenon DEF OpToRel
<1> HIDE DEF R
<1>2. PICK m \in S : \A k \in S : ~(<<k, m>> \in R)
  BY <1>1, WFMin
<1>3. ASSUME NEW k \in S PROVE m <= k
  <2>1. <<k, m>> \notin R
    BY <1>2
  <2> QED
    BY <2>1 DEF R
<1> QED
  BY <1>3

\* Induction: a set with 0 and the successor of each of its naturals has all.
LEMMA InductionOverSet ==
  ASSUME NEW S, 0 \in S, \A k \in Nat : k \in S => k + 1 \in S
  PROVE  \A k \in Nat : k \in S
<1> SUFFICES ASSUME Nat \ S # {} PROVE FALSE
  OBVIOUS
<1>1. PICK m \in Nat \ S : \A k \in Nat \ S : m <= k
  BY LeastNat
<1>2. m - 1 \in Nat /\ m - 1 \in S
  BY <1>1
<1> QED
  BY <1>1, <1>2

\* g is the function over the naturals with first value b and steps f.
Iterates(S, b, f, g) ==
    g \in [Nat -> S] /\ g[0] = b /\ \A k \in Nat : g[k + 1] = f[k][g[k]]

\* A function over the naturals can be defined by its first value and by a
\* step: what a recursive function of the models (a walk along the parent
\* pointers) needs to exist, with the set its values are in.
LEMMA RecursiveFunction ==
  ASSUME NEW S, NEW b \in S, NEW f \in [Nat -> [S -> S]]
  PROVE  \E g : Iterates(S, b, f, g)
<1> DEFINE Upto(k) == {g \in [0 .. k -> S] :
                         g[0] = b /\ \A i \in 0 .. k - 1 : g[i + 1] = f[i][g[i]]}
           A == {k \in Nat : Upto(k) # {}}
           B == {k \in Nat : \A m \in Nat : \A g \in Upto(k), e \in Upto(m) :
                               k <= m => g[k] = e[k]}
<1>1. \A k \in Nat : k \in A
  <2>1. 0 \in A
    <3>1. [i \in 0 .. 0 |-> b] \in Upto(0)
      OBVIOUS
    <3> QED
      BY <3>1
  <2>2. ASSUME NEW k \in Nat, k \in A PROVE k + 1 \in A
    <3>1. PICK g \in [0 .. k -> S] :
             g[0] = b /\ \A i \in 0 .. k - 1 : g[i + 1] = f[i][g[i]]
      BY <2>2
    <3> DEFINE e == [i \in 0 .. k + 1 |-> IF i <= k THEN g[i] ELSE f[k][g[k]]]
    <3>2. e \in [0 .. k + 1 -> S]
      <4>1. g[k] \in S
        BY <3>1
      <4>2. f[k][g[k]] \in S
        BY <4>1
      <4> QED
        BY <4>2, <3>1
    <3>3. e[0] = b
      BY <3>1
    <3>4. ASSUME NEW i \in 0 .. (k + 1) - 1 PROVE e[i + 1] = f[i][e[i]]
      <4>1. CASE i < k
        BY <4>1, <3>1
      <4>2. CASE i = k
        <5>1. e[k] = g[k] /\ e[k + 1] = f[k][g[k]]
          OBVIOUS
        <5> QED
          BY <4>2, <5>1
      <4> QED
        BY <4>1, <4>2
    <3> HIDE DEF e
    <3>5. e \in Upto(k + 1)
      BY <3>2, <3>3, <3>4
    <3> QED
      BY <3>5
  <2> HIDE DEF A
  <2> QED
    BY <2>1, <2>2, InductionOverSet
<1>2. \A k \in Nat : k \in B
  <2>1. 0 \in B
    OBVIOUS
  <2>2. ASSUME NEW k \in Nat, k \in B PROVE k + 1 \in B
    <3>1. ASSUME NEW m \in Nat, NEW g \in Upto(k + 1), NEW e \in Upto(m), k + 1 <= m
          PROVE  g[k + 1] = e[k + 1]
      <4> DEFINE r == [i \in 0 .. k |-> g[i]]
      <4>1. r \in Upto(k)
        <5>1. r \in [0 .. k -> S] /\ r[0] = b
          OBVIOUS
        <5>2. ASSUME NEW i \in 0 .. k - 1 PROVE r[i + 1] = f[i][r[i]]
          <6>1. i \in 0 .. (k + 1) - 1 /\ i + 1 \in 0 .. k /\ i \in 0 .. k
            OBVIOUS
          <6>2. g[i + 1] = f[i][g[i]]
            BY <6>1
          <6> QED
            BY <6>1, <6>2
        <5> QED
          BY <5>1, <5>2
      <4>2. r[k] = g[k]
        OBVIOUS
      <4>3. g[k] = e[k]
        <5> HIDE DEF r, Upto
        <5>1. k <= m
          BY <3>1
        <5> QED
          BY <2>2, <4>1, <4>2, <5>1
      <4>4. k \in 0 .. (k + 1) - 1 /\ k \in 0 .. m - 1
        BY <3>1
      <4> QED
        BY <4>3, <4>4
    <3> HIDE DEF Upto
    <3> QED
      BY <3>1
  <2> HIDE DEF B
  <2> QED
    BY <2>1, <2>2, InductionOverSet
<1> DEFINE G == [k \in Nat |-> CHOOSE g \in Upto(k) : TRUE]
           g == [k \in Nat |-> G[k][k]]
<1>3. \A k \in Nat : G[k] \in Upto(k)
  BY <1>1
<1> HIDE DEF G
<1>4. g \in [Nat -> S] /\ g[0] = b
  BY <1>3
<1>5. ASSUME NEW k \in Nat PROVE g[k + 1] = f[k][g[k]]
  <2>1. G[k] \in Upto(k) /\ G[k + 1] \in Upto(k + 1)
    BY <1>3
  <2>2. G[k + 1][k] = G[k][k]
    <3> HIDE DEF Upto
    <3>1. k <= k + 1
      OBVIOUS
    <3> QED
      BY <1>2, <2>1, <3>1
  <2>3. k \in 0 .. (k + 1) - 1
    OBVIOUS
  <2>4. G[k + 1][k + 1] = f[k][G[k + 1][k]]
    BY <2>1, <2>3
  <2> QED
    BY <2>2, <2>4
<1> QED
  BY <1>4, <1>5 DEF Iterates

\* Division by F is determined by quotient and remainder.
LEMMA QuotientUnique ==
  ASSUME NEW F \in Nat, F > 0, NEW x \in Int, NEW q \in Int, NEW r \in Int,
         0 <= r, r < F, x = F * q + r
  PROVE  x \div F = q
<1> DEFINE p == x \div F
           s == x % F
<1>1. p \in Int /\ s \in Int /\ 0 <= s /\ s < F /\ x = F * p + s
  OBVIOUS
<1> HIDE DEF p, s
<1>2. CASE p < q
  <2>1. F * (p + 1) <= F * q
    BY <1>1, <1>2
  <2> QED
    BY <1>1, <2>1
<1>3. CASE q < p
  <2>1. F * (q + 1) <= F * p
    BY <1>1, <1>3
  <2> QED
    BY <1>1, <2>1
<1>4. p = q
  BY <1>1, <1>2, <1>3
<1> QED
  BY <1>4 DEF p

\* The number of multiples of F up to d, one depth after the other.
LEMMA NextMultiple ==
  ASSUME NEW F \in Nat, F > 0, NEW d \in Nat
  PROVE  /\ (d - 1 + F) \div F \in Nat
         /\ d % F = 0 => /\ (d + F) \div F = (d - 1 + F) \div F + 1
                         /\ d = ((d - 1 + F) \div F) * F
         /\ d % F # 0 => (d + F) \div F = (d - 1 + F) \div F
<1> DEFINE q == d \div F
           r == d % F
<1>1. q \in Int /\ r \in Int /\ 0 <= r /\ r < F /\ d = F * q + r
  OBVIOUS
<1>2. q >= 0
  <2>1. q < 0 => F * q <= F * (-1)
    BY <1>1
  <2> HIDE DEF q, r
  <2> QED
    BY <1>1, <2>1
<1> HIDE DEF q, r
<1>3. (d + F) \div F = q + 1
  <2>1. d + F = F * (q + 1) + r
    BY <1>1
  <2> QED
    BY <1>1, <2>1, QuotientUnique
<1>4. CASE r = 0
  <2>1. d - 1 + F = F * q + (F - 1) /\ F - 1 \in Int /\ 0 <= F - 1 /\ F - 1 < F
    BY <1>1, <1>4
  <2>2. (d - 1 + F) \div F = q
    BY <1>1, <2>1, QuotientUnique
  <2> QED
    BY <1>1, <1>2, <1>3, <1>4, <2>2 DEF r
<1>5. CASE r # 0
  <2>1. d - 1 + F = F * (q + 1) + (r - 1) /\ r - 1 \in Int /\ 0 <= r - 1 /\ r - 1 < F
    BY <1>1, <1>5
  <2>2. (d - 1 + F) \div F = q + 1
    BY <1>1, <2>1, QuotientUnique
  <2> QED
    BY <1>1, <1>2, <1>3, <1>5, <2>2 DEF r
<1> QED
  BY <1>4, <1>5

\* Induction up to a bound.
LEMMA InductionUpto ==
  ASSUME NEW N \in Nat, NEW S, 0 \in S, \A k \in 0 .. N - 1 : k \in S => k + 1 \in S
  PROVE  \A k \in 0 .. N : k \in S
<1> DEFINE A == {k \in Nat : k <= N => k \in S}
<1>1. 0 \in A
  OBVIOUS
<1>2. \A k \in Nat : k \in A => k + 1 \in A
  OBVIOUS
<1> HIDE DEF A
<1>3. \A k \in Nat : k \in A
  BY <1>1, <1>2, InductionOverSet
<1> QED
  BY <1>3 DEF A

\* g is the function on 0 .. N with first value b and steps f.
Recurs(N, S, b, f, g) ==
    g \in [0 .. N -> S] /\ g[0] = b /\ \A k \in 1 .. N : g[k] = f[k][g[k - 1]]

\* A function defined by recursion on 0 .. N, with values in S, exists.
LEMMA BoundedRecursion ==
  ASSUME NEW N \in Nat, NEW S, NEW b \in S, NEW f \in [1 .. N -> [S -> S]]
  PROVE  \E g : Recurs(N, S, b, f, g)
<1> DEFINE e == [k \in Nat |-> [x \in S |-> IF k + 1 <= N THEN f[k + 1][x] ELSE x]]
<1>1. e \in [Nat -> [S -> S]]
  OBVIOUS
<1>2. \A k \in 1 .. N : e[k - 1] = [x \in S |-> f[k][x]]
  OBVIOUS
<1> HIDE DEF e
<1>3. PICK h : Iterates(S, b, e, h)
  BY <1>1, RecursiveFunction
<1>4. h \in [Nat -> S] /\ h[0] = b /\ \A k \in Nat : h[k + 1] = e[k][h[k]]
  BY <1>3 DEF Iterates
<1> DEFINE g == [k \in 0 .. N |-> h[k]]
<1>5. g \in [0 .. N -> S] /\ g[0] = b
  BY <1>4
<1>6. ASSUME NEW k \in 1 .. N PROVE g[k] = f[k][g[k - 1]]
  <2>1. k - 1 \in Nat /\ (k - 1) + 1 = k /\ k - 1 \in 0 .. N /\ k \in 0 .. N
    OBVIOUS
  <2>2. h[k] = e[k - 1][h[k - 1]] /\ h[k - 1] \in S
    BY <1>4, <2>1
  <2> QED
    BY <1>2, <2>1, <2>2
<1> QED
  BY <1>5, <1>6 DEF Recurs
=============================================================================
