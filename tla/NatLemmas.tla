----------------------------- MODULE NatLemmas -----------------------------
(***************************************************************************)
(* Facts about natural numbers that stand in for induction: every nonempty *)
(* set of them has a least member, every bounded one a greatest, and       *)
(* what is defined by recursion exists.                                    *)
(***************************************************************************)
EXTENDS Integers, Sequences, FiniteSetsExt, FiniteSetTheorems, WellFoundedInduction, TLAPS

\* < is well founded on the natural numbers.
LEMMA LeastNumber ==
  ASSUME NEW T \in SUBSET Nat, T # {}
  PROVE  \E x \in T : \A y \in T : x <= y
<1> DEFINE R == {ss \in Nat \X Nat : ss[1] < ss[2]}
<1>1. IsWellFoundedOn(R, Nat)
  BY NatLessThanWellFounded DEF OpToRel
<1>2. \E x \in T : \A y \in T : ~(<<y, x>> \in R)
  BY <1>1, WFMin
<1>3. \A x, y \in Nat : ~(<<y, x>> \in R) => x <= y
  OBVIOUS
<1> QED BY <1>2, <1>3

\* The greatest member is the least bound.
LEMMA GreatestNumber ==
  ASSUME NEW T \in SUBSET Nat, T # {}, NEW b \in Nat, \A y \in T : y <= b
  PROVE  Max(T) \in T /\ \A y \in T : y <= Max(T)
<1> DEFINE B == {n \in Nat : \A y \in T : y <= n}
<1>1. PICK m \in B : \A n \in B : m <= n
  <2>1. b \in B /\ B \in SUBSET Nat
    OBVIOUS
  <2> HIDE DEF B
  <2> QED BY <2>1, LeastNumber
<1>2. m \in T
  <2>1. SUFFICES ASSUME m \notin T PROVE FALSE
    OBVIOUS
  <2>2. \A y \in T : y < m
    BY <1>1, <2>1
  <2>3. m > 0
    <3>1. PICK y \in T : y < m
      BY <2>2
    <3> QED BY <1>1, <3>1
  <2>4. m - 1 \in B
    BY <1>1, <2>2, <2>3
  <2>5. m <= m - 1
    BY <1>1, <2>4
  <2> QED BY <1>1, <2>5
<1>3. \A y \in T : m >= y
  BY <1>1
<1>4. Max(T) \in T /\ \A y \in T : Max(T) >= y
  BY <1>2, <1>3 DEF Max
<1> QED BY <1>4

\* Finitely many numbers are bounded.
LEMMA NumbersBounded ==
  ASSUME NEW n \in Nat, NEW s \in [1..n -> Nat]
  PROVE  \E b \in Nat : \A i \in 1..n : s[i] <= b
<1> DEFINE T == {k \in 0..n : ~\E b \in Nat : \A i \in 1..k : s[i] <= b}
<1>1. n \notin T
  <2>1. SUFFICES ASSUME T # {} PROVE FALSE
    OBVIOUS
  <2>2. PICK k \in T : \A j \in T : k <= j
    <3>1. T \in SUBSET Nat
      OBVIOUS
    <3> HIDE DEF T
    <3> QED BY <2>1, <3>1, LeastNumber
  <2>3. k # 0
    <3>1. \A i \in 1..0 : s[i] <= 0
      OBVIOUS
    <3> QED BY <2>2, <3>1
  <2>4. k - 1 \in 0..n /\ ~(k <= k - 1) /\ k \in 1..n
    BY <2>2, <2>3
  <2>5. PICK b \in Nat : \A i \in 1..k-1 : s[i] <= b
    BY <2>2, <2>4
  <2>6. \A i \in 1..k : s[i] <= b + s[k]
    <3>1. SUFFICES ASSUME NEW i \in 1..k PROVE s[i] <= b + s[k]
      OBVIOUS
    <3>2. i \in 1..n /\ s[i] \in Nat /\ s[k] \in Nat
      BY <2>4
    <3>3. CASE i = k
      BY <3>2, <3>3
    <3>4. CASE i # k
      <4>1. i \in 1..k-1
        BY <2>4, <3>4
      <4> QED BY <2>5, <3>2, <4>1
    <3> QED BY <3>3, <3>4
  <2>7. b + s[k] \in Nat
    BY <2>4
  <2> QED BY <2>2, <2>6, <2>7
<1> QED BY <1>1

\* The numbers of a sequence are bounded.
LEMMA SequenceBounded ==
  ASSUME NEW s \in Seq(Nat)
  PROVE  \E b \in Nat : \A i \in 1..Len(s) : s[i] <= b
<1>1. Len(s) \in Nat /\ s \in [1..Len(s) -> Nat]
  OBVIOUS
<1> QED BY <1>1, NumbersBounded

\* F starts with x and takes n steps of d, which may depend on their number.
Iterates(F, x, d, n, S) ==
  /\ F \in [0..n -> S] /\ F[0] = x
  /\ \A k \in 1..n : F[k] = d[<<k, F[k-1]>>]

\* What is defined by recursion from n to n - 1 exists: a definition
\* f[n \in 0..m] whose step is d has a solution.
LEMMA Iteration ==
  ASSUME NEW S, NEW x \in S, NEW m \in Nat, NEW d \in [(1..m) \X S -> S]
  PROVE  \E F : Iterates(F, x, d, m, S)
<1> DEFINE T == {k \in 0..m : ~\E F : Iterates(F, x, d, k, S)}
<1>1. SUFFICES ASSUME T # {} PROVE FALSE
  OBVIOUS
<1>2. PICK k \in T : \A i \in T : k <= i
  <2>1. T \in SUBSET Nat
    OBVIOUS
  <2> HIDE DEF T
  <2> QED BY <1>1, <2>1, LeastNumber
<1>3. k # 0
  <2>1. Iterates([i \in 0..0 |-> x], x, d, 0, S)
    BY DEF Iterates
  <2> QED BY <1>2, <2>1
<1>4. k - 1 \in 0..m /\ ~(k <= k - 1) /\ k \in 1..m
  BY <1>2, <1>3
<1>5. PICK H : Iterates(H, x, d, k - 1, S)
  BY <1>2, <1>4
<1> DEFINE G == [i \in 0..k |-> IF i = k THEN d[<<k, H[k-1]>>] ELSE H[i]]
<1>6. Iterates(G, x, d, k, S)
  <2>1. H \in [0..k-1 -> S] /\ H[0] = x /\ k - 1 \in 0..k-1
    BY <1>4, <1>5 DEF Iterates
  <2>2. d[<<k, H[k-1]>>] \in S
    BY <1>4, <2>1
  <2>3. \A i \in 0..k : i # k => i \in 0..k-1
    BY <1>4
  <2>4. G \in [0..k -> S]
    BY <2>1, <2>2, <2>3
  <2>5. G[0] = x
    BY <1>3, <1>4, <2>1
  <2>6. ASSUME NEW i \in 1..k PROVE G[i] = d[<<i, G[i-1]>>]
    <3>1. i - 1 \in 0..k /\ i - 1 # k /\ i \in 0..k
      BY <1>2
    <3>2. G[i-1] = H[i-1]
      BY <3>1
    <3>3. CASE i = k
      BY <3>1, <3>2, <3>3
    <3>4. CASE i # k
      <4>1. i \in 1..k-1
        BY <1>2, <3>4
      <4>2. H[i] = d[<<i, H[i-1]>>]
        BY <1>5, <4>1 DEF Iterates
      <4> QED BY <3>1, <3>2, <3>4, <4>2
    <3> QED BY <3>3, <3>4
  <2> HIDE DEF G
  <2> QED BY <2>4, <2>5, <2>6 DEF Iterates
<1> QED BY <1>2, <1>6

\* A product does not fall when a factor grows.
LEMMA TimesMonotone ==
  ASSUME NEW a \in Nat, NEW b \in Nat, NEW d \in Nat, a <= b
  PROVE  a * d <= b * d
<1>1. b * d = a * d + (b - a) * d
  OBVIOUS
<1>2. (b - a) * d >= 0
  OBVIOUS
<1> QED BY <1>1, <1>2

\* How often d fits into l is the quotient of the integers.
LEMMA FitsQuotient ==
  ASSUME NEW l \in Nat, NEW d \in Nat \ {0}, NEW m \in Nat
  PROVE  l \div d \in Nat /\ (m * d <= l <=> m <= l \div d)
<1> DEFINE q == l \div d
<1>1. q \in Nat /\ q * d <= l /\ l < (q + 1) * d
  OBVIOUS
<1> HIDE DEF q
<1>2. ASSUME m <= q PROVE m * d <= l
  <2>1. m * d <= q * d
    BY <1>1, <1>2, TimesMonotone
  <2>2. m * d \in Nat /\ q * d \in Nat
    BY <1>1
  <2> QED BY <1>1, <2>1, <2>2
<1>3. ASSUME q < m PROVE l < m * d
  <2>1. (q + 1) * d <= m * d
    <3>1. q + 1 \in Nat /\ q + 1 <= m /\ d \in Nat
      BY <1>1, <1>3
    <3> QED BY <3>1, TimesMonotone
  <2>2. m * d \in Nat /\ (q + 1) * d \in Nat
    BY <1>1
  <2> QED BY <1>1, <2>1, <2>2
<1>4. m * d \in Nat
  OBVIOUS
<1> QED BY <1>1, <1>2, <1>3, <1>4 DEF q

\* The quotient is the only multiple of d next below l.
LEMMA QuotientIs ==
  ASSUME NEW l \in Nat, NEW d \in Nat \ {0}
  PROVE  /\ l \div d \in Nat /\ l \div d <= l
         /\ (l \div d) * d <= l /\ l < (l \div d) * d + d
         /\ \A b \in Nat : b * d <= l /\ l < b * d + d => b = l \div d
<1> DEFINE q == l \div d
<1>1. q \in Nat /\ q * d <= l /\ l < q * d + d
  OBVIOUS
<1>2. q <= l
  <2>1. SUFFICES ASSUME q > l PROVE FALSE
    BY <1>1
  <2>2. (l + 1) * 1 <= (l + 1) * d
    OBVIOUS
  <2>3. (l + 1) * d <= q * d
    BY <1>1, <2>1, TimesMonotone
  <2> QED BY <1>1, <2>2, <2>3
<1>3. ASSUME NEW b \in Nat, b * d <= l, l < b * d + d PROVE b = q
  <2>1. b <= q
    BY <1>3, FitsQuotient
  <2>2. (b + 1) * d = b * d + d /\ b + 1 \in Nat
    OBVIOUS
  <2>3. ~((b + 1) * d <= l)
    BY <1>3, <2>2
  <2>4. ~(b + 1 <= q)
    BY <2>2, <2>3, FitsQuotient
  <2> QED BY <1>1, <2>1, <2>4
<1> QED BY <1>1, <1>2, <1>3

\* A number that is less than n away from a multiple of n is its remainder.
LEMMA RemainderIs ==
  ASSUME NEW n \in Nat \ {0}, NEW x \in Int
  PROVE  /\ x % n \in 0..n-1
         /\ \E q \in Int : x = n * q + (x % n)
         /\ \A q \in Int, r \in 0..n-1 : x = n * q + r => x % n = r
<1> DEFINE d == x \div n
           m == x % n
<1>1. d \in Int /\ m \in 0..n-1 /\ x = n * d + m
  OBVIOUS
<1> HIDE DEF d, m
<1>2. ASSUME NEW q \in Int, NEW r \in 0..n-1, x = n * q + r PROVE m = r
  <2>1. n * (q - d) = m - r
    <3>1. n * (q - d) = n * q - n * d
      BY <1>1
    <3>2. n * q \in Int /\ n * d \in Int
      BY <1>1
    <3> QED BY <1>1, <1>2, <3>1, <3>2
  <2>2. q - d \in Int /\ m - r < n /\ r - m < n
    BY <1>1
  <2>3. ASSUME NEW k \in Int, k > 0 PROVE n * k >= n
    <3>1. k - 1 \in Nat /\ n * (k - 1) >= 0 /\ n * k = n * (k - 1) + n
      BY <2>3
    <3> QED BY <3>1
  <2>4. CASE q - d > 0
    <3>1. n * (q - d) >= n
      BY <2>2, <2>3, <2>4
    <3> QED BY <1>1, <2>1, <2>2, <3>1
  <2>5. CASE d - q > 0
    <3>1. n * (d - q) >= n
      BY <1>1, <2>3, <2>5
    <3>2. n * (d - q) = r - m
      <4>1. \A a, b, c \in Int : a * (b - c) = -(a * (c - b))
        OBVIOUS
      <4>2. n * (d - q) = -(n * (q - d))
        BY <1>1, <4>1
      <4> QED BY <1>1, <2>1, <4>2
    <3> QED BY <1>1, <2>2, <3>1, <3>2
  <2>6. CASE q = d
    <3>1. n * (q - d) = 0
      BY <1>1, <2>6
    <3> QED BY <1>1, <2>1, <3>1
  <2> QED BY <1>1, <2>4, <2>5, <2>6
<1>3. \E q \in Int : x = n * q + m
  BY <1>1
<1>4. \A q \in Int, r \in 0..n-1 : x = n * q + r => m = r
  BY <1>2
<1> QED BY <1>1, <1>3, <1>4 DEF m

\* A relation that compares the members of a set with each other.
Compares(R, S) ==
  /\ \A x, y \in S : <<x, y>> \in R \/ <<y, x>> \in R
  /\ \A x, y, z \in S : <<x, y>> \in R /\ <<y, z>> \in R => <<x, z>> \in R

\* In a finite set one member comes before all others.
LEMMA FirstExists ==
  ASSUME NEW S, IsFiniteSet(S), S # {}, NEW R, Compares(R, S)
  PROVE  \E x \in S : \A y \in S : <<x, y>> \in R
<1> DEFINE HasFirst(U) == \E x \in U : \A y \in U : <<x, y>> \in R
           Bad == {U \in SUBSET S : U # {} /\ ~HasFirst(U)}
           T == {Cardinality(U) : U \in Bad}
<1>1. SUFFICES ASSUME S \in Bad PROVE FALSE
  OBVIOUS
<1>2. \A U \in SUBSET S : IsFiniteSet(U) /\ Cardinality(U) \in Nat
  BY FS_Subset, FS_CardinalityType
<1>3. PICK n \in T : \A k \in T : n <= k
  <2>1. T \in SUBSET Nat /\ T # {}
    BY <1>1, <1>2
  <2> HIDE DEF T
  <2> QED BY <2>1, LeastNumber
<1>4. PICK U \in Bad : n = Cardinality(U)
  BY <1>3
<1>5. PICK u : u \in U
  BY <1>4
<1> DEFINE V == U \ {u}
<1>6. Cardinality(V) < n /\ V \in SUBSET S
  <2>1. IsFiniteSet(U) /\ Cardinality(U) \in Nat
    BY <1>2, <1>4
  <2>2. Cardinality(U \ {u}) = Cardinality(U) - 1
    BY <1>5, <2>1, FS_RemoveElement
  <2> QED BY <1>4, <2>1, <2>2
<1>7. V \notin Bad
  <2>1. SUFFICES ASSUME V \in Bad PROVE FALSE
    OBVIOUS
  <2>2. Cardinality(V) \in T
    BY <2>1
  <2>3. n <= Cardinality(V) /\ Cardinality(V) \in Nat /\ n \in Nat
    BY <1>2, <1>3, <1>4, <1>6, <2>2
  <2> QED BY <1>6, <2>3
<1>8. CASE V = {}
  <2>1. U = {u} /\ <<u, u>> \in R
    BY <1>4, <1>5, <1>8 DEF Compares
  <2> QED BY <1>4, <2>1
<1>9. CASE V # {}
  <2>1. PICK x \in V : \A y \in V : <<x, y>> \in R
    BY <1>6, <1>7, <1>9
  <2>2. x \in U /\ U \subseteq S /\ \A y \in U : y = u \/ y \in V
    BY <1>4
  <2>3. CASE <<x, u>> \in R
    BY <1>4, <2>1, <2>2, <2>3
  <2>4. CASE <<u, x>> \in R
    <3>1. \A y \in V : <<u, y>> \in R
      BY <1>5, <2>1, <2>2, <2>4 DEF Compares
    <3>2. <<u, u>> \in R
      BY <1>5, <2>2 DEF Compares
    <3> QED BY <1>4, <1>5, <2>2, <3>1, <3>2
  <2> QED BY <1>5, <2>2, <2>3, <2>4 DEF Compares
<1> QED BY <1>8, <1>9
=============================================================================
