------------------------------- MODULE NatSets -------------------------------
(***************************************************************************)
(* Induction and recursion over the natural numbers, stated of sets and    *)
(* functions: the least element of a set, a set closed under successor,    *)
(* and the function that iterating a step defines.                         *)
(***************************************************************************)
EXTENDS Naturals, FiniteSets, FiniteSetTheorems, WellFoundedInduction, TLAPS

\* A nonempty set of natural numbers has a least element.
LEMMA LeastElement ==
    ASSUME NEW T, T \subseteq Nat, T # {}
    PROVE  \E m \in T : \A k \in T : m <= k
<1> DEFINE Below == {0..k : k \in T}
<1>1. Below \subseteq FiniteSubsetsOf(Nat)
  <2>1. ASSUME NEW k \in T PROVE 0..k \subseteq Nat /\ IsFiniteSet(0..k)
    BY FS_Interval
  <2> QED
    BY <2>1 DEF FiniteSubsetsOf
<1>2. IsWellFoundedOn(StrictSubsetOrdering(Nat), FiniteSubsetsOf(Nat))
  BY FS_StrictSubsetOrderingWellFounded
<1>3. Below # {}
  OBVIOUS
<1>4. PICK B \in Below : \A C \in Below : <<C, B>> \notin StrictSubsetOrdering(Nat)
  <2> HIDE DEF Below
  <2> QED
    BY <1>1, <1>2, <1>3, WFMin
<1>5. PICK m \in T : B = 0..m
  OBVIOUS
<1>6. ASSUME NEW k \in T, k < m PROVE FALSE
  <2>1. 0..k \subseteq 0..m /\ m \in 0..m /\ m \notin 0..k
    BY <1>6
  <2>2. 0..k \in SUBSET Nat /\ 0..m \in SUBSET Nat
    OBVIOUS
  <2>3. <<0..k, 0..m>> \in StrictSubsetOrdering(Nat)
    BY <2>1, <2>2 DEF StrictSubsetOrdering
  <2> QED
    BY <1>4, <1>5, <2>3
<1> QED
  BY <1>6

\* A set with 0 in it and the successor of each of its members is all of Nat.
LEMMA SetInduction ==
    ASSUME NEW T, 0 \in T, \A k \in Nat : k \in T => k + 1 \in T
    PROVE  Nat \subseteq T
<1> SUFFICES ASSUME Nat \ T # {} PROVE FALSE
  OBVIOUS
<1>1. PICK m \in Nat \ T : \A k \in Nat \ T : m <= k
  BY LeastElement
<1>2. m # 0 /\ m - 1 \in Nat
  OBVIOUS
<1>3. m - 1 \in T
  BY <1>1, <1>2
<1>4. (m - 1) + 1 \in T
  BY <1>2, <1>3
<1> QED
  BY <1>1, <1>4

\* The first k + 1 values of the iteration of f from a.
IterationsTo(S, f, a, k) ==
    {h \in [0..k -> S] : h[0] = a /\ \A i \in 0..k : i < k => h[i + 1] = f[h[i]]}

\* g[k] is what k applications of f make of a.
Iterates(g, f, a) == g[0] = a /\ \A k \in Nat : g[k + 1] = f[g[k]]

\* Iterating a function defines a function on the natural numbers.
LEMMA Iteration ==
    ASSUME NEW S, NEW f \in [S -> S], NEW a \in S
    PROVE  \E g \in [Nat -> S] : Iterates(g, f, a)
<1>1. \A k \in Nat : IterationsTo(S, f, a, k) # {}
  <2> DEFINE T == {k \in Nat : IterationsTo(S, f, a, k) # {}}
  <2>1. 0 \in T
    <3>1. [i \in 0..0 |-> a] \in IterationsTo(S, f, a, 0)
      BY DEF IterationsTo
    <3> QED
      BY <3>1
  <2>2. ASSUME NEW k \in Nat, k \in T PROVE k + 1 \in T
    <3>1. PICK h \in [0..k -> S] : h[0] = a /\ \A i \in 0..k : i < k => h[i + 1] = f[h[i]]
      BY <2>2 DEF IterationsTo
    <3> DEFINE h2 == [i \in 0..(k + 1) |-> IF i = k + 1 THEN f[h[k]] ELSE h[i]]
    <3>2. h2 \in [0..(k + 1) -> S] /\ h2[0] = a
      BY <3>1
    <3>3. ASSUME NEW i \in 0..(k + 1), i < k + 1 PROVE h2[i + 1] = f[h2[i]]
      BY <3>1, <3>3
    <3>4. h2 \in IterationsTo(S, f, a, k + 1)
      BY <3>2, <3>3 DEF IterationsTo
    <3> QED
      BY <3>4
  <2>3. Nat \subseteq T
    <3> HIDE DEF T
    <3> QED
      BY <2>1, <2>2, SetInduction
  <2> QED
    BY <2>3
<1>2. ASSUME NEW j \in Nat, NEW k \in Nat, NEW h \in IterationsTo(S, f, a, j),
             NEW e \in IterationsTo(S, f, a, k)
      PROVE  \A i \in Nat : i <= j /\ i <= k => h[i] = e[i]
  <2> DEFINE T == {i \in Nat : i <= j /\ i <= k => h[i] = e[i]}
  <2>1. 0 \in T
    BY DEF IterationsTo
  <2>2. ASSUME NEW i \in Nat, i \in T PROVE i + 1 \in T
    BY <2>2 DEF IterationsTo
  <2>3. Nat \subseteq T
    <3> HIDE DEF T
    <3> QED
      BY <2>1, <2>2, SetInduction
  <2> QED
    BY <2>3
<1> DEFINE e == [k \in Nat |-> CHOOSE h : h \in IterationsTo(S, f, a, k)]
           g == [k \in Nat |-> e[k][k]]
<1>3. \A k \in Nat : e[k] \in IterationsTo(S, f, a, k)
  BY <1>1
<1> HIDE DEF e
<1>4. g \in [Nat -> S]
  BY <1>3 DEF IterationsTo
<1>5. g[0] = a
  BY <1>3 DEF IterationsTo
<1>6. ASSUME NEW k \in Nat PROVE g[k + 1] = f[g[k]]
  <2>1. e[k + 1][k + 1] = f[e[k + 1][k]]
    BY <1>3 DEF IterationsTo
  <2>2. e[k + 1][k] = e[k][k]
    BY <1>2, <1>3
  <2> QED
    BY <2>1, <2>2
<1> QED
  BY <1>4, <1>5, <1>6 DEF Iterates

\* h[k] is what f makes, from a, of the first k arguments one after the other.
Accumulates(h, n, f, a) == h = [k \in 0..n |-> IF k = 0 THEN a ELSE f[<<h[k - 1], k>>]]

\* A value at 0 and what each next argument makes of the value before define a function.
LEMMA Accumulation ==
    ASSUME NEW S, NEW n \in Nat, NEW f \in [S \X (1..n) -> S], NEW a \in S
    PROVE  \E h \in [0..n -> S] : Accumulates(h, n, f, a)
<1> DEFINE step == [x \in S \X Nat |-> <<IF x[2] < n THEN f[<<x[1], x[2] + 1>>] ELSE x[1], x[2] + 1>>]
<1>1. step \in [S \X Nat -> S \X Nat]
  <2>1. ASSUME NEW v \in S, NEW k \in Nat
        PROVE  (IF k < n THEN f[<<v, k + 1>>] ELSE v) \in S
    <3>1. CASE k < n
      <4>1. k + 1 \in 1..n
        BY <3>1
      <4>2. <<v, k + 1>> \in S \X (1..n)
        BY <4>1
      <4> QED
        BY <3>1, <4>2
    <3> QED
      BY <3>1
  <2>2. ASSUME NEW x \in S \X Nat
        PROVE  <<IF x[2] < n THEN f[<<x[1], x[2] + 1>>] ELSE x[1], x[2] + 1>> \in S \X Nat
    <3>1. PICK v \in S, k \in Nat : x[1] = v /\ x[2] = k
      OBVIOUS
    <3>2. k + 1 \in Nat
      OBVIOUS
    <3> QED
      BY <2>1, <3>1, <3>2
  <2> QED
    BY ONLY <2>2
<1>2. \A v \in S, k \in Nat : step[<<v, k>>] = <<IF k < n THEN f[<<v, k + 1>>] ELSE v, k + 1>>
  OBVIOUS
<1> HIDE DEF step
<1>3. PICK g \in [Nat -> S \X Nat] : Iterates(g, step, <<a, 0>>)
  <2>1. <<a, 0>> \in S \X Nat
    OBVIOUS
  <2> QED
    BY <1>1, <2>1, Iteration
<1>4. \A k \in Nat : g[k][2] = k
  <2> DEFINE T == {k \in Nat : g[k][2] = k}
  <2>1. 0 \in T
    BY <1>3 DEF Iterates
  <2>2. ASSUME NEW k \in Nat, k \in T PROVE k + 1 \in T
    <3>1. PICK v \in S, m \in Nat : g[k] = <<v, m>>
      BY <1>3
    <3>2. m = k
      BY <2>2, <3>1
    <3>3. g[k + 1] = step[<<v, k>>]
      BY <1>3, <3>1, <3>2 DEF Iterates
    <3>4. PICK x : step[<<v, k>>] = <<x, k + 1>>
      BY <1>2
    <3> QED
      BY <3>3, <3>4
  <2>3. Nat \subseteq T
    <3> HIDE DEF T
    <3> QED
      BY <2>1, <2>2, SetInduction
  <2> QED
    BY <2>3
<1> DEFINE h == [k \in 0..n |-> g[k][1]]
<1>5. h \in [0..n -> S]
  <2>1. ASSUME NEW k \in 0..n PROVE g[k][1] \in S
    <3>1. g[k] \in S \X Nat
      BY <1>3
    <3> QED
      BY <3>1
  <2> QED
    BY <2>1
<1>6. ASSUME NEW k \in 0..n PROVE h[k] = IF k = 0 THEN a ELSE f[<<h[k - 1], k>>]
  <2>1. CASE k = 0
    BY <1>3, <2>1 DEF Iterates
  <2>2. CASE k # 0
    <3>1. PICK m \in Nat : m = k - 1 /\ m + 1 = k /\ m < n
      BY <2>2
    <3>2. PICK v \in S : g[m] = <<v, m>>
      BY <1>3, <1>4
    <3>3. g[k] = step[<<v, m>>]
      BY <1>3, <3>1, <3>2 DEF Iterates
    <3>4. g[k][1] = f[<<v, k>>]
      <4>1. step[<<v, m>>] = <<f[<<v, k>>], k>>
        BY <1>2, <3>1
      <4> QED
        BY <3>3, <4>1
    <3>5. h[k] = g[k][1] /\ h[k - 1] = v
      BY <3>1, <3>2
    <3> QED
      BY <2>2, <3>4, <3>5
  <2> QED
    BY <2>1, <2>2
<1> HIDE DEF h
<1>7. h = [k \in 0..n |-> IF k = 0 THEN a ELSE f[<<h[k - 1], k>>]]
  <2>1. h = [k \in 0..n |-> h[k]]
    BY <1>5
  <2> QED
    BY <1>6, <2>1
<1> QED
  BY <1>5, <1>7 DEF Accumulates

=============================================================================
