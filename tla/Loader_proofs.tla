---------------------------- MODULE Loader_proofs ----------------------------
(***************************************************************************)
(* For any memory, any files and any programs: every page and every chunk  *)
(* has one owner, the heap is sound, and a program starts inside its own   *)
(* image, whatever fails on the way.                                       *)
(*                                                                         *)
(* First the heap: what a finite sum comes to, the arithmetic of sizes,    *)
(* chunks as sets of bytes; the invariant HeapInv, and each way kmalloc    *)
(* and kfree can go.                                                       *)
(*                                                                         *)
(* Then the machine that runs them.  LoaderInv is inductive: it says which *)
(* of its locals exec_load has set at each point, which is what its error  *)
(* paths rely on.  PagesApart tells who has which pages in the form that   *)
(* steps keep; PagesTold gets PagesOwned from it.                          *)
(***************************************************************************)
EXTENDS Loader, NatSets

Pick(s) == CHOOSE x \in s : TRUE
\* h adds up f over the subsets of D.
Adds(h, f, D) ==
    \A s \in SUBSET D : h[s] = IF s = {} THEN 0 ELSE f[Pick(s)] + h[s \ {Pick(s)}]
UpTo(D, n) == {s \in SUBSET D : Cardinality(s) <= n}

\* Pick picks a member.
LEMMA PickIn == ASSUME NEW s, s # {} PROVE Pick(s) \in s
BY DEF Pick

\* There is a function that adds up f over every subset of a finite set.
LEMMA AdderExists ==
    ASSUME NEW D, IsFiniteSet(D), NEW f \in [D -> Nat]
    PROVE  \E h \in [SUBSET D -> Nat] : Adds(h, f, D)
<1> DEFINE Part(h, n) == \A s \in UpTo(D, n) :
                            h[s] = IF s = {} THEN 0 ELSE f[Pick(s)] + h[s \ {Pick(s)}]
<1> DEFINE T == {n \in Nat : \E h \in [UpTo(D, n) -> Nat] : Part(h, n)}
<1>0. \A s \in SUBSET D : IsFiniteSet(s) /\ Cardinality(s) \in Nat /\ (Cardinality(s) = 0 <=> s = {})
  BY FS_Subset, FS_CardinalityType, FS_EmptySet
<1>1. 0 \in T
  <2>1. UpTo(D, 0) = {{}}
    BY <1>0 DEF UpTo
  <2>2. [s \in UpTo(D, 0) |-> 0] \in [UpTo(D, 0) -> Nat]
    OBVIOUS
  <2>3. Part([s \in UpTo(D, 0) |-> 0], 0)
    BY <2>1
  <2> QED
    BY <2>2, <2>3
<1>2. ASSUME NEW n \in Nat, n \in T PROVE n + 1 \in T
  <2>1. PICK h \in [UpTo(D, n) -> Nat] : Part(h, n)
    BY <1>2
  <2> DEFINE g == [s \in UpTo(D, n + 1) |->
                     IF s = {} THEN 0 ELSE f[Pick(s)] + h[s \ {Pick(s)}]]
  <2>2. ASSUME NEW s \in UpTo(D, n + 1), s # {}
        PROVE  s \ {Pick(s)} \in UpTo(D, n) /\ Pick(s) \in D
    <3>1. Cardinality(s) <= n + 1 /\ s \in SUBSET D /\ Cardinality(s) \in Nat /\ IsFiniteSet(s)
      BY <1>0 DEF UpTo
    <3>2. Pick(s) \in s
      BY <2>2, PickIn
    <3>3. Cardinality(s \ {Pick(s)}) = Cardinality(s) - 1
      BY <3>1, <3>2, FS_RemoveElement
    <3> QED
      BY <3>1, <3>2, <3>3 DEF UpTo
  <2>3. g \in [UpTo(D, n + 1) -> Nat]
    BY <2>2
  <2>4. \A s \in UpTo(D, n) : s \in UpTo(D, n + 1) /\ g[s] = h[s]
    <3>1. \A s \in UpTo(D, n) : s \in UpTo(D, n + 1)
      BY <1>0 DEF UpTo
    <3> QED
      BY <2>1, <3>1
  <2>5. Part(g, n + 1)
    BY <2>2, <2>4
  <2> HIDE DEF g
  <2>6. \E e \in [UpTo(D, n + 1) -> Nat] : Part(e, n + 1)
    BY <2>3, <2>5
  <2>7. n + 1 \in Nat
    OBVIOUS
  <2> HIDE DEF Part
  <2> QED
    BY <2>6, <2>7
<1>3. Nat \subseteq T
  <2> HIDE DEF T
  <2> QED
    BY <1>1, <1>2, SetInduction
<1>4. Cardinality(D) \in T /\ UpTo(D, Cardinality(D)) = SUBSET D
  <2>1. Cardinality(D) \in Nat
    BY FS_CardinalityType
  <2>2. \A s \in SUBSET D : Cardinality(s) <= Cardinality(D)
    BY FS_Subset
  <2> QED
    BY <1>3, <2>1, <2>2 DEF UpTo
<1> QED
  BY <1>4 DEF Adds

\* What the community module's definition comes to.
LEMMA SumUnfolds ==
    ASSUME NEW f, IsFiniteSet(DOMAIN f), f \in [DOMAIN f -> Nat]
    PROVE  \E h : Adds(h, f, DOMAIN f) /\ SumFunction(f) = h[DOMAIN f]
<1> DEFINE D == DOMAIN f
<1> DEFINE Rec(h) == h = [s \in SUBSET D |-> IF s = {} THEN 0 ELSE f[Pick(s)] + h[s \ {Pick(s)}]]
<1>1. PICK h \in [SUBSET D -> Nat] : Adds(h, f, D)
  BY AdderExists
<1>2. Rec(h)
  BY <1>1 DEF Adds
<1>3. Rec(CHOOSE g : Rec(g))
  BY <1>2
<1>4. SumFunction(f) = (CHOOSE g : Rec(g))[D]
  BY DEF SumFunction, SumFunctionOnSet, FoldFunctionOnSet, MapThenFoldSet, Pick
<1>5. Adds(CHOOSE g : Rec(g), f, D)
  <2> DEFINE c == CHOOSE g : Rec(g)
  <2>1. c = [s \in SUBSET D |-> IF s = {} THEN 0 ELSE f[Pick(s)] + c[s \ {Pick(s)}]]
    BY <1>3
  <2> HIDE DEF c
  <2> QED
    BY <2>1 DEF Adds
<1> QED
  BY <1>4, <1>5

\* The order in which a sum is taken does not matter.
LEMMA AddsAny ==
    ASSUME NEW D, IsFiniteSet(D), NEW f \in [D -> Nat], NEW h, Adds(h, f, D)
    PROVE  \A s \in SUBSET D : /\ h[s] \in Nat
                               /\ \A x \in s : h[s] = f[x] + h[s \ {x}]
<1> DEFINE OK(s) == h[s] \in Nat /\ \A x \in s : h[s] = f[x] + h[s \ {x}]
<1> DEFINE T == {n \in Nat : \A s \in UpTo(D, n) : OK(s)}
<1>0. \A s \in SUBSET D : IsFiniteSet(s) /\ Cardinality(s) \in Nat /\ (Cardinality(s) = 0 <=> s = {})
  BY FS_Subset, FS_CardinalityType, FS_EmptySet
<1>1. 0 \in T
  <2>1. h[{}] = 0
    BY DEF Adds
  <2>2. \A s \in UpTo(D, 0) : s = {}
    BY <1>0 DEF UpTo
  <2>3. OK({})
    BY <2>1
  <2>4. \A s \in UpTo(D, 0) : OK(s)
    <3> HIDE DEF OK
    <3> QED
      BY <2>2, <2>3
  <2> HIDE DEF OK
  <2> QED
    BY <2>4
<1>2. ASSUME NEW n \in Nat, n \in T PROVE n + 1 \in T
  <2>1. ASSUME NEW s \in UpTo(D, n + 1), NEW x \in s
        PROVE  s \ {x} \in UpTo(D, n) /\ x \in D
    <3>1. Cardinality(s) <= n + 1 /\ s \in SUBSET D /\ Cardinality(s) \in Nat /\ IsFiniteSet(s)
      BY <1>0 DEF UpTo
    <3>2. Cardinality(s \ {x}) = Cardinality(s) - 1
      BY <3>1, FS_RemoveElement
    <3> QED
      BY <3>1, <3>2 DEF UpTo
  <2>2. ASSUME NEW s \in UpTo(D, n + 1) PROVE OK(s)
    <3>1. CASE s = {}
      <4>1. h[{}] = 0
        BY DEF Adds
      <4> QED
        BY <3>1, <4>1
    <3>2. CASE s # {}
      <4> DEFINE y == Pick(s)
      <4>1. y \in s /\ s \in SUBSET D
        BY <3>2, PickIn DEF UpTo
      <4>2. h[s] = f[y] + h[s \ {y}]
        BY <3>2, <4>1 DEF Adds
      <4> HIDE DEF y
      <4>3. \A x \in s : f[x] \in Nat /\ OK(s \ {x})
        BY <1>2, <2>1
      <4>4. h[s] \in Nat
        <5>1. f[y] \in Nat /\ h[s \ {y}] \in Nat
          BY <4>1, <4>3
        <5> QED
          BY <4>2, <5>1
      <4>5. ASSUME NEW x \in s PROVE h[s] = f[x] + h[s \ {x}]
        <5>1. CASE x = y
          BY <4>2, <5>1
        <5>2. CASE x # y
          <6>1. x \in s \ {y} /\ y \in s \ {x} /\ (s \ {y}) \ {x} = (s \ {x}) \ {y}
            BY <4>1, <5>2
          <6>2. h[s \ {y}] = f[x] + h[(s \ {y}) \ {x}] /\ h[s \ {x}] = f[y] + h[(s \ {x}) \ {y}]
            BY <4>1, <4>3, <6>1
          <6>3. h[(s \ {x}) \ {y}] \in Nat
            <7>1. s \ {x} \in UpTo(D, n + 1)
              BY <2>1, <1>0 DEF UpTo
            <7>2. (s \ {x}) \ {y} \in UpTo(D, n)
              BY <2>1, <6>1, <7>1
            <7> QED
              BY <1>2, <7>2
          <6> QED
            <7>1. f[x] \in Nat /\ f[y] \in Nat
              BY <4>1, <4>3
            <7>2. h[s] = f[y] + (f[x] + h[(s \ {x}) \ {y}])
              BY <4>2, <6>1, <6>2
            <7> QED
              BY <6>2, <6>3, <7>1, <7>2
        <5> QED
          BY <5>1, <5>2
      <4> QED
        BY <4>4, <4>5
    <3> QED
      BY <3>1, <3>2
  <2> QED
    BY <2>2
<1>3. Nat \subseteq T
  <2> HIDE DEF T
  <2> QED
    BY <1>1, <1>2, SetInduction
<1>4. ASSUME NEW s \in SUBSET D PROVE s \in UpTo(D, Cardinality(s)) /\ Cardinality(s) \in T
  BY <1>0, <1>3 DEF UpTo
<1> QED
  BY <1>4

\* Two such functions agree where what they add up agrees.
LEMMA AddsOnce ==
    ASSUME NEW D, NEW E, IsFiniteSet(D), IsFiniteSet(E), NEW f \in [D -> Nat], NEW g \in [E -> Nat],
           NEW h, NEW k, Adds(h, f, D), Adds(k, g, E),
           NEW S, S \subseteq D, S \subseteq E, \A x \in S : f[x] = g[x]
    PROVE  h[S] = k[S]
<1> DEFINE T == {n \in Nat : \A s \in UpTo(S, n) : h[s] = k[s]}
<1>0. IsFiniteSet(S) /\ \A s \in SUBSET S : /\ IsFiniteSet(s) /\ Cardinality(s) \in Nat
                                            /\ (Cardinality(s) = 0 <=> s = {})
  BY FS_Subset, FS_CardinalityType, FS_EmptySet
<1>1. 0 \in T
  <2>1. h[{}] = 0 /\ k[{}] = 0
    BY DEF Adds
  <2>2. \A s \in UpTo(S, 0) : s = {}
    BY <1>0 DEF UpTo
  <2> QED
    BY <2>1, <2>2
<1>2. ASSUME NEW n \in Nat, n \in T PROVE n + 1 \in T
  <2>1. ASSUME NEW s \in UpTo(S, n + 1) PROVE h[s] = k[s]
    <3>0. s \in SUBSET S /\ s \in SUBSET D /\ s \in SUBSET E /\ Cardinality(s) <= n + 1
      BY DEF UpTo
    <3>1. CASE s = {}
      BY <3>1 DEF Adds
    <3>2. CASE s # {}
      <4>1. PICK x \in s : TRUE
        BY <3>2
      <4>2. h[s] = f[x] + h[s \ {x}] /\ k[s] = g[x] + k[s \ {x}]
        <5>1. h[s] = f[x] + h[s \ {x}]
          BY <3>0, AddsAny
        <5>2. k[s] = g[x] + k[s \ {x}]
          BY <3>0, AddsAny
        <5> QED
          BY <5>1, <5>2
      <4>3. s \ {x} \in UpTo(S, n)
        <5>1. Cardinality(s \ {x}) = Cardinality(s) - 1
          BY <1>0, <3>0, FS_RemoveElement
        <5> QED
          BY <1>0, <3>0, <5>1 DEF UpTo
      <4> QED
        BY <1>2, <3>0, <4>2, <4>3
    <3> QED
      BY <3>1, <3>2
  <2> QED
    BY <2>1
<1>3. Nat \subseteq T
  <2> HIDE DEF T
  <2> QED
    BY <1>1, <1>2, SetInduction
<1> QED
  BY <1>0, <1>3 DEF UpTo

\* A sum without its terms, with one more, and with one fewer.
LEMMA SumEmpty == ASSUME NEW f, DOMAIN f = {} PROVE SumFunction(f) = 0
<1>1. f \in [DOMAIN f -> Nat]
  OBVIOUS
<1>2. PICK h : Adds(h, f, DOMAIN f) /\ SumFunction(f) = h[DOMAIN f]
  BY <1>1, SumUnfolds, FS_EmptySet
<1> QED
  BY <1>2 DEF Adds

\* A sum of natural numbers is one.
LEMMA SumNat ==
    ASSUME NEW f, IsFiniteSet(DOMAIN f), f \in [DOMAIN f -> Nat]
    PROVE  SumFunction(f) \in Nat
<1>1. PICK h : Adds(h, f, DOMAIN f) /\ SumFunction(f) = h[DOMAIN f]
  BY SumUnfolds
<1> QED
  BY <1>1, AddsAny

OneMore(f, g, D, E, x) ==
    /\ IsFiniteSet(D) /\ x \notin D /\ E = D \cup {x} /\ f \in [D -> Nat] /\ g \in [E -> Nat]
    /\ \A y \in D : g[y] = f[y]

\* One term more adds its value to the sum.
LEMMA SumMore ==
    ASSUME NEW D, NEW E, NEW f, NEW x, NEW g, OneMore(f, g, D, E, x)
    PROVE  SumFunction(g) = SumFunction(f) + g[x]
<1>0. /\ IsFiniteSet(D) /\ x \notin D /\ E = D \cup {x} /\ f \in [D -> Nat] /\ g \in [E -> Nat]
      /\ \A y \in D : g[y] = f[y]
  BY DEF OneMore
<1>1. IsFiniteSet(E) /\ DOMAIN f = D /\ DOMAIN g = E
  BY <1>0, FS_AddElement
<1>2. PICK h : Adds(h, f, D) /\ SumFunction(f) = h[D]
  BY <1>0, <1>1, SumUnfolds
<1>3. PICK k : Adds(k, g, E) /\ SumFunction(g) = k[E]
  BY <1>0, <1>1, SumUnfolds
<1>4. h[D] = k[D]
  BY <1>0, <1>1, <1>2, <1>3, AddsOnce
<1>5. E \ {x} = D /\ x \in E /\ E \in SUBSET E /\ D \in SUBSET E
  BY <1>0
<1>6. \A s \in SUBSET E : k[s] \in Nat /\ \A y \in s : k[s] = g[y] + k[s \ {y}]
  <2>1. IsFiniteSet(E) /\ g \in [E -> Nat] /\ Adds(k, g, E)
    BY <1>0, <1>1, <1>3
  <2> QED
    BY ONLY <2>1, AddsAny
<1>7. k[E] = g[x] + k[D] /\ k[D] \in Nat /\ g[x] \in Nat
  BY <1>0, <1>5, <1>6
<1>8. SumFunction(g) = g[x] + k[D] /\ SumFunction(f) = k[D]
  BY <1>2, <1>3, <1>4, <1>7
<1> QED
  BY <1>7, <1>8

\* Quotient and remainder.
LEMMA DivMod ==
    ASSUME NEW n \in Nat, NEW d \in Nat \ {0}
    PROVE  /\ n = d * (n \div d) + (n % d)
           /\ n % d \in 0..(d - 1) /\ n \div d \in Nat
OBVIOUS

\* A number with no remainder is a multiple.
LEMMA Multiples ==
    ASSUME NEW n \in Nat, NEW d \in Nat \ {0}
    PROVE  n % d = 0 <=> \E k \in Nat : n = d * k
<1>1. n % d = 0 => n = d * (n \div d) /\ n \div d \in Nat
  BY DivMod
<1>2. ASSUME NEW k \in Nat, n = d * k PROVE n % d = 0
  <2> DEFINE q == n \div d
  <2> DEFINE r == n % d
  <2>1. n = d * q + r /\ r \in 0..(d - 1) /\ q \in Nat
    BY DivMod
  <2> HIDE DEF q, r
  <2>2. d * (k - q) = r
    BY <1>2, <2>1
  <2>3. CASE k - q >= 1
    <3>1. d * (k - q) >= d
      BY <2>1, <2>3
    <3> QED
      BY <2>1, <2>2, <3>1
  <2>4. CASE k - q <= -1
    <3>1. d * (k - q) <= 0 - d
      BY <2>1, <2>4
    <3> QED
      BY <2>1, <2>2, <3>1
  <2>5. CASE k - q = 0
    BY <2>1, <2>2, <2>5
  <2>6. r = 0
    BY <2>1, <2>3, <2>4, <2>5
  <2> QED
    BY <2>6 DEF r
<1> QED
  BY <1>1, <1>2

\* Sums and differences of multiples are multiples.
LEMMA AddMultiples ==
    ASSUME NEW m \in Nat, NEW n \in Nat, NEW d \in Nat \ {0}, m % d = 0, n % d = 0
    PROVE  /\ (m + n) % d = 0
           /\ n <= m => (m - n) % d = 0
<1>1. PICK i \in Nat, j \in Nat : m = d * i /\ n = d * j
  BY Multiples
<1>2. m + n = d * (i + j) /\ m - n = d * (i - j)
  BY <1>1
<1>3. (m + n) % d = 0
  <2>1. m + n \in Nat /\ i + j \in Nat
    OBVIOUS
  <2> QED
    BY <1>2, <2>1, Multiples
<1>4. ASSUME n <= m PROVE (m - n) % d = 0
  <2>1. i - j \in Nat
    <3>1. ASSUME i < j PROVE FALSE
      <4>1. d * (j - i) >= d
        BY <3>1
      <4> QED
        BY <1>1, <1>4, <4>1
    <3> QED
      BY <3>1
  <2>2. m - n \in Nat
    BY <1>4
  <2> QED
    BY <1>2, <2>1, <2>2, Multiples
<1> QED
  BY <1>3, <1>4

\* So is any number of times a multiple.
LEMMA ScaleMultiple ==
    ASSUME NEW m \in Nat, NEW n \in Nat, NEW d \in Nat \ {0}, n % d = 0
    PROVE  (m * n) % d = 0 /\ m * n \in Nat
<1>1. PICK j \in Nat : n = d * j
  BY Multiples
<1>2. m * n = d * (m * j) /\ m * j \in Nat /\ m * n \in Nat
  BY <1>1
<1> QED
  BY <1>2, Multiples

\* Rounding up and down.
LEMMA RoundsDown ==
    ASSUME NEW n \in Nat, NEW d \in Nat \ {0}
    PROVE  /\ (n \div d) * d \in Nat /\ (n \div d) * d <= n /\ n < (n \div d) * d + d
           /\ ((n \div d) * d) % d = 0 /\ n \div d \in Nat
<1> DEFINE q == n \div d
<1>1. n = d * q + (n % d) /\ n % d \in 0..(d - 1) /\ q \in Nat
  BY DivMod
<1> HIDE DEF q
<1>2. q * d = d * q /\ q * d \in Nat
  BY <1>1
<1>3. (q * d) % d = 0
  BY <1>1, <1>2, Multiples
<1> QED
  BY <1>1, <1>2, <1>3 DEF q

\* More pages are more bytes.
LEMMA Monotone ==
    ASSUME NEW m \in Nat, NEW n \in Nat, NEW d \in Nat, m <= n
    PROVE  m * d <= n * d /\ m * d \in Nat /\ n * d \in Nat /\ (n - m) * d = n * d - m * d
OBVIOUS

-----------------------------------------------------------------------------
\* What the sizes come to.
LEMMA SizeFacts ==
    /\ Pages \in Nat /\ PageSize \in Nat /\ PageSize >= 1 /\ Align \in Nat \ {0}
    /\ HeaderSize \in Nat /\ HeaderSize >= 1 /\ BlkHeader = Align
    /\ HashSize \in Nat /\ HeaderSize < HashSize /\ Word \in Nat \ {0} /\ GrowPages \in Nat /\ MaxUsed \in Nat
    /\ PageSize % Align = 0 /\ HeaderSize % Align = 0 /\ HashSize % Align = 0 /\ Word % Align = 0
    /\ BlkHeader % Align = 0
    /\ GrowPages * PageSize \in Nat /\ HashSize + HeaderSize + BlkHeader <= GrowPages * PageSize
    /\ \A s \in Requests : s \in Nat /\ s < Word
<1>1. /\ Pages \in Nat /\ PageSize \in Nat /\ PageSize >= 1 /\ Align \in Nat \ {0}
      /\ HeaderSize \in Nat /\ HeaderSize >= 1 /\ HashSize \in Nat /\ Word \in Nat \ {0}
      /\ GrowPages \in Nat /\ MaxUsed \in Nat
  BY SizeAssumption
<1>2. GrowPages * PageSize \in Nat
  BY <1>1
<1> QED
  BY <1>1, <1>2, SizeAssumption

\* A rounded size is a multiple of the alignment and covers the request, unless it wraps.
LEMMA RoundedFacts ==
    ASSUME NEW s \in Nat
    PROVE  /\ Rounded(s) \in Nat /\ Rounded(s) % Align = 0 /\ Rounded(s) <= Word - Align
           /\ s >= 1 /\ s + HeaderSize + Align - 1 < Word => Rounded(s) >= s + HeaderSize
<1> DEFINE x == s + HeaderSize + Align - 1
<1> DEFINE y == x % Word
<1>0. x \in Nat /\ Word \in Nat \ {0} /\ Align \in Nat \ {0} /\ Word % Align = 0
  BY SizeFacts
<1>1. y \in 0..(Word - 1) /\ x = Word * (x \div Word) + y /\ x \div Word \in Nat
  BY <1>0, DivMod
<1>2. Rounded(s) = (y \div Align) * Align
  BY DEF Rounded
<1>3. x < Word => y = x
  <2> HIDE DEF x
  <2> SUFFICES ASSUME x < Word PROVE y = x
    OBVIOUS
  <2> QED
    BY <1>0
<1>4. Rounded(s) \in Nat /\ Rounded(s) <= y /\ y < Rounded(s) + Align /\ Rounded(s) % Align = 0
  <2> HIDE DEF x, y
  <2>1. y \in Nat
    BY <1>1
  <2> QED
    BY <1>0, <1>2, <2>1, RoundsDown
<1>5. Rounded(s) <= Word - Align
  <2> HIDE DEF x, y
  <2>1. Rounded(s) < Word
    BY <1>0, <1>1, <1>4
  <2>5. PICK i \in Nat : Rounded(s) = Align * i
    BY <1>0, <1>4, Multiples
  <2>6. PICK j \in Nat : Word = Align * j
    BY <1>0, Multiples
  <2>2. Rounded(s) = Align * i /\ Word = Align * j
    BY <2>5, <2>6
  <2>3. i < j
    <3>1. ASSUME j <= i PROVE FALSE
      <4>1. Align * j <= Align * i
        BY <1>0, <3>1
      <4> QED
        BY <1>0, <2>1, <2>2, <4>1
    <3> QED
      BY <3>1
  <2>4. Align * (i + 1) <= Align * j /\ Align * (i + 1) = Align * i + Align
    BY <1>0, <2>3
  <2> QED
    BY <1>0, <2>2, <2>4
<1>6. ASSUME s >= 1, x < Word PROVE Rounded(s) >= s + HeaderSize
  <2>1. x < Rounded(s) + Align
    BY <1>3, <1>4, <1>6
  <2> QED
    BY <1>4, <2>1, SizeFacts
<1> QED
  BY <1>4, <1>5, <1>6

\* What kmalloc sets aside: aligned, room for a header, and enough unless it wraps.
LEMMA TotalFacts ==
    ASSUME NEW size \in Requests
    PROVE  /\ Total(size) \in Nat /\ Total(size) % Align = 0 /\ Total(size) >= HeaderSize
           /\ Total(size) >= 1
           /\ size + HeaderSize + Align - 1 < Word => Total(size) - HeaderSize >= size
           /\ ~Small(Total(size)) => Total(size) <= Word - Align
<1> DEFINE s == IF size = 0 THEN 1 ELSE size
<1>1. s \in Nat /\ s >= 1 /\ size \in Nat /\ (size = 0 \/ s = size)
  BY SizeFacts
<1>2. Total(size) = IF Rounded(s) < HeaderSize THEN HeaderSize ELSE Rounded(s)
  BY DEF Total
<1> HIDE DEF s
<1>3. /\ Rounded(s) \in Nat /\ Rounded(s) % Align = 0 /\ Rounded(s) <= Word - Align
      /\ s + HeaderSize + Align - 1 < Word => Rounded(s) >= s + HeaderSize
  BY <1>1, RoundedFacts
<1> QED
  BY <1>1, <1>2, <1>3, SizeFacts DEF Small

\* A large chunk gets at least what it needs, or the sum wraps and there is no run.
LEMMA PagesForFacts ==
    ASSUME NEW total \in Nat, total <= Word - Align
    PROVE  /\ PagesFor(total) \in Nat
           /\ PagesFor(total) >= 1 => PagesFor(total) * PageSize >= total + BlkHeader
<1> DEFINE z == total + BlkHeader + PageSize - 1
<1> DEFINE r == z % Word
<1>0. z \in Nat /\ Word \in Nat \ {0} /\ PageSize \in Nat \ {0} /\ Align \in Nat /\ BlkHeader = Align
  BY SizeFacts
<1>1. r \in 0..(Word - 1) /\ z = Word * (z \div Word) + r /\ z \div Word \in Nat
  BY <1>0, DivMod
<1>2. PagesFor(total) = r \div PageSize
  BY DEF PagesFor
<1>3. /\ r \in Nat /\ PagesFor(total) \in Nat /\ PagesFor(total) * PageSize <= r
      /\ r < PagesFor(total) * PageSize + PageSize /\ PagesFor(total) * PageSize \in Nat
  <2>1. r \in Nat
    BY <1>1
  <2> HIDE DEF r
  <2> QED
    BY <1>0, <1>2, <2>1, RoundsDown
<1>4. CASE z < Word
  <2>1. r = z
    BY <1>0, <1>4
  <2> QED
    BY <1>0, <1>3, <2>1
<1>5. CASE z >= Word
  <2> HIDE DEF z, r
  <2>1. r <= z - Word
    <3> DEFINE q == z \div Word
    <3>1. q \in Nat /\ z = Word * q + r
      BY <1>1
    <3> HIDE DEF q
    <3>2. q >= 1
      <4>1. q = 0 => z = r
        BY <1>0, <1>1, <3>1
      <4> QED
        BY <1>0, <1>1, <1>5, <3>1, <4>1
    <3>3. Word * q >= Word
      BY <1>0, <3>1, <3>2
    <3> QED
      BY <1>0, <1>1, <3>1, <3>3
  <2>2. r < PageSize
    BY <1>0, <1>3, <2>1 DEF z
  <2>3. PagesFor(total) >= 1 => PagesFor(total) * PageSize >= PageSize
    BY <1>0, <1>3
  <2> QED
    BY <1>0, <1>3, <2>2, <2>3
<1> QED
  BY <1>0, <1>3, <1>4, <1>5

\* A new block for small chunks has room for the chunk and a mem_unused_t beside it.
LEMMA GrowFacts ==
    ASSUME NEW total \in Nat, total >= 1, Small(total),
           NEW n, n = (total + GrowPages * PageSize - 1) \div PageSize
    PROVE  /\ n \in Nat /\ n * PageSize \in Nat
           /\ n * PageSize - BlkHeader >= HashSize
           /\ n * PageSize - BlkHeader - total >= HeaderSize
<1>1. /\ GrowPages * PageSize \in Nat /\ PageSize \in Nat \ {0} /\ GrowPages \in Nat
      /\ total + GrowPages * PageSize - 1 \in Nat /\ total < HashSize
      /\ HashSize + HeaderSize + BlkHeader <= GrowPages * PageSize
  BY SizeFacts DEF Small
<1>2. n \in Nat /\ n * PageSize \in Nat /\ total + GrowPages * PageSize - 1 < n * PageSize + PageSize
  <2> DEFINE x == total + GrowPages * PageSize - 1
  <2> HIDE DEF x
  <2>1. x \in Nat /\ n = x \div PageSize
    BY <1>1 DEF x
  <2> QED
    BY <1>1, <2>1, RoundsDown DEF x
<1>3. n >= GrowPages
  <2>1. ASSUME n <= GrowPages - 1 PROVE FALSE
    <3>1. n * PageSize <= (GrowPages - 1) * PageSize
          /\ (GrowPages - 1) * PageSize = GrowPages * PageSize - PageSize
      BY <1>1, <1>2, <2>1
    <3> QED
      BY <1>1, <1>2, <3>1
  <2> QED
    BY <1>1, <1>2, <2>1
<1>4. n * PageSize >= GrowPages * PageSize
  BY <1>1, <1>2, <1>3
<1> QED
  BY <1>1, <1>2, <1>4, SizeFacts

-----------------------------------------------------------------------------
\* Chunks and the rooms of the blocks as sets of bytes.
Room(b) == Body(b.first, b.pags)
Block == [first : 0..(Pages - 1), pags : 1..Pages]
Apart(C) == \A c, d \in C : c # d => Bytes(c) \cap Bytes(d) = {}
Covers(C, B) == UNION {Bytes(c) : c \in C} = UNION {Bytes(Room(b)) : b \in B}

\* A chunk is its address and its size, and holds at least one byte.
LEMMA ChunkFacts ==
    ASSUME NEW c \in Chunk
    PROVE  /\ c.at \in Nat /\ c.size \in Nat /\ c.size >= 1 /\ c = [at |-> c.at, size |-> c.size]
           /\ c.at \in Bytes(c)
           /\ \A x : x \in Bytes(c) <=> x \in Nat /\ c.at <= x /\ x < c.at + c.size
<1>1. c.at \in Nat /\ c.size \in Nat /\ c.size >= 1 /\ c = [at |-> c.at, size |-> c.size]
  BY SizeFacts DEF Chunk, Address
<1> QED
  BY <1>1 DEF Bytes

\* A chunk cut in two.
IsCut(c, p, q) == Bytes(p) \cup Bytes(q) = Bytes(c) /\ Bytes(p) \cap Bytes(q) = {}

LEMMA SplitApart ==
    ASSUME NEW C, C \subseteq Chunk, NEW c \in C, NEW p \in Chunk, NEW q \in Chunk, NEW B,
           IsCut(c, p, q), Apart(C), Covers(C, B)
    PROVE  /\ Apart((C \ {c}) \cup {p, q}) /\ Covers((C \ {c}) \cup {p, q}, B)
           /\ p \notin C \ {c} /\ q \notin C \ {c} /\ p # q
<1>1. Bytes(p) # {} /\ Bytes(q) # {} /\ Bytes(p) \subseteq Bytes(c) /\ Bytes(q) \subseteq Bytes(c)
  BY ChunkFacts DEF IsCut
<1>2. \A d \in C \ {c} : Bytes(d) \cap Bytes(c) = {} /\ d # p /\ d # q
  BY <1>1 DEF Apart
<1>3. Apart((C \ {c}) \cup {p, q})
  BY <1>1, <1>2 DEF Apart, IsCut
<1>4. UNION {Bytes(d) : d \in (C \ {c}) \cup {p, q}} = UNION {Bytes(d) : d \in C}
  BY DEF IsCut
<1> QED
  BY <1>1, <1>2, <1>3, <1>4 DEF Covers, IsCut

\* A block more, and its chunks.
Fills(P, b) == Apart(P) /\ UNION {Bytes(p) : p \in P} = Bytes(Room(b))
Beyond(b, B) == \A a \in B : Bytes(Room(a)) \cap Bytes(Room(b)) = {}

\* The chunks of a new block are apart from all others.
LEMMA AddApart ==
    ASSUME NEW C, C \subseteq Chunk, NEW B, NEW b, NEW P, P \subseteq Chunk,
           Fills(P, b), Apart(C), Covers(C, B), Beyond(b, B)
    PROVE  Apart(C \cup P) /\ Covers(C \cup P, B \cup {b}) /\ C \cap P = {}
<1>1. \A c \in C, p \in P : Bytes(c) \cap Bytes(p) = {}
  BY DEF Covers, Fills, Beyond
<1>2. \A c \in C : Bytes(c) # {}
  BY ChunkFacts
<1>3. Apart(C \cup P)
  BY <1>1 DEF Apart, Fills
<1>4. Covers(C \cup P, B \cup {b})
  BY DEF Covers, Fills
<1> QED
  BY <1>1, <1>2, <1>3, <1>4

\* A block less, and the chunk that is all of it.
LEMMA DropApart ==
    ASSUME NEW C, NEW B, NEW c \in C, NEW b \in B, Bytes(c) = Bytes(Room(b)),
           Apart(C), Covers(C, B), \A a \in B : a # b => Bytes(Room(a)) \cap Bytes(Room(b)) = {}
    PROVE  Apart(C \ {c}) /\ Covers(C \ {c}, B \ {b})
<1>1. Apart(C \ {c})
  BY DEF Apart
<1>2. \A x : x \in UNION {Bytes(d) : d \in C \ {c}} <=>
             x \in UNION {Bytes(d) : d \in C} /\ x \notin Bytes(c)
  BY DEF Apart
<1>3. \A x : x \in UNION {Bytes(Room(a)) : a \in B \ {b}} <=>
             x \in UNION {Bytes(Room(a)) : a \in B} /\ x \notin Bytes(c)
  OBVIOUS
<1> QED
  BY <1>1, <1>2, <1>3 DEF Covers

\* Blocks without a page in common have no byte in common.
LEMMA BlockFacts ==
    ASSUME NEW b \in Block
    PROVE  /\ b.first \in Nat /\ b.pags \in Nat /\ b.pags >= 1 /\ b.first \in BlockPages(b)
           /\ b = [first |-> b.first, pags |-> b.pags]
           /\ b.first * PageSize \in Nat /\ b.pags * PageSize \in Nat
           /\ Room(b).at = b.first * PageSize + BlkHeader
           /\ Room(b).size = b.pags * PageSize - BlkHeader
           /\ Room(b).at + Room(b).size = (b.first + b.pags) * PageSize
           /\ (b.first + b.pags) * PageSize = b.first * PageSize + b.pags * PageSize
<1>1. b.first \in Nat /\ b.pags \in Nat /\ b.pags >= 1 /\ b = [first |-> b.first, pags |-> b.pags]
  BY SizeFacts DEF Block
<1>2. /\ b.first * PageSize \in Nat /\ b.pags * PageSize \in Nat
      /\ (b.first + b.pags) * PageSize = b.first * PageSize + b.pags * PageSize
  BY <1>1, SizeFacts
<1> QED
  BY <1>1, <1>2, SizeFacts DEF Room, Body, BlockPages

\* Blocks apart by pages are apart by bytes.
LEMMA RoomsApart ==
    ASSUME NEW a \in Block, NEW b \in Block, BlockPages(a) \cap BlockPages(b) = {}
    PROVE  Bytes(Room(a)) \cap Bytes(Room(b)) = {} /\ a.first # b.first
<1>1. a.first + a.pags <= b.first \/ b.first + b.pags <= a.first
  BY BlockFacts DEF BlockPages
<1>2. ASSUME NEW x \in Block, NEW y \in Block, x.first + x.pags <= y.first
      PROVE  Room(x).at + Room(x).size <= Room(y).at
  <2>1. (x.first + x.pags) * PageSize <= y.first * PageSize
    <3>1. x.first + x.pags \in Nat /\ y.first \in Nat /\ PageSize \in Nat
      BY BlockFacts, SizeFacts
    <3> QED
      BY <1>2, <3>1, Monotone
  <2> QED
    BY <2>1, BlockFacts, SizeFacts
<1>3. \A x \in Block : Room(x).at \in Int /\ Room(x).size \in Int
  BY BlockFacts, SizeFacts
<1>4. Bytes(Room(a)) \cap Bytes(Room(b)) = {}
  BY <1>1, <1>2, <1>3 DEF Bytes
<1> QED
  BY <1>4, BlockFacts

-----------------------------------------------------------------------------
\* The inductive invariant of the heap.
BlocksApart ==
    /\ IsFiniteSet(used) /\ IsFiniteSet(blocks)
    /\ \A b \in blocks : b.first + b.pags <= Pages /\ Room(b).size >= HashSize
    /\ \A a, b \in blocks : a # b => BlockPages(a) \cap BlockPages(b) = {}
    /\ \A b \in blocks : other \cap BlockPages(b) = {}
Inside == \A c \in Chunks : c.at + c.size <= Pages * PageSize
HeapInv == TypeOK /\ BlocksApart /\ Inside /\ Tiled /\ BooksRight

\* What a state of the invariant looks like.
LEMMA HeapTyped ==
    ASSUME HeapInv
    PROVE  /\ blocks \subseteq Block /\ Chunks \subseteq Chunk
           /\ malloc_free_lst \subseteq Chunks /\ heap_hash \subseteq Chunks
           /\ \A u \in used : /\ Plain(u) \in Chunks /\ Plain(u).at = u.at /\ Plain(u).size = u.size
                              /\ u.at \in Nat /\ u.size \in Nat /\ u.asked \in Requests
                              /\ u = [at |-> u.at, size |-> u.size, asked |-> u.asked]
           /\ used_u8s \in Nat /\ total_u8s \in Nat
           /\ Apart(Chunks) /\ Covers(Chunks, blocks)
<1>1. /\ malloc_free_lst \subseteq Chunk /\ heap_hash \subseteq Chunk /\ blocks \subseteq Block
      /\ used \subseteq [at : Address, size : 1..(Pages * PageSize), asked : Requests]
      /\ used_u8s \in Nat /\ total_u8s \in Nat
  BY DEF HeapInv, TypeOK, Block
<1>2. \A u \in used : /\ Plain(u) \in Chunk /\ Plain(u).at = u.at /\ Plain(u).size = u.size
                      /\ u.at \in Nat /\ u.size \in Nat /\ u.asked \in Requests
                      /\ u = [at |-> u.at, size |-> u.size, asked |-> u.asked]
  BY <1>1, SizeFacts DEF Plain, Chunk, Address
<1>3. Apart(Chunks) /\ Covers(Chunks, blocks)
  BY DEF HeapInv, Tiled, Partition, Apart, Covers, Room
<1> QED
  BY <1>1, <1>2, <1>3 DEF Chunks

\* A sum over the chunks handed out, or over the blocks, with one more.
LEMMA UsedMore ==
    ASSUME NEW U, IsFiniteSet(U), \A v \in U : v.size \in Nat, NEW u, u \notin U, u.size \in Nat
    PROVE  SumFunction([v \in U \cup {u} |-> v.size]) = SumFunction([v \in U |-> v.size]) + u.size
<1>1. PICK f : f = [v \in U |-> v.size]
  OBVIOUS
<1>2. PICK g : g = [v \in U \cup {u} |-> v.size]
  OBVIOUS
<1>3. OneMore(f, g, U, U \cup {u}, u) /\ g[u] = u.size
  BY <1>1, <1>2 DEF OneMore
<1>4. SumFunction(g) = SumFunction(f) + g[u]
  BY <1>3, SumMore
<1> QED
  BY <1>1, <1>2, <1>3, <1>4

\* The same sum over the blocks.
LEMMA BlocksMore ==
    ASSUME NEW B, IsFiniteSet(B), B \subseteq Block, NEW b \in Block, b \notin B
    PROVE  SumFunction([a \in B \cup {b} |-> a.pags * PageSize])
             = SumFunction([a \in B |-> a.pags * PageSize]) + b.pags * PageSize
<1>1. PICK f : f = [a \in B |-> a.pags * PageSize]
  OBVIOUS
<1>2. PICK g : g = [a \in B \cup {b} |-> a.pags * PageSize]
  OBVIOUS
<1>3. \A a \in Block : a.pags * PageSize \in Nat
  BY BlockFacts
<1>4. OneMore(f, g, B, B \cup {b}, b) /\ g[b] = b.pags * PageSize
  BY <1>1, <1>2, <1>3 DEF OneMore
<1>5. SumFunction(g) = SumFunction(f) + g[b]
  BY <1>4, SumMore
<1> QED
  BY <1>1, <1>2, <1>4, <1>5

\* What every kmalloc comes to: the chunk c is handed out, out of what was free or of a
\* block that is new.
Aligned(c) == c.at % Align = 0 /\ c.size % Align = 0 /\ c.size >= HeaderSize
Granted(c, size) == [at |-> c.at, size |-> c.size, asked |-> size]

\* If the chunks stay apart and cover the blocks, handing c out keeps the invariant.
LEMMA HandOutInv ==
    ASSUME HeapInv, NEW size \in Requests, NEW c \in Chunk,
           Aligned(c), c.at + c.size <= Pages * PageSize,
           size + HeaderSize + Align - 1 < Word => c.size - HeaderSize >= size,
           used' = used \cup {Granted(c, size)}, used_u8s' = used_u8s + c.size, other' = other,
           malloc_free_lst' \subseteq Chunk, heap_hash' \subseteq Chunk,
           \A d \in malloc_free_lst' \cup heap_hash' :
               Aligned(d) /\ d.at + d.size <= Pages * PageSize,
           malloc_free_lst' \cap heap_hash' = {}, c \notin malloc_free_lst' \cup heap_hash',
           \A v \in used : Plain(v) # c /\ Plain(v) \notin malloc_free_lst' \cup heap_hash',
           Apart(malloc_free_lst' \cup heap_hash' \cup {Plain(v) : v \in used} \cup {c}),
           Covers(malloc_free_lst' \cup heap_hash' \cup {Plain(v) : v \in used} \cup {c}, blocks'),
           blocks' \subseteq Block, blocks \subseteq blocks', IsFiniteSet(blocks'),
           \A b \in blocks' : b.first + b.pags <= Pages /\ Room(b).size >= HashSize,
           \A a, b \in blocks' : a # b => BlockPages(a) \cap BlockPages(b) = {},
           \A b \in blocks' : other \cap BlockPages(b) = {},
           total_u8s' = SumFunction([b \in blocks' |-> b.pags * PageSize]), total_u8s' \in Nat,
           c.size >= HashSize => \E b \in blocks' : c = Room(b)
    PROVE  HeapInv' /\ Granted(c, size) \notin used
<1> DEFINE u == Granted(c, size)
<1>1. /\ u.at = c.at /\ u.size = c.size /\ u.asked = size /\ Plain(u) = c
      /\ u \in [at : Address, size : 1..(Pages * PageSize), asked : Requests]
      /\ c.at \in Nat /\ c.size \in Nat
  BY ChunkFacts DEF Granted, Plain, Chunk
<1> HIDE DEF u
<1>2. u \notin used /\ used' = used \cup {u}
  BY <1>1 DEF u
<1>3. Chunks' = malloc_free_lst' \cup heap_hash' \cup {Plain(v) : v \in used} \cup {c}
  <2>1. {Plain(v) : v \in used'} = {Plain(v) : v \in used} \cup {c}
    BY <1>1, <1>2
  <2> QED
    BY <2>1 DEF Chunks, Plain
<1>4. TypeOK'
  <2>1. used_u8s' \in Nat /\ other' \subseteq 0..(Pages - 1)
    BY <1>1 DEF HeapInv, TypeOK
  <2>2. used' \subseteq [at : Address, size : 1..(Pages * PageSize), asked : Requests]
    BY <1>1, <1>2 DEF HeapInv, TypeOK
  <2> QED
    BY <2>1, <2>2 DEF TypeOK, Block
<1>5. BlocksApart'
  <2>1. IsFiniteSet(used')
    BY <1>2, FS_AddElement DEF HeapInv, BlocksApart
  <2> QED
    BY <2>1 DEF BlocksApart, Room, Body, BlockPages
<1>6. \A d \in Chunks' : Aligned(d) /\ d.at + d.size <= Pages * PageSize
  <2>1. \A v \in used : Aligned(Plain(v)) /\ Plain(v).at + Plain(v).size <= Pages * PageSize
    BY HeapTyped DEF HeapInv, Tiled, Linkable, Inside, Aligned
  <2> QED
    BY <1>3, <2>1
<1>7. Inside' /\ Linkable'
  BY <1>6 DEF Inside, Linkable, Aligned
<1>8. Partition'
  <2>1. Apart(Chunks') /\ Covers(Chunks', blocks')
    BY <1>3
  <2>2. UNION {Bytes(d) : d \in Chunks'} = UNION {Bytes(Body(b.first, b.pags)) : b \in blocks'}
    BY <2>1 DEF Covers, Room
  <2>3. \A d, e \in Chunks' : d # e => Bytes(d) \cap Bytes(e) = {}
    BY <2>1 DEF Apart
  <2>4. \A v \in used' : Plain(v) \notin malloc_free_lst' \cup heap_hash'
    BY <1>1, <1>2
  <2>5. \A v, w \in used' : Plain(v) = Plain(w) => v = w
    <3>1. \A v, w \in used : Plain(v) = Plain(w) => v = w
      BY DEF HeapInv, Tiled, Partition
    <3> QED
      BY <1>1, <1>2, <3>1
  <2> QED
    BY <2>2, <2>3, <2>4, <2>5 DEF Partition, Bytes, Body, Plain
<1>9. LargeAlone'
  <2>1. ASSUME NEW v \in used' PROVE v.size >= HashSize <=> \E b \in blocks' : Plain(v) = Room(b)
    <3>1. CASE v \in used
      <4>1. v.size >= HashSize => \E b \in blocks : Plain(v) = Room(b)
        BY <3>1 DEF HeapInv, Tiled, LargeAlone, Room
      <4>2. Plain(v).size = v.size
        BY <3>1, HeapTyped
      <4> QED
        BY <4>1, <4>2
    <3>2. CASE v = u
      BY <1>1, <3>2
    <3> QED
      BY <1>2, <3>1, <3>2
  <2> QED
    BY <2>1 DEF LargeAlone, Room, Plain, Body
<1>10. BooksRight'
  <2>1. used_u8s' = SumFunction([v \in used' |-> v.size])
    <3>1. SumFunction([v \in used \cup {u} |-> v.size]) = SumFunction([v \in used |-> v.size]) + u.size
      BY <1>1, <1>2, HeapTyped, UsedMore DEF HeapInv, BlocksApart
    <3> QED
      BY <1>1, <1>2, <3>1 DEF HeapInv, BooksRight, CountersExact
  <2>2. GrantCovers'
    BY <1>1, <1>2 DEF HeapInv, BooksRight, GrantCovers
  <2> QED
    BY <2>1, <2>2 DEF BooksRight, CountersExact
<1> QED
  BY <1>2, <1>4, <1>5, <1>7, <1>8, <1>9, <1>10 DEF HeapInv, Tiled, u

\* What the invariant says of the chunks that are free.
LEMMA FreeFacts ==
    ASSUME HeapInv
    PROVE  /\ \A d \in malloc_free_lst \cup heap_hash :
                 d \in Chunk /\ Aligned(d) /\ d.at + d.size <= Pages * PageSize
           /\ malloc_free_lst \cap heap_hash = {}
           /\ \A v \in used : Plain(v) \notin malloc_free_lst \cup heap_hash
           /\ IsFiniteSet(blocks) /\ blocks \subseteq Block
           /\ \A b \in blocks : b.first + b.pags <= Pages /\ Room(b).size >= HashSize
           /\ \A a, b \in blocks : a # b => BlockPages(a) \cap BlockPages(b) = {}
           /\ \A b \in blocks : other \cap BlockPages(b) = {}
           /\ total_u8s = SumFunction([b \in blocks |-> b.pags * PageSize]) /\ total_u8s \in Nat
<1>1. \A d \in malloc_free_lst \cup heap_hash :
          d \in Chunk /\ Aligned(d) /\ d.at + d.size <= Pages * PageSize
  BY HeapTyped DEF HeapInv, Tiled, Linkable, Inside, Aligned
<1> QED
  BY <1>1, HeapTyped DEF HeapInv, Tiled, Partition, BlocksApart, BooksRight, CountersExact

\* The new chunk is the only one that is not in used.
HandedOut(size) ==
    /\ other' = other
    /\ \E c : c \notin used /\ c.asked = size /\ used' = used \cup {c}

\* kmalloc from a bucket.
LEMMA FromHashInv ==
    ASSUME HeapInv, NEW size \in Requests, Small(Total(size)), FromHash(size)
    PROVE  HeapInv' /\ HandedOut(size)
<1>1. PICK c \in heap_hash : /\ c.size = Total(size)
                             /\ heap_hash' = heap_hash \ {c}
                             /\ HandOut(c.at, c.size, size)
                             /\ UNCHANGED <<malloc_free_lst, blocks, other, total_u8s>>
  BY DEF FromHash
<1>2. /\ c \in Chunk /\ Aligned(c) /\ c.at + c.size <= Pages * PageSize
      /\ used' = used \cup {Granted(c, size)} /\ used_u8s' = used_u8s + c.size
      /\ size + HeaderSize + Align - 1 < Word => c.size - HeaderSize >= size
      /\ ~(c.size >= HashSize)
  <2>1. c.size < HashSize /\ c.size \in Nat /\ HashSize \in Nat
    BY <1>1, TotalFacts, SizeFacts DEF Small
  <2> QED
    BY <1>1, <2>1, FreeFacts, TotalFacts DEF HandOut, Granted
<1>3. malloc_free_lst' \cup heap_hash' \cup {Plain(v) : v \in used} \cup {c} = Chunks
  BY <1>1 DEF Chunks
<1>4. Apart(Chunks) /\ Covers(Chunks, blocks')
  BY <1>1, HeapTyped
<1>5. HeapInv' /\ Granted(c, size) \notin used
  <2>1. \A v \in used : Plain(v) # c /\ Plain(v) \notin malloc_free_lst' \cup heap_hash'
    BY <1>1, FreeFacts
  <2>2. malloc_free_lst' \cap heap_hash' = {} /\ c \notin malloc_free_lst' \cup heap_hash'
    BY <1>1, FreeFacts
  <2>3. malloc_free_lst' \cup heap_hash' \subseteq malloc_free_lst \cup heap_hash /\ blocks' = blocks
        /\ total_u8s' = total_u8s /\ other' = other
    BY <1>1
  <2> QED
    BY <1>2, <1>3, <1>4, <2>1, <2>2, <2>3, FreeFacts, HandOutInv
<1> QED
  BY <1>1, <1>2, <1>5 DEF HandedOut, Granted

\* A chunk cut in two: the front stays, the end is handed out.
Front(c, total) == [at |-> c.at, size |-> c.size - total]
End(c, total) == [at |-> Cut(c, total), size |-> total]

\* Both parts of a chunk that is cut are aligned, big enough and inside it.
LEMMA CutFacts ==
    ASSUME NEW c \in Chunk, Aligned(c), c.at + c.size <= Pages * PageSize,
           NEW total \in Nat, total % Align = 0, total >= HeaderSize, Splits(c, total)
    PROVE  /\ Front(c, total) \in Chunk /\ End(c, total) \in Chunk
           /\ Aligned(Front(c, total)) /\ Aligned(End(c, total))
           /\ Front(c, total).at + Front(c, total).size <= Pages * PageSize
           /\ End(c, total).at + End(c, total).size <= Pages * PageSize
           /\ Bytes(Front(c, total)) \cup Bytes(End(c, total)) = Bytes(c)
           /\ Bytes(Front(c, total)) \cap Bytes(End(c, total)) = {}
           /\ Front(c, total) # End(c, total) /\ End(c, total).size = total
<1> DEFINE a == c.at
<1> DEFINE s == c.size
<1> DEFINE top == Pages * PageSize
<1>0. /\ a \in Nat /\ s \in Nat /\ s >= total + HeaderSize /\ HeaderSize \in Nat /\ HeaderSize >= 1
      /\ a + s <= top /\ top \in Nat /\ a % Align = 0 /\ s % Align = 0 /\ Align \in Nat \ {0}
      /\ HeaderSize < HashSize
  <2>1. Pages * PageSize \in Nat
    BY SizeFacts
  <2> QED
    BY <2>1, ChunkFacts, SizeFacts DEF Aligned, Splits
<1>1. /\ Front(c, total) = [at |-> a, size |-> s - total]
      /\ End(c, total) = [at |-> a + s - total, size |-> total]
  BY DEF Front, End, Cut
<1>2. Bytes(c) = a..(a + s - 1)
  BY DEF Bytes
<1> HIDE DEF a, s
<1>3. Front(c, total) \in Chunk /\ End(c, total) \in Chunk
  <2> HIDE DEF top
  <2>1. a \in 0..top /\ s - total \in 1..top /\ a + s - total \in 0..top /\ total \in 1..top
    BY <1>0
  <2> QED
    BY <1>1, <2>1 DEF Chunk, Address, top
<1>4. (s - total) % Align = 0 /\ (a + s - total) % Align = 0
  <2>1. s - total \in Nat /\ total <= s
    BY <1>0
  <2>2. (s - total) % Align = 0
    BY <1>0, <2>1, AddMultiples
  <2>3. (a + (s - total)) % Align = 0
    BY <1>0, <2>1, <2>2, AddMultiples
  <2>4. a + (s - total) = a + s - total
    BY <1>0
  <2> QED
    BY <2>2, <2>3, <2>4
<1>5. Aligned(Front(c, total)) /\ Aligned(End(c, total))
  BY <1>0, <1>1, <1>4 DEF Aligned
<1>6. /\ a + (s - total) <= top /\ (a + s - total) + total <= top /\ a # a + s - total
  <2> HIDE DEF top
  <2> QED
    BY <1>0
<1>7. Bytes(Front(c, total)) = a..(a + (s - total) - 1)
      /\ Bytes(End(c, total)) = (a + s - total)..(a + s - total + total - 1)
  BY <1>1 DEF Bytes
<1>8. Bytes(Front(c, total)) \cup Bytes(End(c, total)) = Bytes(c)
      /\ Bytes(Front(c, total)) \cap Bytes(End(c, total)) = {}
  BY <1>0, <1>2, <1>7
<1> QED
  BY <1>1, <1>3, <1>5, <1>6, <1>8

\* kmalloc from what is left of a block.
LEMMA FromListInv ==
    ASSUME HeapInv, NEW size \in Requests, Small(Total(size)), FromList(size)
    PROVE  HeapInv' /\ HandedOut(size)
<1> DEFINE total == Total(size)
<1>0. /\ total \in Nat /\ total % Align = 0 /\ total >= HeaderSize /\ total < HashSize
      /\ size + HeaderSize + Align - 1 < Word => total - HeaderSize >= size
  BY TotalFacts DEF Small
<1>1. PICK c \in malloc_free_lst :
          /\ Fits(c, total)
          /\ malloc_free_lst' = (malloc_free_lst \ {c}) \cup
                IF c.size = total THEN {}
                ELSE {[at |-> c.at, size |-> c.size - total]}
          /\ HandOut(Cut(c, total), total, size)
          /\ UNCHANGED <<heap_hash, blocks, other, total_u8s>>
  BY DEF FromList
<1> HIDE DEF total
<1>2. c \in Chunk /\ Aligned(c) /\ c.at + c.size <= Pages * PageSize /\ c \in Chunks
  BY FreeFacts, HeapTyped
<1>3. /\ used' = used \cup {Granted(End(c, total), size)} /\ used_u8s' = used_u8s + total
      /\ heap_hash' = heap_hash /\ blocks' = blocks /\ other' = other /\ total_u8s' = total_u8s
  BY <1>1 DEF HandOut, Granted, End
<1>4. Apart(Chunks) /\ Covers(Chunks, blocks) /\ Chunks \subseteq Chunk
  BY HeapTyped
<1>5. ~(total >= HashSize)
  BY <1>0, SizeFacts
<1>6. CASE c.size = total
  <2>1. End(c, total) = c
    BY <1>2, <1>6, ChunkFacts DEF End, Cut
  <2>2. malloc_free_lst' = malloc_free_lst \ {c}
    BY <1>1, <1>6
  <2>3. malloc_free_lst' \cup heap_hash' \cup {Plain(v) : v \in used} \cup {c} = Chunks
    BY <1>3, <2>2 DEF Chunks
  <2>4. \A v \in used : Plain(v) # c /\ Plain(v) \notin malloc_free_lst' \cup heap_hash'
    BY <1>3, <2>2, FreeFacts
  <2>5. malloc_free_lst' \cap heap_hash' = {} /\ c \notin malloc_free_lst' \cup heap_hash'
        /\ malloc_free_lst' \cup heap_hash' \subseteq malloc_free_lst \cup heap_hash
    BY <1>3, <2>2, FreeFacts
  <2>6. HeapInv' /\ Granted(c, size) \notin used
    BY <1>0, <1>2, <1>3, <1>4, <1>5, <1>6, <2>1, <2>3, <2>4, <2>5, FreeFacts, HandOutInv
  <2> QED
    BY <1>3, <2>1, <2>6 DEF HandedOut, Granted
<1>7. CASE c.size # total
  <2> DEFINE p == Front(c, total)
  <2> DEFINE q == End(c, total)
  <2>0. Splits(c, total)
    BY <1>1, <1>7 DEF Fits
  <2>1. /\ p \in Chunk /\ q \in Chunk /\ Aligned(p) /\ Aligned(q)
        /\ p.at + p.size <= Pages * PageSize /\ q.at + q.size <= Pages * PageSize
        /\ Bytes(p) \cup Bytes(q) = Bytes(c) /\ Bytes(p) \cap Bytes(q) = {}
        /\ p # q /\ q.size = total
    BY <1>0, <1>2, <2>0, CutFacts
  <2>2. malloc_free_lst' = (malloc_free_lst \ {c}) \cup {p}
    BY <1>1, <1>7 DEF Front
  <2> HIDE DEF p, q
  <2>3. /\ Apart((Chunks \ {c}) \cup {p, q}) /\ Covers((Chunks \ {c}) \cup {p, q}, blocks)
        /\ p \notin Chunks \ {c} /\ q \notin Chunks \ {c}
    <3>1. PICK C : C = Chunks
      OBVIOUS
    <3>2. /\ C \subseteq Chunk /\ c \in C /\ p \in Chunk /\ q \in Chunk
          /\ IsCut(c, p, q) /\ Apart(C) /\ Covers(C, blocks)
      BY <1>2, <1>4, <2>1, <3>1 DEF IsCut
    <3>3. /\ Apart((C \ {c}) \cup {p, q}) /\ Covers((C \ {c}) \cup {p, q}, blocks)
          /\ p \notin C \ {c} /\ q \notin C \ {c}
      BY ONLY <3>2, SplitApart
    <3> QED
      BY <3>1, <3>3
  <2>4. /\ malloc_free_lst \ {c} \subseteq Chunks \ {c} /\ heap_hash \subseteq Chunks \ {c}
        /\ \A v \in used : Plain(v) \in Chunks \ {c}
        /\ Chunks \ {c} = (malloc_free_lst \ {c}) \cup heap_hash \cup {Plain(v) : v \in used}
    BY FreeFacts DEF Chunks
  <2>5. malloc_free_lst' \cup heap_hash' \cup {Plain(v) : v \in used} \cup {q}
          = (Chunks \ {c}) \cup {p, q}
    BY <1>3, <2>2, <2>4
  <2>6. \A v \in used : Plain(v) # q /\ Plain(v) \notin malloc_free_lst' \cup heap_hash'
    BY <1>3, <2>2, <2>3, <2>4, FreeFacts
  <2>7. malloc_free_lst' \cap heap_hash' = {} /\ q \notin malloc_free_lst' \cup heap_hash'
        /\ malloc_free_lst' \cup heap_hash' \subseteq malloc_free_lst \cup heap_hash \cup {p}
    BY <1>3, <2>1, <2>2, <2>3, <2>4, FreeFacts
  <2>8. HeapInv' /\ Granted(q, size) \notin used
    <3>1. \A d \in malloc_free_lst' \cup heap_hash' :
              d \in Chunk /\ Aligned(d) /\ d.at + d.size <= Pages * PageSize
      BY <2>1, <2>7, FreeFacts
    <3>2. used' = used \cup {Granted(q, size)} /\ used_u8s' = used_u8s + q.size
      BY <1>3, <2>1 DEF q
    <3>3. Apart(malloc_free_lst' \cup heap_hash' \cup {Plain(v) : v \in used} \cup {q})
          /\ Covers(malloc_free_lst' \cup heap_hash' \cup {Plain(v) : v \in used} \cup {q}, blocks')
      BY <1>3, <2>3, <2>5
    <3> QED
      BY <1>0, <1>3, <1>5, <2>1, <2>6, <2>7, <3>1, <3>2, <3>3, FreeFacts, HandOutInv
  <2> QED
    BY <1>3, <2>8 DEF HandedOut, Granted, q
<1> QED
  BY <1>6, <1>7

\* A block more, with a room that is big enough.
NewBlk(first, n) == [first |-> first, pags |-> n]

\* A new block keeps the blocks apart and its pages counted.
LEMMA NewBlockFacts ==
    ASSUME HeapInv, NEW n \in Nat, NEW first \in FreeRuns(n),
           n * PageSize - BlkHeader >= HashSize, NewBlock(first, n),
           NEW b, b = NewBlk(first, n)
    PROVE  /\ b \in Block /\ blocks' = blocks \cup {b} /\ blocks' \subseteq Block
           /\ IsFiniteSet(blocks') /\ other' = other
           /\ \A a \in blocks' : a.first + a.pags <= Pages /\ Room(a).size >= HashSize
           /\ \A a, d \in blocks' : a # d => BlockPages(a) \cap BlockPages(d) = {}
           /\ \A a \in blocks' : other \cap BlockPages(a) = {}
           /\ \A a \in blocks : Bytes(Room(a)) \cap Bytes(Room(b)) = {}
           /\ total_u8s' = SumFunction([a \in blocks' |-> a.pags * PageSize]) /\ total_u8s' \in Nat
           /\ Room(b) = Body(first, n) /\ Room(b) \in Chunk /\ Aligned(Room(b))
           /\ Room(b).at + Room(b).size <= Pages * PageSize
           /\ Room(b).size = n * PageSize - BlkHeader
<1>0. n # 0 /\ n >= 1 /\ first \in 0..(Pages - n) /\ (first..(first + n - 1)) \cap Taken = {}
  <2>1. n # 0
    BY SizeFacts
  <2> QED
    BY <2>1 DEF FreeRuns
<1>1. b \in Block /\ b.first = first /\ b.pags = n /\ BlockPages(b) = first..(first + n - 1)
      /\ first + n <= Pages /\ first \in Nat
  BY <1>0, SizeFacts DEF NewBlk, Block, BlockPages
<1>2. blocks' = blocks \cup {b} /\ total_u8s' = total_u8s + n * PageSize /\ other' = other
  BY DEF NewBlock, NewBlk
<1>3. other \cap BlockPages(b) = {} /\ \A a \in blocks : BlockPages(a) \cap BlockPages(b) = {}
  BY <1>0, <1>1 DEF Taken
<1>4. b \notin blocks
  BY <1>1, <1>3, BlockFacts
<1>5. /\ Room(b) = Body(first, n) /\ Room(b).size = n * PageSize - BlkHeader
      /\ Room(b).at = first * PageSize + BlkHeader
      /\ Room(b).at + Room(b).size = (first + n) * PageSize
      /\ first * PageSize \in Nat /\ n * PageSize \in Nat
      /\ Room(b) = [at |-> Room(b).at, size |-> Room(b).size]
  BY <1>1, BlockFacts DEF Room, Body
<1>6. (first + n) * PageSize <= Pages * PageSize /\ Pages * PageSize \in Nat
  BY <1>0, <1>1, SizeFacts, Monotone
<1>7. Room(b) \in Chunk
  <2> DEFINE at == Room(b).at
  <2> DEFINE size == Room(b).size
  <2>1. at \in Nat /\ size \in Nat /\ size >= 1 /\ at + size <= Pages * PageSize
    BY <1>5, <1>6, SizeFacts
  <2>2. Room(b) = [at |-> at, size |-> size]
    BY <1>5
  <2> HIDE DEF at, size
  <2>3. at \in 0..(Pages * PageSize) /\ size \in 1..(Pages * PageSize)
    BY <1>6, <2>1
  <2> QED
    BY <2>2, <2>3 DEF Chunk, Address
<1>8. Aligned(Room(b))
  <2>1. (first * PageSize) % Align = 0 /\ (n * PageSize) % Align = 0
    BY <1>1, SizeFacts, ScaleMultiple
  <2>2. (first * PageSize + BlkHeader) % Align = 0
    BY <1>5, <2>1, SizeFacts, AddMultiples
  <2>3. (n * PageSize - BlkHeader) % Align = 0
    <3>1. BlkHeader <= n * PageSize
      BY <1>5, SizeFacts
    <3> QED
      BY <1>5, <2>1, <3>1, SizeFacts, AddMultiples
  <2> QED
    BY <1>5, <2>2, <2>3, SizeFacts DEF Aligned
<1>9. \A a \in blocks : Bytes(Room(a)) \cap Bytes(Room(b)) = {}
  BY <1>1, <1>3, FreeFacts, RoomsApart
<1>10. /\ IsFiniteSet(blocks') /\ blocks' \subseteq Block
       /\ \A a \in blocks' : a.first + a.pags <= Pages /\ Room(a).size >= HashSize
       /\ \A a \in blocks' : other \cap BlockPages(a) = {}
  BY <1>1, <1>2, <1>3, <1>5, FreeFacts, FS_AddElement
<1>11. \A a, d \in blocks' : a # d => BlockPages(a) \cap BlockPages(d) = {}
  BY <1>2, <1>3, FreeFacts
<1>12. total_u8s' = SumFunction([a \in blocks' |-> a.pags * PageSize]) /\ total_u8s' \in Nat
  <2>1. SumFunction([a \in blocks \cup {b} |-> a.pags * PageSize])
          = SumFunction([a \in blocks |-> a.pags * PageSize]) + b.pags * PageSize
    BY <1>1, <1>4, FreeFacts, BlocksMore
  <2> QED
    BY <1>1, <1>2, <1>5, <2>1, FreeFacts
<1> QED
  BY <1>1, <1>2, <1>5, <1>6, <1>7, <1>8, <1>9, <1>10, <1>11, <1>12

\* kmalloc of a small chunk from a new block.
LEMMA GrowInv ==
    ASSUME HeapInv, NEW size \in Requests, Small(Total(size)), Grow(size)
    PROVE  HeapInv' /\ HandedOut(size)
<1> DEFINE total == Total(size)
<1>0. /\ total \in Nat /\ total % Align = 0 /\ total >= HeaderSize /\ total < HashSize /\ total >= 1
      /\ size + HeaderSize + Align - 1 < Word => total - HeaderSize >= size
  BY TotalFacts DEF Small
<1>n. PICK n : n = (total + GrowPages * PageSize - 1) \div PageSize
  OBVIOUS
<1>1. PICK first \in FreeRuns(n) :
          /\ NewBlock(first, n)
          /\ malloc_free_lst' =
                malloc_free_lst \cup {[Body(first, n) EXCEPT !.size = @ - total]}
          /\ HandOut(Cut(Body(first, n), total), total, size)
          /\ heap_hash' = heap_hash
  BY <1>n DEF Grow
<1>2. n \in Nat /\ n * PageSize \in Nat /\ n * PageSize - BlkHeader >= HashSize
      /\ n * PageSize - BlkHeader - total >= HeaderSize
  BY <1>0, <1>n, GrowFacts DEF Small
<1> HIDE DEF total
<1> DEFINE b == NewBlk(first, n)
<1>3. /\ b \in Block /\ blocks' = blocks \cup {b} /\ blocks' \subseteq Block
      /\ IsFiniteSet(blocks') /\ other' = other
      /\ \A a \in blocks' : a.first + a.pags <= Pages /\ Room(a).size >= HashSize
      /\ \A a, d \in blocks' : a # d => BlockPages(a) \cap BlockPages(d) = {}
      /\ \A a \in blocks' : other \cap BlockPages(a) = {}
      /\ \A a \in blocks : Bytes(Room(a)) \cap Bytes(Room(b)) = {}
      /\ total_u8s' = SumFunction([a \in blocks' |-> a.pags * PageSize]) /\ total_u8s' \in Nat
      /\ Room(b) = Body(first, n) /\ Room(b) \in Chunk /\ Aligned(Room(b))
      /\ Room(b).at + Room(b).size <= Pages * PageSize
      /\ Room(b).size = n * PageSize - BlkHeader
  BY <1>1, <1>2, NewBlockFacts
<1> HIDE DEF b
<1> DEFINE r == Room(b)
<1> DEFINE p == Front(r, total)
<1> DEFINE q == End(r, total)
<1>4. Splits(r, total)
  BY <1>0, <1>2, <1>3, SizeFacts DEF Splits
<1>5. /\ p \in Chunk /\ q \in Chunk /\ Aligned(p) /\ Aligned(q)
      /\ p.at + p.size <= Pages * PageSize /\ q.at + q.size <= Pages * PageSize
      /\ Bytes(p) \cup Bytes(q) = Bytes(r) /\ Bytes(p) \cap Bytes(q) = {}
      /\ p # q /\ q.size = total
  BY <1>0, <1>3, <1>4, CutFacts
<1>6. malloc_free_lst' = malloc_free_lst \cup {p}
  <2>1. [Body(first, n) EXCEPT !.size = @ - total] = Front(Body(first, n), total)
    BY DEF Body, Front
  <2> QED
    BY <1>1, <1>3, <2>1
<1>7. used' = used \cup {Granted(q, size)} /\ used_u8s' = used_u8s + q.size
  BY <1>1, <1>3, <1>5 DEF HandOut, Granted, End
<1> HIDE DEF p, q, r
<1>8. Apart(Chunks) /\ Covers(Chunks, blocks) /\ Chunks \subseteq Chunk
  BY HeapTyped
<1>9. /\ Apart(Chunks \cup {p, q}) /\ Covers(Chunks \cup {p, q}, blocks')
      /\ Chunks \cap {p, q} = {}
  <2>1. PICK C, P : C = Chunks /\ P = {p, q}
    OBVIOUS
  <2>2. /\ C \subseteq Chunk /\ P \subseteq Chunk /\ Fills(P, b)
        /\ Apart(C) /\ Covers(C, blocks) /\ Beyond(b, blocks)
    <3>1. Apart(P)
      BY <1>5, <2>1 DEF Apart
    <3>2. UNION {Bytes(d) : d \in P} = Bytes(Room(b))
      BY <1>5, <2>1 DEF r
    <3> QED
      BY <1>3, <1>5, <1>8, <2>1, <3>1, <3>2 DEF Fills, Beyond
  <2>3. Apart(C \cup P) /\ Covers(C \cup P, blocks \cup {b}) /\ C \cap P = {}
    BY ONLY <2>2, AddApart
  <2> QED
    BY <1>3, <2>1, <2>3
<1>10. /\ malloc_free_lst' \cup heap_hash' \cup {Plain(v) : v \in used} \cup {q}
            = Chunks \cup {p, q}
       /\ malloc_free_lst' \cup heap_hash' = malloc_free_lst \cup heap_hash \cup {p}
  BY <1>1, <1>6 DEF Chunks
<1>11. \A v \in used : Plain(v) # q /\ Plain(v) \notin malloc_free_lst' \cup heap_hash'
  <2>1. \A v \in used : Plain(v) \in Chunks
    BY DEF Chunks
  <2> QED
    BY <1>9, <1>10, <2>1, FreeFacts
<1>12. malloc_free_lst' \cap heap_hash' = {} /\ q \notin malloc_free_lst' \cup heap_hash'
  <2>1. malloc_free_lst \subseteq Chunks /\ heap_hash \subseteq Chunks
    BY DEF Chunks
  <2> QED
    BY <1>1, <1>5, <1>6, <1>9, <1>10, <2>1, FreeFacts
<1>13. \A d \in malloc_free_lst' \cup heap_hash' :
           d \in Chunk /\ Aligned(d) /\ d.at + d.size <= Pages * PageSize
  BY <1>5, <1>10, FreeFacts
<1>14. HeapInv' /\ Granted(q, size) \notin used
  <2>1. ~(q.size >= HashSize) /\ blocks \subseteq blocks'
    BY <1>0, <1>3, <1>5, SizeFacts
  <2>2. Apart(malloc_free_lst' \cup heap_hash' \cup {Plain(v) : v \in used} \cup {q})
        /\ Covers(malloc_free_lst' \cup heap_hash' \cup {Plain(v) : v \in used} \cup {q}, blocks')
    BY <1>9, <1>10
  <2> QED
    BY <1>0, <1>3, <1>5, <1>7, <1>11, <1>12, <1>13, <2>1, <2>2, HandOutInv
<1> QED
  BY <1>3, <1>7, <1>14 DEF HandedOut, Granted

\* kmalloc of a large chunk, which gets a block to itself.
LEMMA LargeInv ==
    ASSUME HeapInv, NEW size \in Requests, ~Small(Total(size)), Large(size)
    PROVE  HeapInv' /\ HandedOut(size)
<1> DEFINE total == Total(size)
<1>0. /\ total \in Nat /\ total >= HashSize /\ total <= Word - Align
      /\ size + HeaderSize + Align - 1 < Word => total - HeaderSize >= size
  BY TotalFacts, SizeFacts DEF Small
<1>n. PICK n : n = PagesFor(total)
  OBVIOUS
<1>1. PICK first \in FreeRuns(n) :
          /\ NewBlock(first, n)
          /\ HandOut(Body(first, n).at, Body(first, n).size, size)
          /\ malloc_free_lst' = malloc_free_lst /\ heap_hash' = heap_hash
  BY <1>n DEF Large, LargeSize
<1> HIDE DEF total
<1>2. n \in Nat /\ n * PageSize - BlkHeader >= total /\ n * PageSize - BlkHeader >= HashSize
  <2>1. n \in Nat /\ (n >= 1 => n * PageSize >= total + BlkHeader)
    BY <1>0, <1>n, PagesForFacts
  <2>2. n # 0
    BY <1>1 DEF FreeRuns
  <2>3. n * PageSize \in Nat
    BY <2>1, SizeFacts
  <2> QED
    BY <1>0, <2>1, <2>2, <2>3, SizeFacts
<1> DEFINE b == NewBlk(first, n)
<1>3. /\ b \in Block /\ blocks' = blocks \cup {b} /\ blocks' \subseteq Block
      /\ IsFiniteSet(blocks') /\ other' = other
      /\ \A a \in blocks' : a.first + a.pags <= Pages /\ Room(a).size >= HashSize
      /\ \A a, d \in blocks' : a # d => BlockPages(a) \cap BlockPages(d) = {}
      /\ \A a \in blocks' : other \cap BlockPages(a) = {}
      /\ \A a \in blocks : Bytes(Room(a)) \cap Bytes(Room(b)) = {}
      /\ total_u8s' = SumFunction([a \in blocks' |-> a.pags * PageSize]) /\ total_u8s' \in Nat
      /\ Room(b) = Body(first, n) /\ Room(b) \in Chunk /\ Aligned(Room(b))
      /\ Room(b).at + Room(b).size <= Pages * PageSize
      /\ Room(b).size = n * PageSize - BlkHeader
  BY <1>1, <1>2, NewBlockFacts
<1> HIDE DEF b
<1> DEFINE r == Room(b)
<1>4. used' = used \cup {Granted(r, size)} /\ used_u8s' = used_u8s + r.size
  BY <1>1, <1>3 DEF HandOut, Granted
<1>5. size + HeaderSize + Align - 1 < Word => r.size - HeaderSize >= size
  <2>1. r.size >= total /\ r.size \in Int /\ size \in Int /\ HeaderSize \in Int
    BY <1>2, <1>3, ChunkFacts, SizeFacts
  <2> QED
    BY <1>0, <2>1
<1> HIDE DEF r
<1>6. Apart(Chunks) /\ Covers(Chunks, blocks) /\ Chunks \subseteq Chunk
  BY HeapTyped
<1>7. /\ Apart(Chunks \cup {r}) /\ Covers(Chunks \cup {r}, blocks') /\ r \notin Chunks
  <2>1. PICK C, P : C = Chunks /\ P = {r}
    OBVIOUS
  <2>2. /\ C \subseteq Chunk /\ P \subseteq Chunk /\ Fills(P, b)
        /\ Apart(C) /\ Covers(C, blocks) /\ Beyond(b, blocks)
    <3>1. Apart(P)
      BY <2>1 DEF Apart
    <3>2. UNION {Bytes(d) : d \in P} = Bytes(Room(b))
      BY <2>1 DEF r
    <3> QED
      BY <1>3, <1>6, <2>1, <3>1, <3>2 DEF Fills, Beyond, r
  <2>3. Apart(C \cup P) /\ Covers(C \cup P, blocks \cup {b}) /\ C \cap P = {}
    BY ONLY <2>2, AddApart
  <2> QED
    BY <1>3, <2>1, <2>3
<1>8. malloc_free_lst' \cup heap_hash' \cup {Plain(v) : v \in used} \cup {r} = Chunks \cup {r}
  BY <1>1 DEF Chunks
<1>9. /\ \A v \in used : Plain(v) # r /\ Plain(v) \notin malloc_free_lst' \cup heap_hash'
      /\ r \notin malloc_free_lst' \cup heap_hash' /\ malloc_free_lst' \cap heap_hash' = {}
  <2>1. malloc_free_lst \subseteq Chunks /\ heap_hash \subseteq Chunks
        /\ \A v \in used : Plain(v) \in Chunks
    BY DEF Chunks
  <2> QED
    BY <1>1, <1>7, <2>1, FreeFacts
<1>10. HeapInv' /\ Granted(r, size) \notin used
  <2>1. /\ \E a \in blocks' : r = Room(a)
        /\ blocks \subseteq blocks' /\ r \in Chunk /\ Aligned(r)
        /\ r.at + r.size <= Pages * PageSize
    BY <1>3 DEF r
  <2>2. \A d \in malloc_free_lst' \cup heap_hash' :
            d \in Chunk /\ Aligned(d) /\ d.at + d.size <= Pages * PageSize
    BY <1>1, FreeFacts
  <2>3. Apart(malloc_free_lst' \cup heap_hash' \cup {Plain(v) : v \in used} \cup {r})
        /\ Covers(malloc_free_lst' \cup heap_hash' \cup {Plain(v) : v \in used} \cup {r}, blocks')
    BY <1>7, <1>8
  <2> QED
    BY <1>3, <1>4, <1>5, <1>9, <2>1, <2>2, <2>3, HandOutInv
<1> QED
  BY <1>3, <1>4, <1>10 DEF HandedOut, Granted

\* Whichever way it goes, kmalloc keeps the invariant and hands out one new chunk.
LEMMA KmallocInv ==
    ASSUME HeapInv, NEW size \in Requests, kmalloc(size)
    PROVE  HeapInv' /\ HandedOut(size)
BY FromHashInv, FromListInv, GrowInv, LargeInv DEF kmalloc

\* used_u8s counts one chunk less.
LEMMA LessBooks ==
    ASSUME HeapInv, NEW u \in used
    PROVE  /\ IsFiniteSet(used \ {u})
           /\ LessUsed(u) = SumFunction([v \in used \ {u} |-> v.size]) /\ LessUsed(u) \in Nat
<1>1. IsFiniteSet(used) /\ \A v \in used : v.size \in Nat
  BY HeapTyped DEF HeapInv, BlocksApart
<1>2. IsFiniteSet(used \ {u})
  BY <1>1, FS_Subset
<1>3. PICK U : U = used \ {u}
  OBVIOUS
<1>4. IsFiniteSet(U) /\ (\A v \in U : v.size \in Nat) /\ u \notin U /\ u.size \in Nat
      /\ used = U \cup {u}
  BY <1>1, <1>2, <1>3
<1>5. SumFunction([v \in U \cup {u} |-> v.size]) = SumFunction([v \in U |-> v.size]) + u.size
  BY <1>4, UsedMore
<1>6. SumFunction([v \in U |-> v.size]) \in Nat
  <2>1. PICK f : f = [v \in U |-> v.size]
    OBVIOUS
  <2>2. DOMAIN f = U /\ f \in [DOMAIN f -> Nat]
    BY <1>4, <2>1
  <2> QED
    BY <1>4, <2>1, <2>2, SumNat
<1>7. used_u8s = SumFunction([v \in U \cup {u} |-> v.size])
  BY <1>4 DEF HeapInv, BooksRight, CountersExact
<1> QED
  BY <1>2, <1>3, <1>4, <1>5, <1>6, <1>7 DEF LessUsed

\* total_u8s counts one block less.
LEMMA LessBlocks ==
    ASSUME HeapInv, NEW b \in blocks
    PROVE  /\ IsFiniteSet(blocks \ {b})
           /\ LessTotal(b) = SumFunction([a \in blocks \ {b} |-> a.pags * PageSize])
           /\ LessTotal(b) \in Nat
<1>1. IsFiniteSet(blocks) /\ blocks \subseteq Block /\ \A a \in Block : a.pags * PageSize \in Nat
  BY HeapTyped, BlockFacts DEF HeapInv, BlocksApart
<1>2. IsFiniteSet(blocks \ {b})
  BY <1>1, FS_Subset
<1>3. PICK B : B = blocks \ {b}
  OBVIOUS
<1>4. IsFiniteSet(B) /\ B \subseteq Block /\ b \notin B /\ b \in Block
      /\ blocks = B \cup {b}
  BY <1>1, <1>2, <1>3
<1>5. SumFunction([a \in B \cup {b} |-> a.pags * PageSize])
        = SumFunction([a \in B |-> a.pags * PageSize]) + b.pags * PageSize
  BY <1>4, BlocksMore
<1>6. SumFunction([a \in B |-> a.pags * PageSize]) \in Nat
  <2>1. PICK f : f = [a \in B |-> a.pags * PageSize]
    OBVIOUS
  <2>2. DOMAIN f = B /\ f \in [DOMAIN f -> Nat]
    BY <1>1, <1>4, <2>1
  <2> QED
    BY <1>4, <2>1, <2>2, SumNat
<1>7. total_u8s = SumFunction([a \in B \cup {b} |-> a.pags * PageSize])
  BY <1>4 DEF HeapInv, BooksRight, CountersExact
<1>8. b.pags * PageSize \in Nat
  BY <1>1, <1>4
<1> QED
  BY <1>2, <1>3, <1>4, <1>5, <1>6, <1>7, <1>8 DEF LessTotal

\* kfree finds the block of a large chunk, and no other.
LEMMA HeaderFacts ==
    ASSUME HeapInv, NEW u \in used, ~SmallChunk(u), NEW b \in HeaderOf(u)
    PROVE  b \in blocks /\ Plain(u) = Room(b)
<1>1. u.size >= HashSize
  BY HeapTyped, SizeFacts DEF SmallChunk
<1>2. PICK a \in blocks : Plain(u) = Room(a)
  BY <1>1 DEF HeapInv, Tiled, LargeAlone, Room
<1>3. b \in blocks /\ b.first * PageSize + BlkHeader = u.at
  BY DEF HeaderOf
<1>4. a \in Block /\ b \in Block
  BY <1>2, <1>3, HeapTyped
<1>5. a.first * PageSize + BlkHeader = u.at
  BY <1>2, <1>4, BlockFacts DEF Plain
<1>6. a.first = b.first
  <2>1. a.first * PageSize = b.first * PageSize
    BY <1>3, <1>4, <1>5, BlockFacts, SizeFacts
  <2>2. a.first \in Nat /\ b.first \in Nat /\ PageSize \in Nat /\ PageSize >= 1
    BY <1>4, BlockFacts, SizeFacts
  <2>3. ASSUME NEW m \in Nat, NEW n \in Nat, m < n PROVE m * PageSize < n * PageSize
    <3>1. (n - m) * PageSize = n * PageSize - m * PageSize
      BY <2>2, <2>3, Monotone
    <3>2. (n - m) * PageSize >= PageSize
      <4>1. n - m >= 1 /\ n - m \in Nat
        BY <2>3
      <4>2. 1 * PageSize <= (n - m) * PageSize
        BY <2>2, <4>1, Monotone
      <4> QED
        BY <2>2, <4>2
    <3>3. m * PageSize \in Nat /\ n * PageSize \in Nat
      BY <2>2
    <3> QED
      BY <2>2, <3>1, <3>2, <3>3
  <2>4. CASE a.first < b.first
    BY <2>1, <2>2, <2>3, <2>4
  <2>5. CASE b.first < a.first
    BY <2>1, <2>2, <2>3, <2>5
  <2> QED
    BY <2>2, <2>4, <2>5
<1>7. a = b
  BY <1>2, <1>3, <1>4, <1>6, BlockFacts DEF HeapInv, BlocksApart
<1> QED
  BY <1>2, <1>3, <1>7

\* kfree keeps the invariant and takes back one chunk.
LEMMA KfreeInv ==
    ASSUME HeapInv, NEW u \in used, kfree(u)
    PROVE  HeapInv' /\ other' = other /\ used' = used \ {u}
<1>0. /\ used' = used \ {u} /\ used_u8s' = LessUsed(u)
      /\ malloc_free_lst' = malloc_free_lst /\ other' = other
  BY DEF kfree
<1>1. /\ Plain(u) \in Chunk /\ Plain(u) \in Chunks /\ Plain(u) = [at |-> u.at, size |-> u.size]
      /\ Plain(u).size = u.size
  BY HeapTyped DEF Plain
<1>2. {Plain(v) : v \in used'} = {Plain(v) : v \in used} \ {Plain(u)}
  <2>1. \A v \in used : Plain(v) = Plain(u) => v = u
    BY DEF HeapInv, Tiled, Partition
  <2> QED
    BY <1>0, <2>1
<1>3. Plain(u) \notin malloc_free_lst /\ Plain(u) \notin heap_hash
  BY FreeFacts
<1>4. Chunks' = malloc_free_lst' \cup heap_hash' \cup ({Plain(v) : v \in used} \ {Plain(u)})
  BY <1>2 DEF Chunks, Plain
<1>5. \A d \in Chunks : Aligned(d) /\ d.at + d.size <= Pages * PageSize
  BY DEF HeapInv, Tiled, Linkable, Inside, Aligned
<1>6. used_u8s' = SumFunction([v \in used' |-> v.size]) /\ used_u8s' \in Nat /\ IsFiniteSet(used')
  BY <1>0, LessBooks
<1>7. GrantCovers'
  BY <1>0 DEF HeapInv, BooksRight, GrantCovers
<1>8. \A v, w \in used' : Plain(v) = Plain(w) => v = w
  BY <1>0 DEF HeapInv, Tiled, Partition
<1>9. used' \subseteq [at : Address, size : 1..(Pages * PageSize), asked : Requests]
      /\ malloc_free_lst' \subseteq Chunk /\ other' \subseteq 0..(Pages - 1)
  BY <1>0 DEF HeapInv, TypeOK
<1>10. CASE SmallChunk(u)
  <2>1. heap_hash' = heap_hash \cup {Plain(u)} /\ blocks' = blocks /\ total_u8s' = total_u8s
    BY <1>1, <1>10 DEF kfree
  <2>2. Chunks' = Chunks
    <3>1. Plain(u) \in {Plain(v) : v \in used}
      OBVIOUS
    <3> QED
      BY <1>0, <1>4, <2>1, <3>1 DEF Chunks
  <2>3. TypeOK'
    BY <1>1, <1>6, <1>9, <2>1 DEF HeapInv, TypeOK, Chunk
  <2>4. BlocksApart'
    BY <1>0, <1>6, <2>1 DEF HeapInv, BlocksApart, Room, Body, BlockPages
  <2>5. Inside' /\ Linkable'
    BY <1>5, <2>2 DEF Inside, Linkable, Aligned
  <2>6. Partition'
    <3>1. /\ UNION {Bytes(c) : c \in Chunks} =
               UNION {Bytes(Body(b.first, b.pags)) : b \in blocks}
          /\ \A c, d \in Chunks : c # d => Bytes(c) \cap Bytes(d) = {}
      BY DEF HeapInv, Tiled, Partition
    <3>2. malloc_free_lst' \cap heap_hash' = {}
      BY <1>0, <1>3, <2>1, FreeFacts
    <3>3. \A v \in used' : Plain(v) \notin malloc_free_lst' \cup heap_hash'
      <4>1. \A v \in used' : Plain(v) # Plain(u)
        BY <1>2
      <4> QED
        BY <1>0, <2>1, <4>1, FreeFacts
    <3> QED
      BY <1>8, <2>1, <2>2, <3>1, <3>2, <3>3 DEF Partition, Bytes, Body, Plain
  <2>7. LargeAlone'
    BY <1>0, <2>1 DEF HeapInv, Tiled, LargeAlone, Plain, Body
  <2>8. BooksRight'
    BY <1>6, <1>7, <2>1 DEF HeapInv, BooksRight, CountersExact
  <2> QED
    BY <1>0, <2>3, <2>4, <2>5, <2>6, <2>7, <2>8 DEF HeapInv, Tiled
<1>11. CASE ~SmallChunk(u)
  <2>1. PICK b \in HeaderOf(u) : blocks' = blocks \ {b} /\ total_u8s' = LessTotal(b)
    BY <1>11 DEF kfree
  <2>2. heap_hash' = heap_hash
    BY <1>11 DEF kfree
  <2>3. b \in blocks /\ Plain(u) = Room(b)
    BY <1>11, HeaderFacts
  <2>4. Chunks' = Chunks \ {Plain(u)}
    BY <1>0, <1>3, <1>4, <2>2 DEF Chunks
  <2>5. TypeOK'
    <3>1. total_u8s' \in Nat
      BY <2>1, <2>3, LessBlocks
    <3>2. blocks' \subseteq blocks /\ heap_hash' \subseteq Chunk
      BY <2>1, <2>2 DEF HeapInv, TypeOK
    <3> QED
      BY <1>6, <1>9, <3>1, <3>2 DEF HeapInv, TypeOK, Chunk
  <2>6. BlocksApart'
    <3>1. IsFiniteSet(blocks')
      BY <2>1, <2>3, LessBlocks
    <3> QED
      BY <1>0, <1>6, <2>1, <3>1 DEF HeapInv, BlocksApart, Room, Body, BlockPages
  <2>7. Inside' /\ Linkable'
    BY <1>5, <2>4 DEF Inside, Linkable, Aligned
  <2>8. Partition'
    <3>1. Apart(Chunks \ {Plain(u)}) /\ Covers(Chunks \ {Plain(u)}, blocks \ {b})
      <4>1. \A a \in blocks : a # b => Bytes(Room(a)) \cap Bytes(Room(b)) = {}
        BY <2>3, FreeFacts, RoomsApart
      <4>2. PICK C, B, c : C = Chunks /\ B = blocks /\ c = Plain(u)
        OBVIOUS
      <4>3. /\ c \in C /\ b \in B /\ Bytes(c) = Bytes(Room(b)) /\ Apart(C) /\ Covers(C, B)
            /\ \A a \in B : a # b => Bytes(Room(a)) \cap Bytes(Room(b)) = {}
        BY <1>1, <2>3, <4>1, <4>2, HeapTyped
      <4>4. Apart(C \ {c}) /\ Covers(C \ {c}, B \ {b})
        BY ONLY <4>3, DropApart
      <4> QED
        BY <4>2, <4>4
    <3>2. Apart(Chunks') /\ Covers(Chunks', blocks')
      BY <2>1, <2>4, <3>1
    <3>3. UNION {Bytes(d) : d \in Chunks'} = UNION {Bytes(Body(a.first, a.pags)) : a \in blocks'}
      BY <3>2 DEF Covers, Room
    <3>4. \A d, e \in Chunks' : d # e => Bytes(d) \cap Bytes(e) = {}
      BY <3>2 DEF Apart
    <3>5. malloc_free_lst' \cap heap_hash' = {}
      BY <1>0, <2>2, FreeFacts
    <3>6. \A v \in used' : Plain(v) \notin malloc_free_lst' \cup heap_hash'
      BY <1>0, <2>2, FreeFacts
    <3> QED
      BY <1>8, <3>3, <3>4, <3>5, <3>6 DEF Partition, Bytes, Body, Plain
  <2>9. LargeAlone'
    <3>1. ASSUME NEW v \in used'
          PROVE  v.size >= HashSize <=> \E a \in blocks' : Plain(v) = Room(a)
      <4>1. v.size >= HashSize <=> \E a \in blocks : Plain(v) = Room(a)
        BY <1>0 DEF HeapInv, Tiled, LargeAlone, Room
      <4>2. Plain(v) # Room(b)
        BY <1>2, <2>3
      <4> QED
        BY <2>1, <4>1, <4>2
    <3> QED
      BY <3>1 DEF LargeAlone, Room, Plain, Body
  <2>10. BooksRight'
    <3>1. total_u8s' = SumFunction([a \in blocks' |-> a.pags * PageSize])
      BY <2>1, <2>3, LessBlocks
    <3> QED
      BY <1>6, <1>7, <3>1 DEF BooksRight, CountersExact
  <2> QED
    BY <1>0, <2>5, <2>6, <2>7, <2>8, <2>9, <2>10 DEF HeapInv, Tiled
<1> QED
  BY <1>10, <1>11

\* The heap does not mind what others take and give back of the pages it has not.
LEMMA OthersInv ==
    ASSUME HeapInv, UNCHANGED <<malloc_free_lst, heap_hash, used, blocks, used_u8s, total_u8s>>,
           other' \subseteq 0..(Pages - 1), \A b \in blocks : other' \cap BlockPages(b) = {}
    PROVE  HeapInv'
<1>0. /\ malloc_free_lst' = malloc_free_lst /\ heap_hash' = heap_hash /\ used' = used
      /\ blocks' = blocks /\ used_u8s' = used_u8s /\ total_u8s' = total_u8s
  OBVIOUS
<1>1. TypeOK'
  BY <1>0 DEF HeapInv, TypeOK
<1>2. BlocksApart'
  BY <1>0 DEF HeapInv, BlocksApart, Room, Body, BlockPages
<1>3. Chunks' = Chunks
  BY <1>0 DEF Chunks, Plain
<1>4. Inside' /\ Linkable'
  BY <1>3 DEF HeapInv, Tiled, Inside, Linkable
<1>5. Partition'
  BY <1>0, <1>3 DEF HeapInv, Tiled, Partition, Bytes, Body, Plain
<1>6. LargeAlone'
  BY <1>0 DEF HeapInv, Tiled, LargeAlone, Plain, Body
<1>7. BooksRight'
  BY <1>0 DEF HeapInv, BooksRight, CountersExact, GrantCovers
<1> QED
  BY <1>1, <1>2, <1>4, <1>5, <1>6, <1>7 DEF HeapInv, Tiled

\* The empty heap.
LEMMA HeapStart == ASSUME Init PROVE HeapInv
<1>0. /\ malloc_free_lst = {} /\ heap_hash = {} /\ used = {} /\ blocks = {} /\ other = {}
      /\ used_u8s = 0 /\ total_u8s = 0
  BY DEF Init
<1>1. TypeOK
  BY <1>0 DEF TypeOK
<1>2. BlocksApart
  BY <1>0, FS_EmptySet DEF BlocksApart
<1>3. Chunks = {}
  BY <1>0 DEF Chunks
<1>4. Inside /\ Tiled
  BY <1>0, <1>3 DEF Inside, Tiled, Partition, Linkable, LargeAlone
<1>5. BooksRight
  <2>1. PICK f, g : f = [u \in used |-> u.size] /\ g = [b \in blocks |-> b.pags * PageSize]
    OBVIOUS
  <2>2. SumFunction(f) = 0 /\ SumFunction(g) = 0
    BY <1>0, <2>1, SumEmpty
  <2> QED
    BY <1>0, <2>1, <2>2 DEF BooksRight, CountersExact, GrantCovers
<1> QED
  BY <1>1, <1>2, <1>4, <1>5 DEF HeapInv

-----------------------------------------------------------------------------
\* The loader, and who owns what.
\* Who has which pages, without the heap.
Pgs(o) == BlockPages(o.t) \cup BlockPages(o.stk) \cup BlockPages(o.image)
OwnApart(o) ==
    /\ BlockPages(o.t) \cap BlockPages(o.stk) = {}
    /\ BlockPages(o.t) \cap BlockPages(o.image) = {}
    /\ BlockPages(o.stk) \cap BlockPages(o.image) = {}
PagesApart(T, l, O) ==
    /\ O = (UNION {Pgs(o) : o \in T}) \cup Pgs(l)
    /\ OwnApart(l) /\ \A o \in T : OwnApart(o) /\ Pgs(o) \cap Pgs(l) = {}
    /\ \A a, b \in T : a # b => Pgs(a) \cap Pgs(b) = {}

\* The load takes R.
LEMMA LoadTakes ==
    ASSUME NEW T, NEW l, NEW O, NEW m, NEW R, PagesApart(T, l, O),
           R \cap O = {}, Pgs(m) = Pgs(l) \cup R, OwnApart(m)
    PROVE  PagesApart(T, m, O \cup R)
BY DEF PagesApart

\* What the load has, and R, goes to a new task.
LEMMA LoadHandsOver ==
    ASSUME NEW T, NEW l, NEW O, NEW m, NEW s, NEW R, PagesApart(T, l, O),
           R \cap O = {}, Pgs(s) = Pgs(l) \cup R, OwnApart(s), Pgs(m) = {}
    PROVE  PagesApart(T \cup {s}, m, O \cup R)
<1>1. \A o \in T : Pgs(o) \subseteq O
  BY DEF PagesApart
<1>2. \A o \in T : Pgs(o) \cap Pgs(s) = {}
  BY <1>1 DEF PagesApart
<1>3. OwnApart(m)
  BY DEF OwnApart, Pgs
<1>4. O \cup R = (UNION {Pgs(o) : o \in T \cup {s}}) \cup Pgs(m)
  BY DEF PagesApart
<1> QED
  BY <1>2, <1>3, <1>4 DEF PagesApart

\* The load gives R back.
LEMMA LoadGives ==
    ASSUME NEW T, NEW l, NEW O, NEW m, NEW R, PagesApart(T, l, O),
           R \subseteq Pgs(l), Pgs(m) = Pgs(l) \ R, OwnApart(m)
    PROVE  PagesApart(T, m, O \ R)
<1>1. \A o \in T : Pgs(o) \cap R = {}
  BY DEF PagesApart
<1>2. O \ R = (UNION {Pgs(o) : o \in T}) \cup Pgs(m)
  BY <1>1 DEF PagesApart
<1> QED
  BY <1>2 DEF PagesApart

\* A task gives back all it has.
LEMMA TaskGives ==
    ASSUME NEW T, NEW l, NEW O, NEW o \in T, PagesApart(T, l, O)
    PROVE  PagesApart(T \ {o}, l, O \ Pgs(o))
<1>1. \A p \in T \ {o} : Pgs(p) \cap Pgs(o) = {}
  BY DEF PagesApart
<1>2. Pgs(l) \cap Pgs(o) = {}
  BY DEF PagesApart
<1>3. O \ Pgs(o) = (UNION {Pgs(p) : p \in T \ {o}}) \cup Pgs(l)
  BY <1>1, <1>2 DEF PagesApart
<1> QED
  BY <1>3 DEF PagesApart

-----------------------------------------------------------------------------
\* The inductive invariant of the loader: at each point of exec_load, which of its locals
\* are set.
Buffered == {"read", "check", "image", "copy", "free"}
LoadRight(l) ==
    /\ l.at = "idle" => l = Idle
    /\ l.at \in {"buffer", "read", "check", "image", "copy"} => l.file # NULL
    /\ l.at \in {"image", "copy"} => WellFormed(l.file)
    /\ l.buf # NULL <=> l.at \in Buffered
    /\ l.at \in {"idle", "buffer", "read", "check", "image", "free"} => l.image = None
    /\ l.at \notin {"stack", "undo_task"} => l.t = None
    /\ l.at # "undo_stack" => l.stk = None
    /\ l.image # None =>
          l.file # NULL /\ WellFormed(l.file) /\ l.image.pags = RoundUp(l.file.image_size)

LoaderInv ==
    /\ HeapInv /\ LoaderTypeOK
    /\ PagesApart(tasks, load, other) /\ ChunksOwned
    /\ EntryInside /\ LoadRight(load)

Points == {"idle", "buffer", "read", "check", "image", "copy", "free", "task",
           "stack", "undo_task", "undo_stack", "undo_image"}
Loads(U) == [at : Points, file : Files \cup {NULL}, buf : U \cup {NULL},
             image : Run, t : Run, stk : Run]

\* No run has no pages.
LEMMA NoneFacts == BlockPages(None) = {} /\ None \in Run /\ None.pags = 0
<1>1. 0 \in 0..(Pages - 1)
  <2>1. Pages \in Nat \ {0}
    BY SizeAssumption
  <2> QED
    BY <2>1
<1> QED
  BY <1>1, SizeFacts DEF BlockPages, None, Run

\* A load with everything else unset.
LEMMA IdleFacts ==
    /\ Idle.at = "idle" /\ Idle.file = NULL /\ Idle.buf = NULL
    /\ Idle.image = None /\ Idle.t = None /\ Idle.stk = None
    /\ Pgs(Idle) = {} /\ OwnApart(Idle) /\ LoadRight(Idle)
    /\ \A U : Idle \in Loads(U)
<1>1. /\ Idle.at = "idle" /\ Idle.file = NULL /\ Idle.buf = NULL
      /\ Idle.image = None /\ Idle.t = None /\ Idle.stk = None
  BY DEF Idle
<1>2. Pgs(Idle) = {} /\ OwnApart(Idle)
  BY <1>1, NoneFacts DEF Pgs, OwnApart
<1>3. LoadRight(Idle)
  BY <1>1 DEF LoadRight, Buffered
<1>4. \A U : Idle \in Loads(U)
  BY NoneFacts DEF Loads, Points, Idle
<1> QED
  BY <1>1, <1>2, <1>3, <1>4

\* Enough pages for so many bytes.
LEMMA RoundUpFacts ==
    ASSUME NEW bytes \in Nat
    PROVE  RoundUp(bytes) \in Nat /\ RoundUp(bytes) * PageSize \in Nat
           /\ bytes <= RoundUp(bytes) * PageSize
<1> DEFINE x == bytes + PageSize - 1
<1>1. x \in Nat /\ PageSize \in Nat \ {0}
  BY SizeFacts
<1>2. RoundUp(bytes) = x \div PageSize
  BY DEF RoundUp
<1> HIDE DEF x
<1>3. RoundUp(bytes) \in Nat /\ RoundUp(bytes) * PageSize \in Nat
      /\ x < RoundUp(bytes) * PageSize + PageSize
  BY <1>1, <1>2, RoundsDown
<1> QED
  BY <1>1, <1>3 DEF x

\* What a state of the invariant looks like.
LEMMA LoaderTyped ==
    ASSUME LoaderInv
    PROVE  /\ load \in Loads(used)
           /\ load.file # NULL => /\ load.file \in Files /\ load.file.size \in Requests
                                  /\ load.file.image_size \in Nat /\ load.file.entry \in Nat
                                  /\ load.file.stack \in Nat
           /\ DefaultStack \in Nat /\ TaskPages \in Nat /\ TkxHeader \in Nat /\ TableSize \in Nat
           /\ \A f \in Files : f # NULL /\ f.size \in Requests
           /\ NULL \notin used
<1>1. load \in Loads(used)
  BY DEF LoaderInv, LoaderTypeOK, Loads, Points
<1>2. \A f \in Files : /\ f # NULL /\ f.size \in Requests /\ f.image_size \in Nat
                       /\ f.entry \in Nat /\ f.stack \in Nat
  BY LoaderAssumption
<1>3. load.file \in Files \cup {NULL}
  BY <1>1 DEF Loads
<1>4. NULL \notin used
  <2>1. \A u \in used : u \in [at : Nat, size : Nat, asked : Nat]
    <3>1. \A u \in used : u.at \in Nat /\ u.size \in Nat /\ u.asked \in Nat
                          /\ u = [at |-> u.at, size |-> u.size, asked |-> u.asked]
      BY HeapTyped, SizeFacts DEF LoaderInv
    <3> QED
      BY <3>1
  <2> QED
    BY <2>1, LoaderAssumption
<1>5. DefaultStack \in Nat /\ TaskPages \in Nat /\ TkxHeader \in Nat /\ TableSize \in Nat
  BY LoaderAssumption
<1> QED
  BY <1>1, <1>2, <1>3, <1>4, <1>5

\* One step of the page allocator, or of the heap, under the loader.
LEMMA TakeFacts ==
    ASSUME HeapInv, NEW n \in Nat, NEW first \in FreeRuns(n), NEW run,
           run = [first |-> first, pags |-> n], TakePages(run)
    PROVE  /\ HeapInv' /\ run \in Run /\ run # None /\ run.pags = n
           /\ BlockPages(run) \cap other = {} /\ other' = other \cup BlockPages(run)
           /\ used' = used
<1>0. n # 0 /\ first \in 0..(Pages - n) /\ (first..(first + n - 1)) \cap Taken = {}
  <2>1. n # 0
    BY DEF FreeRuns
  <2> QED
    BY <2>1 DEF FreeRuns
<1>1. run.first = first /\ run.pags = n /\ BlockPages(run) = first..(first + n - 1)
  BY DEF BlockPages
<1>2. run \in Run /\ BlockPages(run) \subseteq 0..(Pages - 1)
  BY <1>0, <1>1, SizeFacts DEF Run
<1>3. run # None
  BY <1>0, <1>1, NoneFacts
<1>4. BlockPages(run) \cap other = {} /\ \A b \in blocks : BlockPages(run) \cap BlockPages(b) = {}
  BY <1>0, <1>1 DEF Taken
<1>5. other' = other \cup BlockPages(run) /\ UNCHANGED heapVars
  BY DEF TakePages
<1>6. HeapInv'
  <2>1. other' \subseteq 0..(Pages - 1)
    BY <1>2, <1>5 DEF HeapInv, TypeOK
  <2>2. \A b \in blocks : other' \cap BlockPages(b) = {}
    BY <1>4, <1>5, FreeFacts
  <2> QED
    BY <1>5, <2>1, <2>2, OthersInv DEF heapVars
<1> QED
  BY <1>1, <1>2, <1>3, <1>4, <1>5, <1>6 DEF heapVars

\* Pages given back do not touch the heap.
LEMMA GiveFacts ==
    ASSUME HeapInv, UNCHANGED heapVars, other' \subseteq other
    PROVE  HeapInv' /\ used' = used
<1>1. other' \subseteq 0..(Pages - 1) /\ \A b \in blocks : other' \cap BlockPages(b) = {}
  BY FreeFacts DEF HeapInv, TypeOK
<1> QED
  BY <1>1, OthersInv DEF heapVars

\* Nor does a step of the loader alone.
LEMMA StutterFacts ==
    ASSUME HeapInv, UNCHANGED vars
    PROVE  HeapInv' /\ used' = used /\ other' = other
BY GiveFacts DEF vars, heapVars

\* New is the chunk that kmalloc handed out.
LEMMA AllocFacts ==
    ASSUME HeapInv, NEW size \in Requests, kmalloc(size)
    PROVE  /\ HeapInv' /\ other' = other
           /\ New \notin used /\ used' = used \cup {New}
<1>1. HeapInv' /\ HandedOut(size)
  BY KmallocInv
<1>2. PICK c : c \notin used /\ used' = used \cup {c}
  BY <1>1 DEF HandedOut
<1>3. New = c
  BY <1>2 DEF New
<1> QED
  BY <1>1, <1>2, <1>3 DEF HandedOut

Tasks == [t : Run, stk : Run, image : Run, entry : Nat]
HasBuffer(l) == {l.buf} \ {NULL}

\* A step that changes no owner but the load.
LEMMA LoadSteps ==
    ASSUME LoaderInv, HeapInv', KeepOwners,
           load' \in Loads(used'), LoadRight(load'), PagesApart(tasks, load', other'),
           used' = (used \ HasBuffer(load)) \cup HasBuffer(load'),
           HasBuffer(load') \cap (used \ HasBuffer(load)) = {}
    PROVE  LoaderInv'
<1>0. tasks' = tasks /\ owns' = owns /\ orphans' = orphans /\ shell_allocs' = shell_allocs
  BY DEF KeepOwners
<1>1. /\ used \ HasBuffer(load) = Mine \cup orphans \cup shell_allocs
      /\ Mine \cap orphans = {} /\ (Mine \cup orphans) \cap shell_allocs = {}
      /\ \A o, p \in owns : o[2] = p[2] => o = p
  BY DEF LoaderInv, ChunksOwned, Buffer, HasBuffer
<1>2. Mine' = Mine /\ Buffer' = HasBuffer(load')
  BY <1>0 DEF Mine, Buffer, HasBuffer
<1>3. ChunksOwned'
  BY <1>0, <1>1, <1>2 DEF ChunksOwned
<1>4. LoaderTypeOK'
  <2>1. TypeOK'
    BY DEF HeapInv
  <2>2. tasks' \subseteq Tasks /\ Cardinality(shell_allocs') <= TableSize
    BY <1>0 DEF LoaderInv, LoaderTypeOK, Tasks
  <2>3. orphans' \subseteq used' /\ shell_allocs' \subseteq used' /\ Mine \subseteq used'
    BY <1>0, <1>1
  <2>4. owns' \subseteq tasks' \X used'
    <3>1. owns \subseteq tasks \X used
      BY DEF LoaderInv, LoaderTypeOK
    <3>2. \A o \in owns : o[2] \in Mine
      BY DEF Mine
    <3> QED
      BY <1>0, <2>3, <3>1, <3>2
  <2> QED
    BY <2>1, <2>2, <2>3, <2>4 DEF LoaderTypeOK, Loads, Points, Tasks
<1>5. EntryInside'
  BY <1>0 DEF LoaderInv, EntryInside
<1> QED
  BY <1>0, <1>3, <1>4, <1>5 DEF LoaderInv

\* The same, when the load keeps its page runs and its buffer too.
LEMMA LoadMoves ==
    ASSUME LoaderInv, KeepOwners, UNCHANGED vars, load' \in Loads(used), LoadRight(load'),
           load'.buf = load.buf, load'.t = load.t, load'.stk = load.stk, load'.image = load.image
    PROVE  LoaderInv'
<1>1. HeapInv' /\ used' = used /\ other' = other
  BY StutterFacts DEF LoaderInv
<1>2. PagesApart(tasks, load', other')
  <2>1. Pgs(load') = Pgs(load) \cup {} /\ OwnApart(load')
    BY DEF LoaderInv, PagesApart, Pgs, OwnApart
  <2>2. PagesApart(tasks, load', other \cup {})
    BY <2>1, LoadTakes DEF LoaderInv
  <2> QED
    BY <1>1, <2>2
<1>3. HasBuffer(load) \subseteq used /\ HasBuffer(load') = HasBuffer(load)
  BY LoaderTyped DEF HasBuffer, Loads
<1> QED
  BY <1>1, <1>2, <1>3, LoadSteps

\* One lemma for each step of exec_load and task_create.
LEMMA ExecBeginInv == ASSUME LoaderInv, NEW f \in Files, ExecBegin(f) PROVE LoaderInv'
<1>1. load = Idle /\ load' = [Idle EXCEPT !.at = "buffer", !.file = f]
  BY DEF LoaderInv, LoadRight, ExecBegin, At
<1>2. /\ load'.at = "buffer" /\ load'.file = f /\ load'.buf = NULL
      /\ load'.image = None /\ load'.t = None /\ load'.stk = None
  BY <1>1 DEF Idle
<1>3. load' \in Loads(used)
  BY <1>1, NoneFacts DEF Loads, Points, Idle
<1>4. LoadRight(load')
  BY <1>2, LoaderTyped DEF LoadRight, Buffered
<1> QED
  BY <1>1, <1>2, <1>3, <1>4, IdleFacts, LoadMoves DEF ExecBegin

LEMMA DemoBeginInv == ASSUME LoaderInv, DemoBegin PROVE LoaderInv'
<1>1. load = Idle /\ load' = [Idle EXCEPT !.at = "task"]
  BY DEF LoaderInv, LoadRight, DemoBegin, At, Goto
<1>2. /\ load'.at = "task" /\ load'.file = NULL /\ load'.buf = NULL
      /\ load'.image = None /\ load'.t = None /\ load'.stk = None
  BY <1>1 DEF Idle
<1>3. load' \in Loads(used)
  BY <1>1, NoneFacts DEF Loads, Points, Idle
<1>4. LoadRight(load')
  BY <1>2 DEF LoadRight, Buffered
<1> QED
  BY <1>1, <1>2, <1>3, <1>4, IdleFacts, LoadMoves DEF DemoBegin

\* Where a load stands, and its locals, one by one.
LEMMA LoadTyped ==
    ASSUME LoaderInv
    PROVE  /\ load = [at |-> load.at, file |-> load.file, buf |-> load.buf,
                      image |-> load.image, t |-> load.t, stk |-> load.stk]
           /\ load.at \in Points /\ load.file \in Files \cup {NULL}
           /\ load.buf \in used \cup {NULL}
           /\ load.image \in Run /\ load.t \in Run /\ load.stk \in Run
           /\ \A p \in Points : /\ [load EXCEPT !.at = p] \in Loads(used)
                                /\ [load EXCEPT !.at = p].at = p
                                /\ [load EXCEPT !.at = p].file = load.file
                                /\ [load EXCEPT !.at = p].buf = load.buf
                                /\ [load EXCEPT !.at = p].image = load.image
                                /\ [load EXCEPT !.at = p].t = load.t
                                /\ [load EXCEPT !.at = p].stk = load.stk
<1>1. load \in Loads(used)
  BY LoaderTyped
<1> QED
  BY <1>1 DEF Loads

\* The same, when the load only goes on to the next point.
LEMMA GotoInv ==
    ASSUME LoaderInv, KeepOwners, UNCHANGED vars, NEW p \in Points, Goto(p),
           \A l : /\ l.at = p /\ l.file = load.file /\ l.buf = load.buf /\ l.image = load.image
                  /\ l.t = load.t /\ l.stk = load.stk
                  => LoadRight(l)
    PROVE  LoaderInv'
<1>1. load' = [load EXCEPT !.at = p]
  BY DEF Goto
<1>2. /\ load'.at = p /\ load'.file = load.file /\ load'.buf = load.buf
      /\ load'.image = load.image /\ load'.t = load.t /\ load'.stk = load.stk
      /\ load' \in Loads(used)
  BY <1>1, LoadTyped
<1>3. LoadRight(load')
  BY <1>2
<1> QED
  BY <1>2, <1>3, LoadMoves

LEMMA ExecReadInv == ASSUME LoaderInv, ExecRead PROVE LoaderInv'
<1>1. load.at = "read" /\ KeepOwners /\ UNCHANGED vars /\ LoadRight(load)
  BY DEF LoaderInv, ExecRead, At
<1>2. CASE Goto("check")
  BY <1>1, <1>2, GotoInv DEF LoadRight, Buffered, Points
<1>3. CASE Goto("free")
  BY <1>1, <1>3, GotoInv DEF LoadRight, Buffered, Points
<1> QED
  BY <1>2, <1>3 DEF ExecRead

LEMMA ExecCheckInv == ASSUME LoaderInv, ExecCheck PROVE LoaderInv'
<1>1. load.at = "check" /\ KeepOwners /\ UNCHANGED vars /\ LoadRight(load)
  BY DEF LoaderInv, ExecCheck, At
<1>2. CASE WellFormed(load.file) /\ Goto("image")
  BY <1>1, <1>2, GotoInv DEF LoadRight, Buffered, Points
<1>3. CASE Goto("free")
  BY <1>1, <1>3, GotoInv DEF LoadRight, Buffered, Points
<1> QED
  BY <1>2, <1>3 DEF ExecCheck

LEMMA ExecBufferInv == ASSUME LoaderInv, ExecBuffer PROVE LoaderInv'
<1>1. load.at = "buffer" /\ KeepOwners /\ LoadRight(load) /\ load.file # NULL
      /\ load.buf = NULL /\ load.image = None /\ load.t = None /\ load.stk = None
  BY DEF LoaderInv, LoadRight, Buffered, ExecBuffer, At
<1>2. CASE kmalloc(load.file.size) /\ load' = [load EXCEPT !.at = "read", !.buf = New]
  <2>1. load.file.size \in Requests
    BY <1>1, LoaderTyped
  <2>2. HeapInv' /\ other' = other /\ New \notin used /\ used' = used \cup {New}
    BY <1>2, <2>1, AllocFacts DEF LoaderInv
  <2>3. PICK c : c = New
    OBVIOUS
  <2>4. load' = [load EXCEPT !.at = "read", !.buf = c]
    BY <1>2, <2>3
  <2>5. /\ load'.at = "read" /\ load'.file = load.file /\ load'.buf = c
        /\ load'.image = load.image /\ load'.t = load.t /\ load'.stk = load.stk
        /\ load' \in Loads(used')
    <3>1. load' = [at |-> "read", file |-> load.file, buf |-> c,
                   image |-> load.image, t |-> load.t, stk |-> load.stk]
      BY <2>4, LoadTyped
    <3>2. /\ "read" \in Points /\ load.file \in Files \cup {NULL} /\ c \in used' \cup {NULL}
          /\ load.image \in Run /\ load.t \in Run /\ load.stk \in Run
      BY <2>2, <2>3, LoadTyped DEF Points
    <3>3. load' \in Loads(used')
      BY <3>1, <3>2 DEF Loads
    <3> QED
      BY <3>1, <3>3
  <2>6. c # NULL
    <3>1. c.at \in Nat /\ c.size \in Nat /\ c.asked \in Nat
          /\ c = [at |-> c.at, size |-> c.size, asked |-> c.asked]
      <4>1. c \in [at : Address, size : 1..(Pages * PageSize), asked : Requests]
        BY <2>2, <2>3 DEF HeapInv, TypeOK
      <4> QED
        BY <4>1, SizeFacts DEF Address
    <3> QED
      BY <3>1, LoaderAssumption
  <2>7. LoadRight(load')
    BY <1>1, <2>5, <2>6 DEF LoadRight, Buffered
  <2>8. PagesApart(tasks, load', other')
    <3>1. Pgs(load') = Pgs(load) \cup {} /\ OwnApart(load')
      BY <2>5 DEF LoaderInv, PagesApart, Pgs, OwnApart
    <3>2. PagesApart(tasks, load', other \cup {})
      BY <3>1, LoadTakes DEF LoaderInv
    <3> QED
      BY <2>2, <3>2
  <2>9. HasBuffer(load) = {} /\ HasBuffer(load') = {c}
    BY <1>1, <2>5, <2>6 DEF HasBuffer
  <2> QED
    BY <1>1, <2>2, <2>3, <2>5, <2>7, <2>8, <2>9, LoadSteps
<1>3. CASE load' = Idle /\ UNCHANGED vars
  BY <1>1, <1>3, IdleFacts, LoadMoves
<1> QED
  BY <1>1, <1>2, <1>3 DEF ExecBuffer

LEMMA ExecImageInv == ASSUME LoaderInv, ExecImage PROVE LoaderInv'
<1>1. load.at = "image" /\ KeepOwners /\ LoadRight(load) /\ load.file # NULL
      /\ WellFormed(load.file) /\ load.image = None /\ load.t = None /\ load.stk = None
      /\ load.buf # NULL
  BY DEF LoaderInv, LoadRight, Buffered, ExecImage, At
<1>2. PICK n : n = RoundUp(load.file.image_size)
  OBVIOUS
<1>3. n \in Nat
  BY <1>1, <1>2, LoaderTyped, RoundUpFacts
<1>4. ASSUME NEW first \in FreeRuns(n), NEW run, run = [first |-> first, pags |-> n],
             TakePages(run), load' = [load EXCEPT !.at = "copy", !.image = run]
      PROVE  LoaderInv'
  <2>1. /\ HeapInv' /\ run \in Run /\ run # None /\ run.pags = n
        /\ BlockPages(run) \cap other = {} /\ other' = other \cup BlockPages(run)
        /\ used' = used
    BY <1>3, <1>4, TakeFacts DEF LoaderInv
  <2>2. /\ load'.at = "copy" /\ load'.file = load.file /\ load'.buf = load.buf
        /\ load'.image = run /\ load'.t = None /\ load'.stk = None
        /\ load' \in Loads(used)
    <3>1. load' = [at |-> "copy", file |-> load.file, buf |-> load.buf,
                   image |-> run, t |-> load.t, stk |-> load.stk]
      BY <1>4, LoadTyped
    <3>2. /\ "copy" \in Points /\ load.file \in Files \cup {NULL} /\ load.buf \in used \cup {NULL}
          /\ run \in Run /\ load.t \in Run /\ load.stk \in Run
      BY <2>1, LoadTyped DEF Points
    <3>3. load' \in Loads(used)
      BY <3>1, <3>2 DEF Loads
    <3> QED
      BY <1>1, <3>1, <3>3
  <2>3. LoadRight(load')
    BY <1>1, <1>2, <2>1, <2>2 DEF LoadRight, Buffered
  <2>4. PagesApart(tasks, load', other')
    <3>1. Pgs(load') = Pgs(load) \cup BlockPages(run) /\ OwnApart(load')
      BY <1>1, <2>2, NoneFacts DEF Pgs, OwnApart
    <3>2. PagesApart(tasks, load', other \cup BlockPages(run))
      BY <2>1, <3>1, LoadTakes DEF LoaderInv
    <3> QED
      BY <2>1, <3>2
  <2>5. HasBuffer(load) \subseteq used /\ HasBuffer(load') = HasBuffer(load)
    BY <2>2, LoaderTyped DEF HasBuffer, Loads
  <2> QED
    BY <1>1, <2>1, <2>2, <2>3, <2>4, <2>5, LoadSteps
<1>5. CASE Goto("free") /\ UNCHANGED vars
  BY <1>1, <1>5, GotoInv DEF LoadRight, Buffered, Points
<1> QED
  BY <1>2, <1>4, <1>5 DEF ExecImage

\* The buffer is freed.
LEMMA BufferGone ==
    ASSUME LoaderInv, load.buf # NULL, kfree(load.buf), KeepOwners,
           load'.buf = NULL, load' \in Loads({}), LoadRight(load'),
           load'.t = load.t, load'.stk = load.stk, load'.image = load.image
    PROVE  LoaderInv'
<1>1. load.buf \in used
  BY LoadTyped
<1>2. HeapInv' /\ other' = other /\ used' = used \ {load.buf}
  BY <1>1, KfreeInv DEF LoaderInv
<1>3. PagesApart(tasks, load', other')
  <2>1. Pgs(load') = Pgs(load) \cup {} /\ OwnApart(load')
    BY DEF LoaderInv, PagesApart, Pgs, OwnApart
  <2>2. PagesApart(tasks, load', other \cup {})
    BY <2>1, LoadTakes DEF LoaderInv
  <2> QED
    BY <1>2, <2>2
<1>4. HasBuffer(load) = {load.buf} /\ HasBuffer(load') = {}
  BY DEF HasBuffer
<1>5. load' \in Loads(used')
  BY DEF Loads
<1> QED
  BY <1>2, <1>3, <1>4, <1>5, LoadSteps

LEMMA ExecCopyInv == ASSUME LoaderInv, ExecCopy PROVE LoaderInv'
<1>1. /\ load.at = "copy" /\ KeepOwners /\ LoadRight(load) /\ kfree(load.buf) /\ load.buf # NULL
      /\ load' = [load EXCEPT !.at = "task", !.buf = NULL]
  BY DEF LoaderInv, LoadRight, Buffered, ExecCopy, At
<1>2. /\ load'.at = "task" /\ load'.file = load.file /\ load'.buf = NULL
      /\ load'.image = load.image /\ load'.t = load.t /\ load'.stk = load.stk
      /\ load' \in Loads({})
  <2>1. load' = [at |-> "task", file |-> load.file, buf |-> NULL,
                 image |-> load.image, t |-> load.t, stk |-> load.stk]
    BY <1>1, LoadTyped
  <2>2. load' \in Loads({})
    BY <2>1, LoadTyped DEF Loads, Points
  <2> QED
    BY <2>1, <2>2
<1>3. LoadRight(load')
  BY <1>1, <1>2 DEF LoadRight, Buffered
<1> QED
  BY <1>1, <1>2, <1>3, BufferGone

LEMMA ExecFreeInv == ASSUME LoaderInv, ExecFree PROVE LoaderInv'
<1>1. /\ load.at = "free" /\ KeepOwners /\ LoadRight(load) /\ kfree(load.buf) /\ load.buf # NULL
      /\ load.image = None /\ load.t = None /\ load.stk = None /\ load' = Idle
  BY DEF LoaderInv, LoadRight, Buffered, ExecFree, FreeBuffer, At
<1> QED
  BY <1>1, IdleFacts, BufferGone

LEMMA TaskStructInv == ASSUME LoaderInv, TaskStruct PROVE LoaderInv'
<1>1. load.at = "task" /\ KeepOwners /\ LoadRight(load) /\ load.t = None /\ load.stk = None
      /\ load.buf = NULL /\ TaskPages \in Nat
  BY LoaderTyped DEF LoaderInv, LoadRight, Buffered, TaskStruct, At
<1>2. ASSUME NEW first \in FreeRuns(TaskPages), NEW run,
             run = [first |-> first, pags |-> TaskPages],
             TakePages(run), load' = [load EXCEPT !.at = "stack", !.t = run]
      PROVE  LoaderInv'
  <2>1. /\ HeapInv' /\ run \in Run /\ BlockPages(run) \cap other = {}
        /\ other' = other \cup BlockPages(run) /\ used' = used
    BY <1>1, <1>2, TakeFacts DEF LoaderInv
  <2>2. /\ load'.at = "stack" /\ load'.file = load.file /\ load'.buf = load.buf
        /\ load'.image = load.image /\ load'.t = run /\ load'.stk = None
        /\ load' \in Loads(used)
    <3>1. load' = [at |-> "stack", file |-> load.file, buf |-> load.buf,
                   image |-> load.image, t |-> run, stk |-> load.stk]
      BY <1>2, LoadTyped
    <3>2. /\ "stack" \in Points /\ load.file \in Files \cup {NULL} /\ load.buf \in used \cup {NULL}
          /\ run \in Run /\ load.image \in Run /\ load.stk \in Run
      BY <2>1, LoadTyped DEF Points
    <3>3. load' \in Loads(used)
      BY <3>1, <3>2 DEF Loads
    <3> QED
      BY <1>1, <3>1, <3>3
  <2>3. LoadRight(load')
    BY <1>1, <2>2 DEF LoadRight, Buffered
  <2>4. PagesApart(tasks, load', other')
    <3>0. BlockPages(load.image) \subseteq other
      BY DEF LoaderInv, PagesApart, Pgs
    <3>1. Pgs(load') = Pgs(load) \cup BlockPages(run) /\ OwnApart(load')
      BY <1>1, <2>1, <2>2, <3>0, NoneFacts DEF Pgs, OwnApart
    <3>2. PagesApart(tasks, load', other \cup BlockPages(run))
      BY <2>1, <3>1, LoadTakes DEF LoaderInv
    <3> QED
      BY <2>1, <3>2
  <2>5. HasBuffer(load) = {} /\ HasBuffer(load') = {}
    BY <1>1, <2>2 DEF HasBuffer
  <2> QED
    BY <1>1, <2>1, <2>2, <2>3, <2>4, <2>5, LoadSteps
<1>3. CASE Goto("stack") /\ UNCHANGED vars
  BY <1>1, <1>3, GotoInv DEF LoadRight, Buffered, Points
<1> QED
  BY <1>2, <1>3 DEF TaskStruct

\* A step that leaves everything right is a step of the invariant.
LEMMA OwnersStep ==
    ASSUME HeapInv', tasks' \subseteq Tasks, EntryInside', PagesApart(tasks', load', other'),
           load' \in Loads(used'), LoadRight(load'), ChunksOwned', owns' \subseteq tasks' \X used',
           Cardinality(shell_allocs') <= TableSize
    PROVE  LoaderInv'
<1>1. orphans' \subseteq used' /\ shell_allocs' \subseteq used'
  BY DEF ChunksOwned
<1>2. LoaderTypeOK'
  BY <1>1 DEF LoaderTypeOK, HeapInv, Loads, Points, Tasks
<1> QED
  BY <1>2 DEF LoaderInv

\* The size of a stack.
LEMMA StackFacts ==
    ASSUME LoaderInv
    PROVE  StackSize \in Nat /\ RoundUp(StackSize) \in Nat
<1>1. StackSize \in Nat
  BY LoaderTyped DEF StackSize
<1> QED
  BY <1>1, RoundUpFacts

\* The task is made: exec_load hands its pages over.
LEMMA StartedInv ==
    ASSUME LoaderInv, load.at = "stack", NEW first \in FreeRuns(RoundUp(StackSize)),
           NEW run, run = [first |-> first, pags |-> RoundUp(StackSize)],
           TakePages(run), load.t # None, tasks' = tasks \cup {Started(run)}, load' = Idle,
           UNCHANGED <<owns, orphans, shell_allocs>>
    PROVE  LoaderInv'
<1>1. LoadRight(load) /\ load.stk = None /\ load.buf = NULL
  BY DEF LoaderInv, LoadRight, Buffered
<1>2. /\ HeapInv' /\ run \in Run /\ BlockPages(run) \cap other = {}
      /\ other' = other \cup BlockPages(run) /\ used' = used
  BY StackFacts, TakeFacts DEF LoaderInv
<1> DEFINE s == Started(run)
<1>3. /\ s.t = load.t /\ s.stk = run /\ s.image = load.image
      /\ s.entry = IF load.file = NULL THEN 0 ELSE load.file.entry
      /\ s \in Tasks
  <2>1. load.t \in Run /\ load.image \in Run
    BY LoadTyped
  <2>2. (IF load.file = NULL THEN 0 ELSE load.file.entry) \in Nat
    BY LoaderTyped
  <2> QED
    BY <1>2, <2>1, <2>2 DEF Started, Tasks
<1> HIDE DEF s
<1>4. PagesApart(tasks', load', other')
  <2>1. BlockPages(load.image) \subseteq other /\ BlockPages(load.t) \subseteq other
        /\ OwnApart(load)
    BY DEF LoaderInv, PagesApart, Pgs
  <2>2. Pgs(s) = Pgs(load) \cup BlockPages(run) /\ OwnApart(s)
    BY <1>1, <1>2, <1>3, <2>1, NoneFacts DEF Pgs, OwnApart
  <2>3. PagesApart(tasks \cup {s}, Idle, other \cup BlockPages(run))
    BY <1>2, <2>2, IdleFacts, LoadHandsOver DEF LoaderInv
  <2> QED
    BY <1>2, <2>3 DEF s
<1>5. EntryInside'
  <2>1. s.image # None => s.entry < s.image.pags * PageSize
    <3> SUFFICES ASSUME load.image # None PROVE s.entry < load.image.pags * PageSize
      BY <1>3
    <3>1. load.file # NULL /\ WellFormed(load.file) /\ load.image.pags = RoundUp(load.file.image_size)
      BY <1>1 DEF LoadRight
    <3>2. /\ load.file.entry < load.file.image_size /\ load.file.entry \in Nat
          /\ load.file.image_size \in Nat
      BY <3>1, LoaderTyped DEF WellFormed
    <3>3. load.file.image_size <= RoundUp(load.file.image_size) * PageSize
          /\ RoundUp(load.file.image_size) * PageSize \in Nat
      BY <3>2, RoundUpFacts
    <3>4. s.entry = load.file.entry
      BY <1>3, <3>1
    <3> QED
      BY <3>1, <3>2, <3>3, <3>4
  <2> QED
    BY <2>1 DEF EntryInside, LoaderInv, s
<1>6. Buffer = {} /\ Buffer' = {} /\ Mine' = Mine
  BY <1>1, IdleFacts DEF Buffer, Mine
<1>7. ChunksOwned'
  BY <1>2, <1>6 DEF LoaderInv, ChunksOwned
<1>8. tasks' \subseteq Tasks /\ owns' \subseteq tasks' \X used' /\ Cardinality(shell_allocs') <= TableSize
  BY <1>2, <1>3 DEF LoaderInv, LoaderTypeOK, Tasks, s
<1> QED
  BY <1>2, <1>4, <1>5, <1>7, <1>8, IdleFacts, OwnersStep

LEMMA TaskStackInv == ASSUME LoaderInv, TaskStack PROVE LoaderInv'
<1>1. load.at = "stack" /\ UNCHANGED <<owns, orphans, shell_allocs>> /\ LoadRight(load)
      /\ load.stk = None /\ load.buf = NULL
  BY DEF LoaderInv, LoadRight, Buffered, TaskStack, At
<1>2. PICK n : n = RoundUp(StackSize)
  OBVIOUS
<1>3. n \in Nat
  BY <1>2, StackFacts
<1>4. ASSUME NEW first \in FreeRuns(n), NEW run, run = [first |-> first, pags |-> n],
             TakePages(run),
             IF load.t # None
             THEN tasks' = tasks \cup {Started(run)} /\ load' = Idle
             ELSE load' = [load EXCEPT !.at = "undo_stack", !.stk = run] /\ UNCHANGED tasks
      PROVE  LoaderInv'
  <2>1. CASE load.t # None
    BY <1>1, <1>2, <1>4, <2>1, StartedInv
  <2>2. CASE load.t = None
    <3>1. load' = [load EXCEPT !.at = "undo_stack", !.stk = run] /\ KeepOwners
      BY <1>1, <1>4, <2>2 DEF KeepOwners
    <3>2. /\ HeapInv' /\ run \in Run /\ BlockPages(run) \cap other = {}
          /\ other' = other \cup BlockPages(run) /\ used' = used
      BY <1>3, <1>4, TakeFacts DEF LoaderInv
    <3>3. /\ load'.at = "undo_stack" /\ load'.file = load.file /\ load'.buf = load.buf
          /\ load'.image = load.image /\ load'.t = None /\ load'.stk = run
          /\ load' \in Loads(used)
      <4>1. load' = [at |-> "undo_stack", file |-> load.file, buf |-> load.buf,
                     image |-> load.image, t |-> load.t, stk |-> run]
        BY <3>1, LoadTyped
      <4>2. /\ "undo_stack" \in Points /\ load.file \in Files \cup {NULL}
            /\ load.buf \in used \cup {NULL} /\ run \in Run /\ load.image \in Run /\ load.t \in Run
        BY <3>2, LoadTyped DEF Points
      <4>3. load' \in Loads(used)
        BY <4>1, <4>2 DEF Loads
      <4> QED
        BY <2>2, <4>1, <4>3
    <3>4. LoadRight(load')
      BY <1>1, <3>3 DEF LoadRight, Buffered
    <3>5. PagesApart(tasks, load', other')
      <4>0. BlockPages(load.image) \subseteq other
        BY DEF LoaderInv, PagesApart, Pgs
      <4>1. Pgs(load') = Pgs(load) \cup BlockPages(run) /\ OwnApart(load')
        BY <1>1, <2>2, <3>2, <3>3, <4>0, NoneFacts DEF Pgs, OwnApart
      <4>2. PagesApart(tasks, load', other \cup BlockPages(run))
        BY <3>2, <4>1, LoadTakes DEF LoaderInv
      <4> QED
        BY <3>2, <4>2
    <3>6. HasBuffer(load) = {} /\ HasBuffer(load') = {}
      BY <1>1, <3>3 DEF HasBuffer
    <3> QED
      BY <3>1, <3>2, <3>3, <3>4, <3>5, <3>6, LoadSteps
  <2> QED
    BY <2>1, <2>2
<1>5. ASSUME Goto(IF load.t # None THEN "undo_task" ELSE "undo_image"), UNCHANGED <<vars, tasks>>
      PROVE  LoaderInv'
  <2>1. KeepOwners /\ UNCHANGED vars
    BY <1>1, <1>5 DEF KeepOwners
  <2>2. CASE load.t # None /\ Goto("undo_task")
    BY <1>1, <2>1, <2>2, GotoInv DEF LoadRight, Buffered, Points
  <2>3. CASE load.t = None /\ Goto("undo_image")
    BY <1>1, <2>1, <2>3, GotoInv DEF LoadRight, Buffered, Points
  <2> QED
    BY <1>5, <2>2, <2>3
<1> QED
  BY <1>2, <1>4, <1>5 DEF TaskStack

LEMMA TaskUndoInv == ASSUME LoaderInv, TaskUndo PROVE LoaderInv'
<1>1. /\ load.at \in {"undo_task", "undo_stack"} /\ KeepOwners /\ LoadRight(load)
      /\ load.buf = NULL /\ UNCHANGED heapVars
      /\ other' = other \ UNION {BlockPages(r) : r \in {load.t, load.stk} \ {None}}
      /\ load' = [load EXCEPT !.at = "undo_image", !.t = None, !.stk = None]
  BY DEF LoaderInv, LoadRight, Buffered, TaskUndo, FreeTask, GivePages, At
<1> DEFINE R == BlockPages(load.t) \cup BlockPages(load.stk)
<1>2. other' = other \ R
  BY <1>1, NoneFacts
<1> HIDE DEF R
<1>3. HeapInv' /\ used' = used
  BY <1>1, <1>2, GiveFacts DEF LoaderInv
<1>4. /\ load'.at = "undo_image" /\ load'.file = load.file /\ load'.buf = load.buf
      /\ load'.image = load.image /\ load'.t = None /\ load'.stk = None
      /\ load' \in Loads(used)
  <2>1. load' = [at |-> "undo_image", file |-> load.file, buf |-> load.buf,
                 image |-> load.image, t |-> None, stk |-> None]
    BY <1>1, LoadTyped
  <2>2. /\ "undo_image" \in Points /\ load.file \in Files \cup {NULL}
        /\ load.buf \in used \cup {NULL} /\ None \in Run /\ load.image \in Run
    BY LoadTyped, NoneFacts DEF Points
  <2>3. load' \in Loads(used)
    BY <2>1, <2>2 DEF Loads
  <2> QED
    BY <2>1, <2>3
<1>5. LoadRight(load')
  BY <1>1, <1>4 DEF LoadRight, Buffered
<1>6. PagesApart(tasks, load', other')
  <2>1. OwnApart(load)
    BY DEF LoaderInv, PagesApart
  <2>2. R \subseteq Pgs(load) /\ Pgs(load') = Pgs(load) \ R /\ OwnApart(load')
    BY <1>4, <2>1, NoneFacts DEF Pgs, OwnApart, R
  <2>3. PagesApart(tasks, load', other \ R)
    BY <2>2, LoadGives DEF LoaderInv
  <2> QED
    BY <1>2, <2>3
<1>7. HasBuffer(load) = {} /\ HasBuffer(load') = {}
  BY <1>1, <1>4 DEF HasBuffer
<1> QED
  BY <1>1, <1>3, <1>4, <1>5, <1>6, <1>7, LoadSteps

LEMMA ExecUndoInv == ASSUME LoaderInv, ExecUndo PROVE LoaderInv'
<1>1. /\ load.at = "undo_image" /\ KeepOwners /\ LoadRight(load) /\ load.t = None /\ load.stk = None
      /\ load.buf = NULL /\ UNCHANGED heapVars
      /\ other' = other \ UNION {BlockPages(r) : r \in {load.image}}
      /\ load' = Idle
  BY DEF LoaderInv, LoadRight, Buffered, ExecUndo, GivePages, At
<1>2. other' = other \ BlockPages(load.image)
  BY <1>1
<1>3. HeapInv' /\ used' = used
  BY <1>1, <1>2, GiveFacts DEF LoaderInv
<1>4. PagesApart(tasks, load', other')
  <2>1. BlockPages(load.image) \subseteq Pgs(load) /\ Pgs(Idle) = Pgs(load) \ BlockPages(load.image)
        /\ OwnApart(Idle)
    BY <1>1, IdleFacts, NoneFacts DEF Pgs
  <2>2. PagesApart(tasks, Idle, other \ BlockPages(load.image))
    BY <2>1, LoadGives DEF LoaderInv
  <2> QED
    BY <1>1, <1>2, <2>2
<1>5. HasBuffer(load) = {} /\ HasBuffer(load') = {}
  BY <1>1, IdleFacts DEF HasBuffer
<1> QED
  BY <1>1, <1>3, <1>4, <1>5, IdleFacts, LoadSteps

\* Between two loads nothing but the chunks changes hands.
LEMMA Between ==
    ASSUME LoaderInv, HeapInv', other' = other, tasks' = tasks, load' = load,
           Buffer = {}, load \in Loads({}),
           ChunksOwned', owns' \subseteq tasks \X used', Cardinality(shell_allocs') <= TableSize
    PROVE  LoaderInv'
<1>1. PagesApart(tasks', load', other') /\ LoadRight(load') /\ load' \in Loads(used')
  BY DEF LoaderInv, Loads
<1>2. tasks' \subseteq Tasks /\ EntryInside'
  BY DEF LoaderInv, LoaderTypeOK, Tasks, EntryInside
<1> QED
  BY <1>1, <1>2, OwnersStep

\* Between two loads nothing is buffered.
LEMMA IdleLoad ==
    ASSUME LoaderInv, At("idle")
    PROVE  load = Idle /\ Buffer = {} /\ load \in Loads({}) /\ load.buf = NULL
BY IdleFacts DEF LoaderInv, LoadRight, At, Buffer

\* The books of the owners.
LEMMA OwnersTyped ==
    ASSUME LoaderInv
    PROVE  /\ owns \subseteq tasks \X used /\ Mine \subseteq used /\ orphans \subseteq used
           /\ shell_allocs \subseteq used /\ IsFiniteSet(shell_allocs)
           /\ Cardinality(shell_allocs) <= TableSize /\ Cardinality(shell_allocs) \in Nat
           /\ \A o \in owns : o = <<o[1], o[2]>> /\ o[1] \in tasks /\ o[2] \in used /\ o[2] \in Mine
<1>1. owns \subseteq tasks \X used /\ orphans \subseteq used /\ shell_allocs \subseteq used
      /\ Cardinality(shell_allocs) <= TableSize
  BY DEF LoaderInv, LoaderTypeOK
<1>2. IsFiniteSet(shell_allocs)
  BY <1>1, FS_Subset DEF LoaderInv, HeapInv, BlocksApart
<1> QED
  BY <1>1, <1>2, FS_CardinalityType DEF Mine

\* One lemma for each way a chunk or a task changes hands between loads.
LEMMA ReapInv == ASSUME LoaderInv, NEW task \in tasks, Reap(task) PROVE LoaderInv'
<1>1. /\ load = Idle /\ UNCHANGED <<shell_allocs, load>> /\ UNCHANGED heapVars
      /\ other' = other \ UNION {BlockPages(r) : r \in {task.t, task.stk, task.image}}
      /\ tasks' = tasks \ {task}
      /\ orphans' = orphans \cup {o[2] : o \in {p \in owns : p[1] = task}}
      /\ owns' = {o \in owns : o[1] # task}
      /\ Buffer = {}
  BY IdleLoad DEF Reap, GivePages, Reaped
<1>2. other' = other \ Pgs(task)
  BY <1>1 DEF Pgs
<1>3. HeapInv' /\ used' = used
  BY <1>1, <1>2, GiveFacts DEF LoaderInv
<1>4. PagesApart(tasks', load', other')
  BY <1>1, <1>2, TaskGives DEF LoaderInv
<1>5. tasks' \subseteq Tasks /\ EntryInside'
  BY <1>1 DEF LoaderInv, LoaderTypeOK, Tasks, EntryInside
<1>6. ChunksOwned'
  <2> DEFINE left == {o[2] : o \in {p \in owns : p[1] = task}}
  <2>1. Mine' = {o[2] : o \in {p \in owns : p[1] # task}}
    BY <1>1 DEF Mine
  <2>2. Mine = Mine' \cup left
    BY <2>1 DEF Mine
  <2>3. Mine' \cap left = {}
    BY <2>1 DEF LoaderInv, ChunksOwned
  <2>4. orphans' = orphans \cup left
    BY <1>1
  <2> HIDE DEF left
  <2>5. Buffer' = {}
    BY <1>1 DEF Buffer
  <2>6. \A o, p \in owns' : o[2] = p[2] => o = p
    BY <1>1 DEF LoaderInv, ChunksOwned
  <2>7. used = Mine \cup orphans \cup shell_allocs /\ Mine \cap orphans = {}
        /\ (Mine \cup orphans) \cap shell_allocs = {}
    BY <1>1 DEF LoaderInv, ChunksOwned
  <2> QED
    BY <1>1, <1>3, <2>2, <2>3, <2>4, <2>5, <2>6, <2>7 DEF ChunksOwned
<1>7. owns' \subseteq tasks' \X used'
  BY <1>1, <1>3, OwnersTyped
<1>8. Cardinality(shell_allocs') <= TableSize
  BY <1>1, OwnersTyped
<1> QED
  BY <1>1, <1>3, <1>4, <1>5, <1>6, <1>7, <1>8, IdleFacts, OwnersStep

LEMMA SysAllocInv ==
    ASSUME LoaderInv, NEW task \in tasks, NEW size \in Requests, SysAlloc(task, size)
    PROVE  LoaderInv'
<1>1. /\ load = Idle /\ UNCHANGED <<tasks, orphans, shell_allocs, load>> /\ Buffer = {}
      /\ load \in Loads({})
  BY IdleLoad DEF SysAlloc
<1>2. PICK c : c = New
  OBVIOUS
<1>3. /\ HeapInv' /\ other' = other /\ c \notin used /\ used' = used \cup {c}
      /\ owns' = owns \cup {<<task, c>>}
  BY <1>2, AllocFacts DEF SysAlloc, LoaderInv
<1>4. ChunksOwned'
  <2>1. Mine' = Mine \cup {c} /\ Buffer' = {}
    <3>1. Buffer' = {}
      BY <1>1 DEF Buffer
    <3>2. Mine' = {o[2] : o \in owns \cup {<<task, c>>}}
      BY <1>3 DEF Mine
    <3>3. <<task, c>>[2] = c
      OBVIOUS
    <3>4. {o[2] : o \in owns \cup {<<task, c>>}} = Mine \cup {c}
      BY ONLY <3>3 DEF Mine
    <3> QED
      BY <3>1, <3>2, <3>4
  <2>2. \A o, p \in owns' : o[2] = p[2] => o = p
    BY <1>3, OwnersTyped DEF LoaderInv, ChunksOwned
  <2> QED
    BY <1>1, <1>3, <2>1, <2>2, OwnersTyped DEF LoaderInv, ChunksOwned
<1>5. owns' \subseteq tasks \X used'
  BY <1>3, OwnersTyped
<1> QED
  BY <1>1, <1>3, <1>4, <1>5, OwnersTyped, Between

LEMMA SysFreeInv ==
    ASSUME LoaderInv, NEW o \in owns, SysFree(o[1], o[2]) PROVE LoaderInv'
<1>1. /\ load = Idle /\ UNCHANGED <<tasks, orphans, shell_allocs, load>> /\ Buffer = {}
      /\ load \in Loads({}) /\ kfree(o[2]) /\ owns' = owns \ {<<o[1], o[2]>>}
  BY IdleLoad DEF SysFree
<1>2. owns' = owns \ {o} /\ o[2] \in used
  BY <1>1, OwnersTyped
<1>3. HeapInv' /\ other' = other /\ used' = used \ {o[2]}
  BY <1>1, <1>2, KfreeInv DEF LoaderInv
<1>4. Mine' = Mine \ {o[2]}
  BY <1>2 DEF Mine, LoaderInv, ChunksOwned
<1>5. ChunksOwned'
  <2>1. Buffer' = {}
    BY <1>1 DEF Buffer
  <2>2. \A p, q \in owns' : p[2] = q[2] => p = q
    BY <1>2 DEF LoaderInv, ChunksOwned
  <2> QED
    BY <1>1, <1>3, <1>4, <2>1, <2>2, OwnersTyped DEF LoaderInv, ChunksOwned
<1>6. owns' \subseteq tasks \X used'
  <2>1. ASSUME NEW p \in owns' PROVE p[2] # o[2]
    BY <1>2 DEF LoaderInv, ChunksOwned
  <2> QED
    BY <1>2, <1>3, <2>1, OwnersTyped
<1> QED
  BY <1>1, <1>3, <1>5, <1>6, OwnersTyped, Between

LEMMA ShellAllocInv ==
    ASSUME LoaderInv, NEW size \in Requests, ShellAlloc(size) PROVE LoaderInv'
<1>1. /\ load = Idle /\ UNCHANGED <<tasks, owns, orphans>> /\ Buffer = {}
      /\ load \in Loads({}) /\ load.buf = NULL
  BY IdleLoad DEF ShellAlloc
<1>2. PICK c : c = New
  OBVIOUS
<1>3. /\ HeapInv' /\ other' = other /\ c \notin used /\ used' = used \cup {c}
  BY <1>2, AllocFacts DEF ShellAlloc, LoaderInv
<1>4. CASE Cardinality(shell_allocs) < TableSize
  <2>1. shell_allocs' = shell_allocs \cup {c} /\ load' = load
    BY <1>2, <1>4 DEF ShellAlloc
  <2>2. ChunksOwned'
    <3>1. Mine' = Mine /\ Buffer' = {}
      BY <1>1, <2>1 DEF Mine, Buffer
    <3> QED
      BY <1>1, <1>3, <2>1, <3>1, OwnersTyped DEF LoaderInv, ChunksOwned
  <2>3. Cardinality(shell_allocs') <= TableSize
    <3>1. c \notin shell_allocs
      BY <1>3, OwnersTyped
    <3>2. Cardinality(shell_allocs \cup {c}) = Cardinality(shell_allocs) + 1
      BY <3>1, OwnersTyped, FS_AddElement
    <3> QED
      BY <1>4, <2>1, <3>2, OwnersTyped, LoaderTyped
  <2>4. owns' \subseteq tasks \X used'
    BY <1>1, <1>3, OwnersTyped
  <2> QED
    BY <1>1, <1>3, <2>1, <2>2, <2>3, <2>4, Between
<1>5. CASE ~(Cardinality(shell_allocs) < TableSize)
  <2>1. load' = [Idle EXCEPT !.at = "free", !.buf = c] /\ KeepOwners
    BY <1>1, <1>2, <1>5 DEF ShellAlloc, KeepOwners
  <2>2. /\ load'.at = "free" /\ load'.file = NULL /\ load'.buf = c
        /\ load'.image = None /\ load'.t = None /\ load'.stk = None
        /\ load' \in Loads(used')
    <3>1. load' = [at |-> "free", file |-> NULL, buf |-> c,
                   image |-> None, t |-> None, stk |-> None]
      BY <2>1 DEF Idle
    <3>2. load' \in Loads(used')
      BY <1>3, <3>1, NoneFacts DEF Loads, Points
    <3> QED
      BY <3>1, <3>2
  <2>3. c # NULL
    <3>1. c \in [at : Address, size : 1..(Pages * PageSize), asked : Requests]
      BY <1>3 DEF HeapInv, TypeOK
    <3>2. c \in [at : Nat, size : Nat, asked : Nat]
      BY <3>1, SizeFacts DEF Address
    <3> QED
      BY <3>2, LoaderAssumption
  <2>4. LoadRight(load')
    BY <2>2, <2>3 DEF LoadRight, Buffered
  <2>5. PagesApart(tasks, load', other')
    <3>1. Pgs(load') = Pgs(load) \cup {} /\ OwnApart(load')
      BY <1>1, <2>2, IdleFacts, NoneFacts DEF Pgs, OwnApart
    <3>2. PagesApart(tasks, load', other \cup {})
      BY <3>1, LoadTakes DEF LoaderInv
    <3> QED
      BY <1>3, <3>2
  <2>6. HasBuffer(load) = {} /\ HasBuffer(load') = {c}
    BY <1>1, <2>2, <2>3 DEF HasBuffer
  <2> QED
    BY <1>3, <2>1, <2>2, <2>4, <2>5, <2>6, LoadSteps
<1> QED
  BY <1>4, <1>5

LEMMA ShellFreeInv ==
    ASSUME LoaderInv, NEW chunk \in shell_allocs, ShellFree(chunk) PROVE LoaderInv'
<1>1. /\ load = Idle /\ UNCHANGED <<tasks, owns, orphans, load>> /\ Buffer = {}
      /\ load \in Loads({}) /\ kfree(chunk) /\ shell_allocs' = shell_allocs \ {chunk}
      /\ chunk \in used
  BY IdleLoad, OwnersTyped DEF ShellFree, DropEntry
<1>2. HeapInv' /\ other' = other /\ used' = used \ {chunk}
  BY <1>1, KfreeInv DEF LoaderInv
<1>3. ChunksOwned'
  <2>1. Mine' = Mine /\ Buffer' = {}
    BY <1>1 DEF Mine, Buffer
  <2> QED
    BY <1>1, <1>2, <2>1, OwnersTyped DEF LoaderInv, ChunksOwned
<1>4. owns' \subseteq tasks \X used'
  <2>1. chunk \notin Mine
    BY DEF LoaderInv, ChunksOwned
  <2> QED
    BY <1>1, <1>2, <2>1, OwnersTyped
<1>5. Cardinality(shell_allocs') <= TableSize
  <2>1. Cardinality(shell_allocs \ {chunk}) = Cardinality(shell_allocs) - 1
    BY OwnersTyped, FS_RemoveElement
  <2> QED
    BY <1>1, <2>1, OwnersTyped, LoaderTyped
<1> QED
  BY <1>1, <1>2, <1>3, <1>4, <1>5, Between

\* The machine as it starts.
LEMMA LoaderStart == ASSUME LoaderInit PROVE LoaderInv
<1>1. HeapInv /\ used = {} /\ other = {}
  BY HeapStart DEF LoaderInit, Init
<1>2. tasks = {} /\ owns = {} /\ orphans = {} /\ shell_allocs = {} /\ load = Idle
  BY DEF LoaderInit
<1>3. PagesApart(tasks, load, other)
  BY <1>1, <1>2, IdleFacts DEF PagesApart
<1>4. ChunksOwned
  BY <1>1, <1>2, IdleFacts DEF ChunksOwned, Mine, Buffer
<1>5. LoaderTypeOK
  <2>1. Cardinality(shell_allocs) <= TableSize
    BY <1>2, FS_EmptySet, LoaderAssumption
  <2> QED
    BY <1>1, <1>2, <2>1, IdleFacts DEF LoaderTypeOK, HeapInv, Loads, Points
<1> QED
  BY <1>1, <1>2, <1>3, <1>4, <1>5, IdleFacts DEF LoaderInv, EntryInside

\* Every step keeps the invariant.
LEMMA LoaderSteps == ASSUME LoaderInv, [LoaderNext]_allVars PROVE LoaderInv'
<1>1. CASE Exec
  BY <1>1, ExecBeginInv, ExecBufferInv, ExecReadInv, ExecCheckInv, ExecImageInv, ExecCopyInv,
     ExecFreeInv, TaskStructInv, TaskStackInv, TaskUndoInv, ExecUndoInv DEF Exec
<1>2. CASE DemoBegin
  BY <1>2, DemoBeginInv
<1>3. ASSUME NEW task \in tasks, Reap(task) PROVE LoaderInv'
  BY <1>3, ReapInv
<1>4. ASSUME NEW task \in tasks, NEW size \in Requests, SysAlloc(task, size) PROVE LoaderInv'
  BY <1>4, SysAllocInv
<1>5. ASSUME NEW o \in owns, SysFree(o[1], o[2]) PROVE LoaderInv'
  BY <1>5, SysFreeInv
<1>6. ASSUME NEW size \in Requests, ShellAlloc(size) PROVE LoaderInv'
  BY <1>6, ShellAllocInv
<1>7. ASSUME NEW chunk \in shell_allocs, ShellFree(chunk) PROVE LoaderInv'
  BY <1>7, ShellFreeInv
<1>8. CASE UNCHANGED allVars
  <2>1. UNCHANGED vars /\ KeepOwners /\ load' = load
    BY <1>8 DEF allVars, loaderVars, KeepOwners
  <2> QED
    BY <2>1, LoadMoves, LoaderTyped DEF LoaderInv
<1> QED
  BY <1>1, <1>2, <1>3, <1>4, <1>5, <1>6, <1>7, <1>8 DEF LoaderNext

\* PagesOwned, told by owner and part.
LEMMA PagesTold == ASSUME LoaderInv PROVE PagesOwned
<1>0. PagesApart(tasks, load, other)
  BY DEF LoaderInv
<1>1. load \notin tasks
  <2>1. tasks \subseteq Tasks /\ load \in Loads(used)
    BY LoaderTyped DEF LoaderInv, LoaderTypeOK, Tasks
  <2>2. \A s \in Tasks : DOMAIN s = {"t", "stk", "image", "entry"}
    BY DEF Tasks
  <2>3. DOMAIN load = {"at", "file", "buf", "image", "t", "stk"}
    BY <2>1 DEF Loads
  <2> QED
    BY <2>1, <2>2, <2>3
<1>2. \A o : /\ PagesOf(<<o, "t">>) = BlockPages(o.t) /\ PagesOf(<<o, "stk">>) = BlockPages(o.stk)
             /\ PagesOf(<<o, "image">>) = BlockPages(o.image)
  BY DEF PagesOf
<1>3. \A h \in Owners \X Parts : \E o \in Owners, p \in Parts : h = <<o, p>>
  OBVIOUS
<1>4. \A o \in Owners, p \in Parts : PagesOf(<<o, p>>) \subseteq Pgs(o)
  BY <1>2 DEF Parts, Pgs
<1>5. other = UNION {PagesOf(h) : h \in Owners \X Parts}
  <2>1. ASSUME NEW x \in other PROVE \E h \in Owners \X Parts : x \in PagesOf(h)
    <3>1. PICK o \in Owners : x \in Pgs(o)
      BY <1>0 DEF PagesApart, Owners
    <3>2. \E p \in Parts : x \in PagesOf(<<o, p>>)
      BY <1>2, <3>1 DEF Pgs, Parts
    <3> QED
      BY <3>2
  <2>2. ASSUME NEW h \in Owners \X Parts, NEW x \in PagesOf(h) PROVE x \in other
    <3>1. PICK o \in Owners, p \in Parts : h = <<o, p>>
      BY <1>3
    <3> QED
      BY <1>0, <1>4, <2>2, <3>1 DEF PagesApart, Owners
  <2> QED
    BY <2>1, <2>2
<1>6. ASSUME NEW o \in Owners, NEW p \in Parts, NEW q \in Parts, p # q
      PROVE  PagesOf(<<o, p>>) \cap PagesOf(<<o, q>>) = {}
  <2>1. OwnApart(o)
    BY <1>0 DEF PagesApart, Owners
  <2> QED
    BY <1>2, <1>6, <2>1 DEF OwnApart, Parts
<1>7. ASSUME NEW a \in Owners, NEW b \in Owners, a # b PROVE Pgs(a) \cap Pgs(b) = {}
  BY <1>0, <1>7 DEF PagesApart, Owners
<1>8. ASSUME NEW g \in Owners \X Parts, NEW h \in Owners \X Parts, g # h
      PROVE  PagesOf(g) \cap PagesOf(h) = {}
  <2>1. PICK a \in Owners, p \in Parts : g = <<a, p>>
    BY <1>3
  <2>2. PICK b \in Owners, q \in Parts : h = <<b, q>>
    BY <1>3
  <2>3. CASE a # b
    BY <1>4, <1>7, <2>1, <2>2, <2>3
  <2>4. CASE a = b
    <3>1. p # q
      BY <1>8, <2>1, <2>2, <2>4
    <3> QED
      BY <1>6, <2>1, <2>2, <2>4, <3>1
  <2> QED
    BY <2>3, <2>4
<1>9. other \cap UNION {BlockPages(b) : b \in blocks} = {}
  BY FreeFacts DEF LoaderInv
<1> QED
  BY <1>5, <1>8, <1>9 DEF PagesOwned

\* An image in memory was in the file.
LEMMA ImageRight == ASSUME LoaderInv PROVE ImageInFile
BY DEF LoaderInv, LoadRight, WellFormed, ImageInFile

-----------------------------------------------------------------------------
\* exec_load, task_create, the reaper, SYS_ALLOC, SYS_FREE and the shell keep the
\* invariant, each at every point where it can fail (exec.c, sched.c, syscall.c).
THEOREM LoaderInvariance == LoaderSpec => []LoaderInv
<1>1. LoaderInit => LoaderInv
  BY LoaderStart
<1>2. LoaderInv /\ [LoaderNext]_allVars => LoaderInv'
  BY LoaderSteps
<1> QED
  BY <1>1, <1>2, PTL DEF LoaderSpec

\* Types, and the shell's table never holds more than SHELL_ALLOC_MAX (kernel_main.c).
THEOREM LoaderTyping == LoaderSpec => []LoaderTypeOK
<1>1. LoaderInv => LoaderTypeOK
  BY DEF LoaderInv
<1> QED
  BY <1>1, LoaderInvariance, PTL

\* The chunks of the heap tile its blocks, each aligned and with room for its links, and
\* size alone tells kfree a large chunk from a small one (heap.c:229-275).
THEOREM HeapTiled == LoaderSpec => []Tiled
<1>1. LoaderInv => Tiled
  BY DEF LoaderInv, HeapInv
<1> QED
  BY <1>1, LoaderInvariance, PTL

\* used_u8s and total_u8s are what is handed out and what was taken, and a caller gets
\* what it asked for unless size + 16 wraps (heap.c:93-275).
THEOREM HeapBooks == LoaderSpec => []BooksRight
<1>1. LoaderInv => BooksRight
  BY DEF LoaderInv, HeapInv
<1> QED
  BY <1>1, LoaderInvariance, PTL

\* Every page and every chunk has exactly one owner, through every failure of exec and
\* every exit (exec.c:14-85, sched.c:139-198, 268-284, kernel_main.c:450-526).
THEOREM EveryPageOwned == LoaderSpec => []OneOwner
<1>1. LoaderInv => OneOwner
  BY PagesTold DEF LoaderInv, OneOwner
<1> QED
  BY <1>1, LoaderInvariance, PTL

\* A program starts inside its own image, and the image was all in the file
\* (exec.c:36-60).
THEOREM ProgramsSound == LoaderSpec => []ProgramSound
<1>1. LoaderInv => ProgramSound
  BY ImageRight DEF LoaderInv, ProgramSound
<1> QED
  BY <1>1, LoaderInvariance, PTL
==============================================================================
