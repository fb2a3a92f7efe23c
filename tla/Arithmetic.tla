----------------------------- MODULE Arithmetic -----------------------------
(***************************************************************************)
(* Facts about numbers that the proofs of several modules need: remainders *)
(* (slots, shards, counters that wrap), least elements and induction in    *)
(* the form of a set, the sizes of sets of numbers, sums over sets, and    *)
(* ratios.                                                                 *)
(***************************************************************************)
EXTENDS Integers, FiniteSets, FiniteSetTheorems, TLAPS

-------------------------------------------------------------------------------
(* Remainders *)

\* A larger multiple of m is larger by at least m.
LEMMA Multiples ==
  ASSUME NEW m \in Nat \ {0}, NEW a \in Int, NEW b \in Int, a < b
  PROVE  m * a + m <= m * b
<1>1. m * (b - a) >= m
  BY SMTT(20)
<1>2. m * (b - a) = m * b - m * a
  BY SMTT(20)
<1>3. m * a \in Int /\ m * b \in Int
  OBVIOUS
<1> QED
  BY <1>1, <1>2, <1>3

LEMMA DivMod ==
  ASSUME NEW m \in Nat \ {0}, NEW p \in Nat
  PROVE  /\ p \div m \in Nat
         /\ p % m \in 0 .. m - 1
         /\ p = m * (p \div m) + (p % m)
OBVIOUS

\* The quotient and the remainder of a number are the only ones.
LEMMA DivModUnique ==
  ASSUME NEW m \in Nat \ {0}, NEW a \in Int, NEW b \in Int,
         NEW r \in 0 .. m - 1, NEW s \in 0 .. m - 1, m * a + r = m * b + s
  PROVE  a = b /\ r = s
<1>1. m * a \in Int /\ m * b \in Int
  OBVIOUS
<1>2. CASE a < b
  <2>1. m * a + m <= m * b
    BY <1>2, Multiples
  <2> QED
    BY <1>1, <2>1
<1>3. CASE b < a
  <2>1. m * b + m <= m * a
    BY <1>3, Multiples
  <2> QED
    BY <1>1, <2>1
<1>4. CASE a = b
  BY <1>1, <1>4
<1> QED
  BY <1>2, <1>3, <1>4

\* Two numbers less than m apart have different remainders.
LEMMA ModApart ==
  ASSUME NEW m \in Nat \ {0}, NEW p \in Nat, NEW q \in Nat, p < q, q < p + m
  PROVE  p % m # q % m
<1> DEFINE a == p \div m
           b == q \div m
           r == p % m
           s == q % m
<1>1. a \in Nat /\ r \in 0 .. m - 1 /\ p = m * a + r
  BY DivMod
<1>2. b \in Nat /\ s \in 0 .. m - 1 /\ q = m * b + s
  BY DivMod
<1> HIDE DEF a, b, r, s
<1>3. m * a \in Int /\ m * b \in Int
  BY <1>1, <1>2
<1>4. CASE a < b
  <2>1. m * a + m <= m * b
    BY <1>4, <1>1, <1>2, Multiples
  <2>2. r # s
    BY <2>1, <1>1, <1>2, <1>3
  <2> QED
    BY <2>2 DEF r, s
<1>5. CASE b < a
  <2>1. m * b + m <= m * a
    BY <1>5, <1>1, <1>2, Multiples
  <2> QED
    BY <2>1, <1>1, <1>2, <1>3
<1>6. CASE b = a
  <2>1. r # s
    BY <1>6, <1>1, <1>2, <1>3
  <2> QED
    BY <2>1 DEF r, s
<1> QED
  BY <1>4, <1>5, <1>6, <1>1, <1>2

LEMMA ModSmall ==
  ASSUME NEW m \in Nat \ {0}, NEW p \in 0 .. m - 1
  PROVE  p % m = p
OBVIOUS

\* Adding a multiple of m changes nothing.
LEMMA ModShift ==
  ASSUME NEW m \in Nat \ {0}, NEW p \in Nat, NEW k \in Nat
  PROVE  (p + m * k) % m = p % m
<1> DEFINE a == p \div m
           r == p % m
           q == p + m * k
           b == q \div m
           s == q % m
<1>1. a \in Nat /\ r \in 0 .. m - 1 /\ p = m * a + r
  BY DivMod
<1>2. m * k \in Nat /\ m * a \in Nat /\ m * (a + k) = m * a + m * k
  BY <1>1, SMTT(20)
<1>3. q \in Nat
  BY <1>2
<1>4. b \in Nat /\ s \in 0 .. m - 1 /\ q = m * b + s
  BY <1>3, DivMod
<1>5. q = m * (a + k) + r
  BY <1>1, <1>2
<1> HIDE DEF a, b, r, s, q
<1>6. a + k \in Int /\ b \in Int /\ m * (a + k) + r = m * b + s
  BY <1>1, <1>4, <1>5
<1>7. r = s
  BY <1>1, <1>4, <1>6, DivModUnique
<1> QED
  BY <1>7 DEF r, s, q

\* The remainder moves up by one, or starts again.
LEMMA ModNext ==
  ASSUME NEW m \in Nat \ {0}, NEW p \in Nat
  PROVE  (p + 1) % m = IF p % m = m - 1 THEN 0 ELSE (p % m) + 1
<1> DEFINE a == p \div m
           r == p % m
           b == (p + 1) \div m
           s == (p + 1) % m
<1>1. a \in Nat /\ r \in 0 .. m - 1 /\ p = m * a + r
  BY DivMod
<1>0. p + 1 \in Nat
  OBVIOUS
<1>2. b \in Nat /\ s \in 0 .. m - 1 /\ p + 1 = m * b + s
  BY <1>0, DivMod
<1>3. m * (a + 1) = m * a + m /\ m * a \in Int
  BY <1>1, SMTT(20)
<1> HIDE DEF a, b, r, s
<1>4. CASE r = m - 1
  <2>1. m * (a + 1) + 0 = m * b + s
    BY <1>1, <1>2, <1>3, <1>4
  <2>2. s = 0
    BY <1>1, <1>2, <2>1, DivModUnique
  <2> QED
    BY <1>4, <2>2 DEF r, s
<1>5. CASE r # m - 1
  <2>1. r + 1 \in 0 .. m - 1 /\ m * a + (r + 1) = m * b + s
    BY <1>1, <1>2, <1>3, <1>5
  <2>2. s = r + 1
    BY <1>1, <1>2, <2>1, DivModUnique
  <2> QED
    BY <1>5, <2>2 DEF r, s
<1> QED
  BY <1>4, <1>5

\* Every remainder occurs among m successive numbers.
LEMMA ModWindow ==
  ASSUME NEW m \in Nat \ {0}, NEW p \in Nat, NEW r \in Nat
  PROVE  \E q \in r .. r + m - 1 : q % m = p % m
<1> DEFINE a == r \div m
           x == r % m
           y == p % m
           q == IF x <= y THEN r + (y - x) ELSE r + (y - x) + m
           b == q \div m
           z == q % m
<1>1. a \in Nat /\ x \in 0 .. m - 1 /\ r = m * a + x
  BY DivMod
<1>2. y \in 0 .. m - 1
  BY DivMod
<1>3. q \in Nat /\ q \in r .. r + m - 1
  BY <1>1, <1>2
<1>4. b \in Nat /\ z \in 0 .. m - 1 /\ q = m * b + z
  BY <1>3, DivMod
<1>5. m * (a + 1) = m * a + m /\ m * a \in Int
  BY <1>1, SMTT(20)
<1>6. q = IF x <= y THEN r + (y - x) ELSE r + (y - x) + m
  OBVIOUS
<1> HIDE DEF a, b, x, y, z, q
<1>7. CASE x <= y
  <2>1. m * a + y = m * b + z
    BY <1>1, <1>2, <1>4, <1>5, <1>6, <1>7
  <2>2. z = y
    BY <1>1, <1>2, <1>4, <2>1, DivModUnique
  <2> QED
    BY <1>3, <2>2 DEF y, z
<1>8. CASE ~(x <= y)
  <2>1. m * (a + 1) + y = m * b + z /\ a + 1 \in Int
    BY <1>1, <1>2, <1>4, <1>5, <1>6, <1>8
  <2>2. z = y
    BY <1>1, <1>2, <1>4, <2>1, DivModUnique
  <2> QED
    BY <1>3, <2>2 DEF y, z
<1> QED
  BY <1>7, <1>8

-------------------------------------------------------------------------------
(* Induction and least elements *)

\* Induction over the natural numbers, stated of a set: the set with 0 and with
\* every successor is all of them.  (Were n missing, adding one would map the
\* members up to n one-to-one into those of them that are not 0.)
LEMMA SetInduction ==
  ASSUME NEW S \in SUBSET Nat, 0 \in S, \A i \in S : i + 1 \in S
  PROVE  S = Nat
<1> SUFFICES ASSUME NEW n \in Nat \ S PROVE FALSE
  OBVIOUS
<1> DEFINE T == S \cap (0 .. n)
           U == T \ {0}
           f == [i \in T |-> i + 1]
<1>1. IsFiniteSet(T)
  <2>1. IsFiniteSet(0 .. n)
    BY FS_Interval
  <2>2. T \in SUBSET (0 .. n)
    OBVIOUS
  <2> HIDE DEF T
  <2> QED
    BY <2>1, <2>2, FS_Subset
<1>2. 0 \in T /\ IsFiniteSet(U) /\ Cardinality(U) = Cardinality(T) - 1
  <2>1. 0 \in T
    OBVIOUS
  <2> HIDE DEF T
  <2> QED
    BY <1>1, <2>1, FS_RemoveElement
<1>3. \A i \in T : i + 1 \in U
  OBVIOUS
<1>4. f \in [T -> U]
  BY <1>3
<1>5. Cardinality(T) \in Nat
  BY <1>1, FS_CardinalityType
<1>6. \A x, y \in T : f[x] = f[y] => x = y
  OBVIOUS
<1> HIDE DEF T, U, f
<1>7. \E x, y \in T : x # y /\ f[x] = f[y]
  BY <1>1, <1>2, <1>4, <1>5, FS_PigeonHole
<1> QED
  BY <1>6, <1>7

\* Every nonempty set of natural numbers has a least element.
LEMMA LeastElement ==
  ASSUME NEW T \in SUBSET Nat, T # {}
  PROVE  \E x \in T : \A y \in T : x <= y
<1> SUFFICES ASSUME \A x \in T : \E y \in T : ~(x <= y) PROVE FALSE
  OBVIOUS
<1> DEFINE S == {n \in Nat : \A y \in T : n <= y}
<1>1. S \in SUBSET Nat /\ 0 \in S
  OBVIOUS
<1>2. \A n \in S : n \notin T
  OBVIOUS
<1>3. \A n \in S : n + 1 \in S
  BY <1>2
<1> HIDE DEF S
<1>4. S = Nat
  BY <1>1, <1>3, SetInduction
<1> QED
  BY <1>2, <1>4

-------------------------------------------------------------------------------
(* Sizes *)

\* Of the first numbers.
LEMMA UpTo ==
  ASSUME NEW n \in Nat
  PROVE  IsFiniteSet(1 .. n) /\ Cardinality(1 .. n) = n
BY FS_Interval

\* Of a set of numbers that lies in an interval.
LEMMA IntervalSubset ==
  ASSUME NEW n \in Nat, NEW T \in SUBSET (1 .. n)
  PROVE  IsFiniteSet(T) /\ Cardinality(T) \in Nat /\ Cardinality(T) <= n
<1>1. IsFiniteSet(1 .. n) /\ Cardinality(1 .. n) = n
  BY FS_Interval
<1>2. IsFiniteSet(T) /\ Cardinality(T) <= Cardinality(1 .. n)
  BY <1>1, FS_Subset
<1> QED
  BY <1>1, <1>2, FS_CardinalityType

\* A set that is mapped one-to-one into another has at most its size, and a set
\* that is mapped one-to-one onto another has its size.
LEMMA InjectionFits ==
  ASSUME NEW S, NEW T, IsFiniteSet(T), NEW f \in [S -> T],
         \A x, y \in S : f[x] = f[y] => x = y
  PROVE  IsFiniteSet(S) /\ Cardinality(S) \in Nat /\ Cardinality(S) <= Cardinality(T)
<1>1. f \in Injection(S, T)
  BY DEF Injection, IsInjective
<1> QED
  BY <1>1, FS_Injection, FS_CardinalityType

LEMMA SameSize ==
  ASSUME NEW S, NEW T, IsFiniteSet(T), NEW f \in [S -> T],
         \A x, y \in S : f[x] = f[y] => x = y,
         \A z \in T : \E x \in S : f[x] = z
  PROVE  IsFiniteSet(S) /\ Cardinality(S) = Cardinality(T)
<1>1. f \in Injection(S, T) /\ f \in Surjection(S, T)
  BY DEF Injection, IsInjective, Surjection
<1> QED
  BY <1>1, FS_Injection

-------------------------------------------------------------------------------
(* Sums.  SumFunctionOnSet(F, S) is defined by recursion over the subsets of *)
(* S, by taking out any element first: g adds F up over S.                   *)

SomeOf(s) == CHOOSE x \in s : TRUE

AddsUp(g, F, S) ==
    g = [s \in SUBSET S |-> IF s = {} THEN 0 ELSE F[SomeOf(s)] + g[s \ {SomeOf(s)}]]

LEMMA SumIsOf ==
  ASSUME NEW F, NEW S
  PROVE  SumFunctionOnSet(F, S) = (CHOOSE g : AddsUp(g, F, S))[S]
BY DEF SumFunctionOnSet, FoldFunctionOnSet, MapThenFoldSet, SomeOf, AddsUp

LEMMA SomeOfSmaller ==
  ASSUME NEW S, IsFiniteSet(S), NEW s \in SUBSET S, s # {}
  PROVE  /\ SomeOf(s) \in s
         /\ s \ {SomeOf(s)} \in SUBSET S
         /\ IsFiniteSet(s) /\ Cardinality(s) \in Nat \ {0}
         /\ Cardinality(s \ {SomeOf(s)}) = Cardinality(s) - 1
<1>1. SomeOf(s) \in s
  BY DEF SomeOf
<1>2. IsFiniteSet(s)
  BY FS_Subset
<1>3. Cardinality(s) \in Nat /\ Cardinality(s) # 0
  BY <1>2, FS_CardinalityType, FS_EmptySet
<1>4. Cardinality(s \ {SomeOf(s)}) = Cardinality(s) - 1
  BY <1>1, <1>2, FS_RemoveElement
<1> QED
  BY <1>1, <1>2, <1>3, <1>4

\* Some function adds up: there are functions that do for the sets of at most n
\* elements, for every n.
LEMMA SumExists ==
  ASSUME NEW S, IsFiniteSet(S), NEW F, \A x \in S : F[x] \in Nat
  PROVE  \E g \in [SUBSET S -> Nat] : AddsUp(g, F, S)
<1> DEFINE Of(g, s) == IF s = {} THEN 0 ELSE F[SomeOf(s)] + g[s \ {SomeOf(s)}]
           UpToSize(g, n) == \A s \in SUBSET S : Cardinality(s) <= n => g[s] = Of(g, s)
           N == {n \in Nat : \E g \in [SUBSET S -> Nat] : UpToSize(g, n)}
<1>1. \A s \in SUBSET S : s # {} =>
          /\ SomeOf(s) \in s
          /\ s \ {SomeOf(s)} \in SUBSET S
          /\ Cardinality(s) \in Nat \ {0}
          /\ Cardinality(s \ {SomeOf(s)}) = Cardinality(s) - 1
  BY SomeOfSmaller
<1>2. 0 \in N
  <2> DEFINE g == [s \in SUBSET S |-> 0]
  <2>1. g \in [SUBSET S -> Nat]
    OBVIOUS
  <2>2. UpToSize(g, 0)
    <3> SUFFICES ASSUME NEW s \in SUBSET S, Cardinality(s) <= 0 PROVE s = {}
      OBVIOUS
    <3>1. s # {} => Cardinality(s) \in Nat \ {0}
      BY <1>1
    <3> QED
      BY <3>1
  <2> HIDE DEF g
  <2> QED
    BY <2>1, <2>2
<1>3. ASSUME NEW n \in N PROVE n + 1 \in N
  <2>1. PICK g \in [SUBSET S -> Nat] : UpToSize(g, n)
    OBVIOUS
  <2> DEFINE h == [s \in SUBSET S |-> IF Cardinality(s) <= n THEN g[s] ELSE Of(g, s)]
  <2>0. n \in Nat
    OBVIOUS
  <2>2. ASSUME NEW s \in SUBSET S PROVE Of(g, s) \in Nat
    <3>1. CASE s # {}
      <4>1. F[SomeOf(s)] \in Nat /\ g[s \ {SomeOf(s)}] \in Nat
        BY <1>1, <3>1
      <4> QED
        BY <3>1, <4>1
    <3> QED
      BY <3>1
  <2>3. h \in [SUBSET S -> Nat]
    BY <2>2
  <2>4. ASSUME NEW s \in SUBSET S PROVE h[s] = Of(g, s)
    BY <2>1
  <2>5. ASSUME NEW s \in SUBSET S, Cardinality(s) <= n + 1 PROVE Of(g, s) = Of(h, s)
    <3>1. CASE s = {}
      BY <3>1
    <3>2. CASE s # {}
      <4> DEFINE r == s \ {SomeOf(s)}
      <4>1. r \in SUBSET S /\ Cardinality(r) <= n
        BY <1>1, <2>0, <2>5, <3>2
      <4>2. h[r] = g[r]
        BY <4>1
      <4> HIDE DEF h
      <4> QED
        BY <3>2, <4>2
    <3> QED
      BY <3>1, <3>2
  <2>6. UpToSize(h, n + 1)
    <3> HIDE DEF h, Of
    <3> QED
      BY <2>4, <2>5
  <2> HIDE DEF h, UpToSize
  <2>7. \E f \in [SUBSET S -> Nat] : UpToSize(f, n + 1)
    BY <2>3, <2>6
  <2>8. n + 1 \in Nat
    BY <2>0
  <2> QED
    BY <2>7, <2>8, Zenon
<1>4. N = Nat
  <2> HIDE DEF UpToSize
  <2>1. N \in SUBSET Nat
    OBVIOUS
  <2> HIDE DEF N
  <2> QED
    BY <1>2, <1>3, <2>1, SetInduction
<1>5. Cardinality(S) \in Nat
  BY FS_CardinalityType
<1>6. PICK g \in [SUBSET S -> Nat] : UpToSize(g, Cardinality(S))
  <2> HIDE DEF UpToSize
  <2> QED
    BY <1>4, <1>5
<1>7. \A s \in SUBSET S : Cardinality(s) <= Cardinality(S)
  BY FS_Subset
<1>8. \A s \in SUBSET S : g[s] = Of(g, s)
  BY <1>6, <1>7
<1>9. g = [s \in SUBSET S |-> g[s]]
  OBVIOUS
<1> QED
  BY <1>8, <1>9 DEF AddsUp

\* A function that adds up is determined on every set where the summands are.
LEMMA SumUnique ==
  ASSUME NEW S, IsFiniteSet(S), NEW T, IsFiniteSet(T), NEW U \in SUBSET (S \cap T),
         NEW F, NEW G, \A x \in U : F[x] = G[x],
         NEW g, AddsUp(g, F, S), NEW h, AddsUp(h, G, T)
  PROVE  g[U] = h[U]
<1> DEFINE Agree(n) == \A s \in SUBSET U : Cardinality(s) <= n => g[s] = h[s]
           N == {n \in Nat : Agree(n)}
<1>1. IsFiniteSet(U) /\ Cardinality(U) \in Nat
  BY FS_Subset, FS_CardinalityType
<1>2. \A s \in SUBSET U : s # {} =>
          /\ SomeOf(s) \in U
          /\ s \ {SomeOf(s)} \in SUBSET U
          /\ Cardinality(s) \in Nat \ {0}
          /\ Cardinality(s \ {SomeOf(s)}) = Cardinality(s) - 1
  BY <1>1, SomeOfSmaller
<1>3. \A s \in SUBSET U :
          /\ g[s] = IF s = {} THEN 0 ELSE F[SomeOf(s)] + g[s \ {SomeOf(s)}]
          /\ h[s] = IF s = {} THEN 0 ELSE G[SomeOf(s)] + h[s \ {SomeOf(s)}]
  BY DEF AddsUp
<1>4. Agree(0)
  <2>1. ASSUME NEW s \in SUBSET U, Cardinality(s) <= 0 PROVE s = {}
    <3>1. s # {} => Cardinality(s) \in Nat \ {0}
      BY <1>2
    <3> QED
      BY <2>1, <3>1
  <2> QED
    BY <1>3, <2>1
<1>5. ASSUME NEW n \in Nat, Agree(n) PROVE Agree(n + 1)
  <2> SUFFICES ASSUME NEW s \in SUBSET U, Cardinality(s) <= n + 1 PROVE g[s] = h[s]
    OBVIOUS
  <2>1. CASE s = {}
    BY <1>3, <2>1
  <2>2. CASE s # {}
    <3> DEFINE r == s \ {SomeOf(s)}
    <3>1. r \in SUBSET U /\ Cardinality(r) <= n
      BY <1>2, <2>2
    <3>2. g[r] = h[r]
      BY <1>5, <3>1
    <3>3. F[SomeOf(s)] = G[SomeOf(s)]
      BY <1>2, <2>2
    <3> QED
      BY <1>3, <2>2, <3>2, <3>3
  <2> QED
    BY <2>1, <2>2
<1> HIDE DEF Agree
<1>6. N = Nat
  <2>1. N \in SUBSET Nat /\ 0 \in N /\ \A i \in N : i + 1 \in N
    BY <1>4, <1>5
  <2> HIDE DEF N
  <2> QED
    BY <2>1, SetInduction
<1>7. Agree(Cardinality(U))
  BY <1>1, <1>6
<1> QED
  BY <1>1, <1>7 DEF Agree

LEMMA SumAddsUp ==
  ASSUME NEW S, IsFiniteSet(S), NEW F, \A x \in S : F[x] \in Nat
  PROVE  \E g \in [SUBSET S -> Nat] : AddsUp(g, F, S) /\ SumFunctionOnSet(F, S) = g[S]
<1>1. PICK g \in [SUBSET S -> Nat] : AddsUp(g, F, S)
  BY SumExists
<1> DEFINE h == CHOOSE f : AddsUp(f, F, S)
<1>2. AddsUp(h, F, S)
  BY <1>1
<1>3. SumFunctionOnSet(F, S) = h[S]
  BY SumIsOf
<1> HIDE DEF h
<1>4. S \in SUBSET (S \cap S)
  OBVIOUS
<1>5. h[S] = g[S]
  BY <1>1, <1>2, <1>4, SumUnique
<1> QED
  BY <1>1, <1>3, <1>5

\* The sum depends on the summands alone.
LEMMA SumSame ==
  ASSUME NEW S, IsFiniteSet(S), NEW F, \A x \in S : F[x] \in Nat,
         NEW G, \A x \in S : G[x] = F[x]
  PROVE  SumFunctionOnSet(G, S) = SumFunctionOnSet(F, S)
<1>1. PICK g \in [SUBSET S -> Nat] : AddsUp(g, F, S) /\ SumFunctionOnSet(F, S) = g[S]
  BY SumAddsUp
<1>2. PICK h \in [SUBSET S -> Nat] : AddsUp(h, G, S) /\ SumFunctionOnSet(G, S) = h[S]
  BY SumAddsUp
<1>3. S \in SUBSET (S \cap S)
  OBVIOUS
<1> QED
  BY <1>1, <1>2, <1>3, SumUnique

LEMMA SumEmpty ==
  ASSUME NEW F
  PROVE  SumFunctionOnSet(F, {}) = 0
<1>1. IsFiniteSet({})
  BY FS_EmptySet
<1>2. PICK g \in [SUBSET {} -> Nat] : AddsUp(g, F, {}) /\ SumFunctionOnSet(F, {}) = g[{}]
  BY <1>1, SumAddsUp
<1> QED
  BY <1>2 DEF AddsUp

LEMMA SumType ==
  ASSUME NEW S, IsFiniteSet(S), NEW F, \A x \in S : F[x] \in Nat
  PROVE  SumFunctionOnSet(F, S) \in Nat
<1>1. PICK g \in [SUBSET S -> Nat] : AddsUp(g, F, S) /\ SumFunctionOnSet(F, S) = g[S]
  BY SumAddsUp
<1> QED
  BY <1>1

\* The sum of a subset is the value of the function that adds up.
LEMMA SumSomeOf ==
  ASSUME NEW S, IsFiniteSet(S), S # {}, NEW F, \A x \in S : F[x] \in Nat
  PROVE  SumFunctionOnSet(F, S) = F[SomeOf(S)] + SumFunctionOnSet(F, S \ {SomeOf(S)})
<1> DEFINE R == S \ {SomeOf(S)}
<1>1. PICK g \in [SUBSET S -> Nat] : AddsUp(g, F, S) /\ SumFunctionOnSet(F, S) = g[S]
  BY SumAddsUp
<1>2. IsFiniteSet(R) /\ R \in SUBSET (S \cap R)
  BY FS_RemoveElement
<1>3. PICK h \in [SUBSET R -> Nat] : AddsUp(h, F, R) /\ SumFunctionOnSet(F, R) = h[R]
  BY <1>2, SumAddsUp
<1>4. g[R] = h[R]
  <2> HIDE DEF R
  <2> QED
    BY <1>1, <1>2, <1>3, SumUnique
<1>5. g[S] = F[SomeOf(S)] + g[R]
  BY <1>1 DEF AddsUp
<1> QED
  BY <1>1, <1>3, <1>4, <1>5

\* Any element may be taken out.
LEMMA SumRemove ==
  ASSUME NEW S, IsFiniteSet(S), NEW F, \A x \in S : F[x] \in Nat, NEW e \in S
  PROVE  SumFunctionOnSet(F, S) = F[e] + SumFunctionOnSet(F, S \ {e})
<1> DEFINE Sum(s) == SumFunctionOnSet(F, s)
           Right(n) == \A s \in SUBSET S : Cardinality(s) <= n =>
                           \A x \in s : Sum(s) = F[x] + Sum(s \ {x})
           N == {n \in Nat : Right(n)}
<1>1. \A s \in SUBSET S : IsFiniteSet(s) /\ Cardinality(s) \in Nat
  BY FS_Subset, FS_CardinalityType
<1>2. \A s \in SUBSET S : s # {} =>
          /\ SomeOf(s) \in s
          /\ s \ {SomeOf(s)} \in SUBSET S
          /\ Cardinality(s) \in Nat \ {0}
          /\ Cardinality(s \ {SomeOf(s)}) = Cardinality(s) - 1
  BY SomeOfSmaller
<1>3. \A s \in SUBSET S : Sum(s) \in Nat
  BY <1>1, SumType
<1>4. \A s \in SUBSET S : s # {} => Sum(s) = F[SomeOf(s)] + Sum(s \ {SomeOf(s)})
  BY <1>1, SumSomeOf
<1> HIDE DEF Sum
<1>5. Right(0)
  <2>1. ASSUME NEW s \in SUBSET S, Cardinality(s) <= 0 PROVE s = {}
    <3>1. s # {} => Cardinality(s) \in Nat \ {0}
      BY <1>2
    <3> QED
      BY <2>1, <3>1
  <2> QED
    BY <2>1
<1>6. ASSUME NEW n \in Nat, Right(n) PROVE Right(n + 1)
  <2> SUFFICES ASSUME NEW s \in SUBSET S, Cardinality(s) <= n + 1, NEW x \in s
               PROVE  Sum(s) = F[x] + Sum(s \ {x})
    OBVIOUS
  <2> DEFINE y == SomeOf(s)
             sx == s \ {x}
             sy == s \ {y}
             sxy == sx \ {y}
  <2>1. y \in s /\ sx \in SUBSET S /\ sy \in SUBSET S /\ sxy \in SUBSET S
    BY <1>2
  <2>2. Sum(s) = F[y] + Sum(sy)
    BY <1>4
  <2>3. Cardinality(sx) <= n /\ Cardinality(sy) <= n
    <3>1. Cardinality(sx) = Cardinality(s) - 1 /\ Cardinality(sy) = Cardinality(s) - 1
      BY <1>1, <2>1, FS_RemoveElement
    <3> QED
      BY <1>1, <3>1
  <2>4. CASE x = y
    BY <2>2, <2>4
  <2>5. CASE x # y
    <3>1. Sum(sx) = F[y] + Sum(sxy)
      BY <1>6, <2>1, <2>3, <2>5
    <3>2. Sum(sy) = F[x] + Sum(sy \ {x})
      BY <1>6, <2>1, <2>3, <2>5
    <3>3. sy \ {x} = sxy
      OBVIOUS
    <3>4. F[x] \in Nat /\ F[y] \in Nat /\ Sum(sxy) \in Nat
      BY <1>3, <2>1
    <3> HIDE DEF sx, sy, sxy, y
    <3> QED
      BY <2>2, <3>1, <3>2, <3>3, <3>4 DEF sx
  <2> QED
    BY <2>4, <2>5
<1> HIDE DEF Right
<1>7. N = Nat
  <2>1. N \in SUBSET Nat /\ 0 \in N /\ \A i \in N : i + 1 \in N
    BY <1>5, <1>6
  <2> HIDE DEF N
  <2> QED
    BY <2>1, SetInduction
<1>8. Right(Cardinality(S))
  BY <1>1, <1>7
<1> QED
  BY <1>1, <1>8 DEF Right, Sum

LEMMA SumAdd ==
  ASSUME NEW S, IsFiniteSet(S), NEW e, e \notin S, NEW F, \A x \in S \cup {e} : F[x] \in Nat
  PROVE  SumFunctionOnSet(F, S \cup {e}) = SumFunctionOnSet(F, S) + F[e]
<1> DEFINE T == S \cup {e}
<1>1. IsFiniteSet(T)
  BY FS_AddElement
<1>2. T \ {e} = S /\ e \in T
  OBVIOUS
<1>3. SumFunctionOnSet(F, T) = F[e] + SumFunctionOnSet(F, T \ {e})
  BY <1>1, <1>2, SumRemove
<1>4. SumFunctionOnSet(F, S) \in Nat /\ F[e] \in Nat
  BY SumType
<1> QED
  BY <1>2, <1>3, <1>4

LEMMA SumPositive ==
  ASSUME NEW S, IsFiniteSet(S), NEW F, \A x \in S : F[x] \in Nat \ {0}, S # {}
  PROVE  SumFunctionOnSet(F, S) # 0
<1>1. PICK e \in S : TRUE
  OBVIOUS
<1>2. SumFunctionOnSet(F, S) = F[e] + SumFunctionOnSet(F, S \ {e})
  BY SumRemove
<1>3. IsFiniteSet(S \ {e})
  BY FS_RemoveElement
<1>4. SumFunctionOnSet(F, S \ {e}) \in Nat
  BY <1>3, SumType
<1> QED
  BY <1>2, <1>4
-------------------------------------------------------------------------------
(* Ratios, compared by products *)

LEMMA Product ==
  ASSUME NEW a \in Int, NEW b \in Int
  PROVE  a * b \in Int
OBVIOUS

LEMMA RatioOrder ==
  ASSUME NEW a \in Int, NEW b \in Int, NEW c \in Int,
         NEW x \in Nat \ {0}, NEW y \in Nat \ {0}, NEW z \in Nat \ {0},
         a * y <= b * x, b * z <= c * y
  PROVE  a * z <= c * x
<1>1. (a * y) * z <= (b * x) * z
  BY SMTT(30)
<1>2. (b * z) * x <= (c * y) * x
  BY SMTT(30)
<1>3. (b * x) * z = (b * z) * x /\ (a * y) * z = (a * z) * y /\ (c * y) * x = (c * x) * y
  BY SMTT(30)
<1>4. a * z \in Int /\ c * x \in Int
  OBVIOUS
<1>5. (a * z) * y <= (c * x) * y
  BY <1>1, <1>2, <1>3
<1> DEFINE u == a * z
           v == c * x
<1> HIDE DEF u, v
<1>6. u \in Int /\ v \in Int /\ u * y <= v * y
  BY <1>4, <1>5 DEF u, v
<1>7. u <= v
  <2>1. CASE v < u
    <3>1. y * v + y <= y * u
      BY <1>6, <2>1, Multiples
    <3>2. y * v \in Int /\ y * u \in Int /\ y * v = v * y /\ y * u = u * y
      BY <1>6
    <3> QED
      BY <1>6, <3>1, <3>2
  <2> QED
    BY <1>6, <2>1
<1> QED
  BY <1>7 DEF u, v

\* One of finitely many ratios is greatest.
LEMMA GreatestRatio ==
  ASSUME NEW n \in Nat \ {0}, NEW A \in [1 .. n -> Int], NEW D \in [1 .. n -> Nat \ {0}]
  PROVE  \E m \in 1 .. n : \A i \in 1 .. n : A[i] * D[m] <= A[m] * D[i]
<1> DEFINE Greatest(m, k) == m \in 1 .. k /\ \A i \in 1 .. k : A[i] * D[m] <= A[m] * D[i]
           N == {k \in Nat : k + 1 <= n => \E m \in 1 .. n : Greatest(m, k + 1)}
<1>1. 0 \in N
  <2>1. 1 \in 1 .. n
    OBVIOUS
  <2>2. Greatest(1, 1)
    <3>1. A[1] * D[1] \in Int
      BY <2>1
    <3> QED
      BY <3>1
  <2>3. \E m \in 1 .. n : Greatest(m, 0 + 1)
    BY <2>1, <2>2
  <2> HIDE DEF Greatest
  <2> QED
    BY <2>3
<1>2. ASSUME NEW k \in N PROVE k + 1 \in N
  <2>0. k \in Nat
    OBVIOUS
  <2> SUFFICES ASSUME k + 2 <= n PROVE \E m \in 1 .. n : Greatest(m, k + 2)
    <3>1. (k + 1) + 1 = k + 2 /\ k + 1 \in Nat
      BY <2>0
    <3> HIDE DEF Greatest
    <3> QED
      BY <3>1
  <2>1. PICK m \in 1 .. n : Greatest(m, k + 1)
    <3> HIDE DEF Greatest
    <3> QED
      BY <2>0
  <2> DEFINE e == k + 2
  <2>6. m \in 1 .. k + 1
    BY <2>1
  <2>7. e \in 1 .. n /\ 1 .. e = (1 .. k + 1) \cup {e} /\ 1 .. k + 1 \subseteq 1 .. n
    <3>1. k \in Nat /\ n \in Nat /\ k + 2 <= n
      BY <2>0
    <3> HIDE DEF N
    <3>2. \A j \in Int : j \in 1 .. k + 2 <=> j \in 1 .. k + 1 \/ j = k + 2
      BY <3>1
    <3>3. k + 2 \in 1 .. n /\ \A j \in 1 .. k + 1 : j \in 1 .. n
      BY <3>1
    <3>4. e \in 1 .. n
      BY <3>3
    <3>5. 1 .. e = (1 .. k + 1) \cup {e}
      <4> HIDE DEF Greatest
      <4>1. 1 .. k + 2 \subseteq Int /\ 1 .. k + 1 \subseteq Int /\ k + 2 \in Int
        BY <3>1
      <4> QED
        BY <3>2, <4>1
    <3>6. 1 .. k + 1 \subseteq 1 .. n
      BY <3>3
    <3> QED
      BY <3>4, <3>5, <3>6
  <2>2. e \in 1 .. n /\ m \in 1 .. n /\ 1 .. e = (1 .. k + 1) \cup {e} /\ m \in 1 .. k + 1
    BY <2>6, <2>7
  <2>3. /\ A[e] \in Int /\ A[m] \in Int /\ D[e] \in Nat \ {0} /\ D[m] \in Nat \ {0}
        /\ A[e] * D[m] \in Int /\ A[m] * D[e] \in Int
        /\ A[e] * D[e] <= A[e] * D[e]
    <3>1. /\ A[e] \in Int /\ A[m] \in Int /\ D[e] \in Nat \ {0} /\ D[m] \in Nat \ {0}
      BY <2>2
    <3> DEFINE b == A[m]
               c == A[e]
               y == D[m]
               z == D[e]
    <3>2. b \in Int /\ c \in Int /\ y \in Int /\ z \in Int
      BY <3>1
    <3> HIDE DEF b, c, y, z, N, Greatest
    <3>3. c * y \in Int /\ b * z \in Int /\ c * z \in Int
      BY <3>2, Product
    <3>4. c * z <= c * z
      BY <3>3
    <3> QED
      BY <3>1, <3>3, <3>4 DEF b, c, y, z
  <2>4. CASE A[e] * D[m] <= A[m] * D[e]
    <3>1. Greatest(m, e)
      BY <2>1, <2>2, <2>4
    <3> HIDE DEF Greatest
    <3> QED
      BY <3>1
  <2>5. CASE A[m] * D[e] <= A[e] * D[m]
    <3>1. ASSUME NEW i \in 1 .. k + 1 PROVE A[i] * D[e] <= A[e] * D[i]
      <4>1. A[i] \in Int /\ D[i] \in Nat \ {0}
        BY <2>7
      <4>2. A[i] * D[m] <= A[m] * D[i]
        BY <2>1
      <4> DEFINE a == A[i]
                 b == A[m]
                 c == A[e]
                 x == D[i]
                 y == D[m]
                 z == D[e]
      <4>3. /\ a \in Int /\ b \in Int /\ c \in Int
            /\ x \in Nat \ {0} /\ y \in Nat \ {0} /\ z \in Nat \ {0}
            /\ a * y <= b * x /\ b * z <= c * y
        BY <2>3, <2>5, <4>1, <4>2
      <4> HIDE DEF a, b, c, x, y, z
      <4>4. a * z <= c * x
        BY <4>3, RatioOrder
      <4> QED
        BY <4>4 DEF a, c, x, z
    <3>2. Greatest(e, e)
      BY <2>2, <2>3, <3>1
    <3> HIDE DEF Greatest
    <3> QED
      BY <2>2, <3>2
  <2> QED
    BY <2>3, <2>4, <2>5
<1>3. N = Nat
  <2>1. N \in SUBSET Nat
    OBVIOUS
  <2> HIDE DEF N
  <2> QED
    BY <1>1, <1>2, <2>1, SetInduction
<1>4. PICK m \in 1 .. n : Greatest(m, n)
  <2> DEFINE k == n - 1
  <2>1. k \in Nat /\ k + 1 = n
    OBVIOUS
  <2> HIDE DEF Greatest
  <2> HIDE DEF k
  <2>2. k \in N
    BY <1>3, <2>1
  <2>3. \E m \in 1 .. n : Greatest(m, k + 1)
    BY <2>1, <2>2
  <2> QED
    BY <2>1, <2>3
<1> QED
  BY <1>4
===============================================================================
