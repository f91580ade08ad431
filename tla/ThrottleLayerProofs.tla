------------------------- MODULE ThrottleLayerProofs -------------------------
(***************************************************************************)
(* What the layer guarantees for all events, settings and bounds: the      *)
(* limit on the signatures tracked, the accounts of its counters, and the  *)
(* bound on what it logs through itself.                                   *)
(***************************************************************************)
EXTENDS ThrottleLayer, FiniteSetTheorems, WellFoundedInduction, TLAPS

-----------------------------------------------------------------------------
(* Sums.  An induction over the naturals is the argument that a set of them *)
(* that is not empty has a least element: it is used for the set of sizes   *)
(* for which a claim fails.                                                 *)

Pick(s) == CHOOSE x \in s : TRUE

SumStep(it, f, S) == [s \in SUBSET S |-> IF s = {} THEN 0 ELSE f[Pick(s)] + it[s \ {Pick(s)}]]

LEMMA TotalIsIter ==
    ASSUME NEW S, NEW f, DOMAIN f = S
    PROVE  Total(f) = (CHOOSE it : it = SumStep(it, f, S))[S]
  BY DEF Total, MapThenSumSet, MapThenFoldSet, SumStep, Pick

LEMMA Least ==
    ASSUME NEW T, T \subseteq Nat, T # {}
    PROVE  \E x \in T : \A y \in T : x <= y
<1>1. PICK x \in T : \A y \in T : ~(<<y, x>> \in OpToRel(<, Nat))
  BY NatLessThanWellFounded, WFMin
<1>2. \A y \in T : ~(y < x)
  BY <1>1 DEF OpToRel
<1> QED BY <1>2

Small(S, k) == {s \in SUBSET S : Cardinality(s) <= k}

Sums(g, f, S, k) ==
    /\ g \in [Small(S, k) -> Int]
    /\ \A s \in Small(S, k) : g[s] = IF s = {} THEN 0 ELSE f[Pick(s)] + g[s \ {Pick(s)}]

LEMMA PickFacts ==
    ASSUME NEW S, IsFiniteSet(S), NEW s \in SUBSET S
    PROVE  /\ IsFiniteSet(s) /\ Cardinality(s) \in Nat /\ Cardinality(s) <= Cardinality(S)
           /\ s # {} => /\ Pick(s) \in s
                        /\ s \ {Pick(s)} \in SUBSET S
                        /\ Cardinality(s \ {Pick(s)}) = Cardinality(s) - 1
           /\ Cardinality(s) = 0 <=> s = {}
<1>1. IsFiniteSet(s) /\ Cardinality(s) \in Nat /\ Cardinality(s) <= Cardinality(S)
  BY FS_Subset, FS_CardinalityType
<1>2. s # {} => Pick(s) \in s
  BY DEF Pick
<1>3. s # {} => Cardinality(s \ {Pick(s)}) = Cardinality(s) - 1
  BY <1>1, <1>2, FS_RemoveElement
<1>4. Cardinality(s) = 0 <=> s = {}
  BY <1>1, FS_EmptySet
<1> QED BY <1>1, <1>2, <1>3, <1>4

LEMMA SumsGrow ==
    ASSUME NEW S, IsFiniteSet(S), NEW f \in [S -> Int], NEW k \in Nat, NEW g, Sums(g, f, S, k)
    PROVE  \E e : Sums(e, f, S, k + 1)
<1> DEFINE e == [s \in Small(S, k + 1) |-> IF s \in Small(S, k) THEN g[s] ELSE f[Pick(s)] + g[s \ {Pick(s)}]]
<1>1. ASSUME NEW s \in Small(S, k + 1)
      PROVE  /\ s \in SUBSET S /\ (s = {} => s \in Small(S, k))
             /\ s # {} => Pick(s) \in S /\ s \ {Pick(s)} \in Small(S, k) /\ s \ {Pick(s)} \in Small(S, k + 1)
  <2>1. s \in SUBSET S /\ Cardinality(s) <= k + 1
    BY DEF Small
  <2>2. /\ Cardinality(s) \in Nat /\ (Cardinality(s) = 0 <=> s = {})
        /\ s # {} => /\ Pick(s) \in s
                     /\ s \ {Pick(s)} \in SUBSET S
                     /\ Cardinality(s \ {Pick(s)}) = Cardinality(s) - 1
    BY <2>1, PickFacts
  <2> QED BY <2>1, <2>2 DEF Small
<1>2. e \in [Small(S, k + 1) -> Int]
  BY <1>1 DEF Sums
<1>3. ASSUME NEW s \in Small(S, k + 1)
      PROVE  e[s] = IF s = {} THEN 0 ELSE f[Pick(s)] + e[s \ {Pick(s)}]
  <2>1. CASE s \in Small(S, k)
    BY <1>1, <1>3, <2>1 DEF Sums
  <2>2. CASE s \notin Small(S, k)
    <3>1. s # {} /\ s \ {Pick(s)} \in Small(S, k) /\ s \ {Pick(s)} \in Small(S, k + 1)
      BY <1>1, <2>2
    <3> QED BY <2>2, <3>1
  <2> QED BY <2>1, <2>2
<1>4. Sums(e, f, S, k + 1)
  BY <1>2, <1>3 DEF Sums
<1> QED BY <1>4

LEMMA SumsExist ==
    ASSUME NEW S, IsFiniteSet(S), NEW f \in [S -> Int], NEW k \in Nat
    PROVE  \E g : Sums(g, f, S, k)
<1> DEFINE bad == {n \in Nat : ~(\E g : Sums(g, f, S, n))}
<1> SUFFICES ASSUME bad # {} PROVE FALSE
  OBVIOUS
<1>1. PICK n \in bad : \A m \in bad : n <= m
  <2>1. bad \subseteq Nat
    OBVIOUS
  <2> HIDE DEF bad
  <2> QED BY <2>1, Least
<1>2. CASE n = 0
  <2>1. ASSUME NEW s \in Small(S, 0) PROVE s = {}
    <3>1. s \in SUBSET S /\ Cardinality(s) <= 0
      BY DEF Small
    <3>2. Cardinality(s) \in Nat /\ (Cardinality(s) = 0 <=> s = {})
      BY <3>1, PickFacts
    <3> QED BY <3>1, <3>2
  <2>2. Sums([s \in Small(S, 0) |-> 0], f, S, 0)
    BY <2>1 DEF Sums
  <2> QED BY <1>1, <1>2, <2>2
<1>3. CASE n # 0
  <2>1. n - 1 \in Nat /\ n - 1 \notin bad
    BY <1>1, <1>3
  <2>2. PICK g : Sums(g, f, S, n - 1)
    BY <2>1
  <2>3. \E e : Sums(e, f, S, (n - 1) + 1)
    BY <2>1, <2>2, SumsGrow
  <2>4. (n - 1) + 1 = n
    BY <2>1
  <2> QED BY <1>1, <2>3, <2>4
<1> QED BY <1>2, <1>3

LEMMA TotalIs ==
    ASSUME NEW S, IsFiniteSet(S), NEW f \in [S -> Int]
    PROVE  \E it : it = SumStep(it, f, S) /\ Total(f) = it[S]
<1>1. PICK g : Sums(g, f, S, Cardinality(S))
  BY SumsExist, FS_CardinalityType
<1>2. Small(S, Cardinality(S)) = SUBSET S
  BY PickFacts DEF Small
<1>3. g = SumStep(g, f, S)
  BY <1>1, <1>2 DEF Sums, SumStep
<1> DEFINE it == CHOOSE j : j = SumStep(j, f, S)
<1>4. it = SumStep(it, f, S)
  BY <1>3
<1>5. Total(f) = it[S]
  BY TotalIsIter
<1> HIDE DEF it
<1> QED BY <1>4, <1>5


\* The sum is the same in whatever order its terms are taken.
AnyOrder(it, f, s) == it[s] \in Int /\ \A x \in s : it[s] = f[x] + it[s \ {x}]

LEMMA SumAnyOrder ==
    ASSUME NEW S, IsFiniteSet(S), NEW f \in [S -> Int], NEW it, it = SumStep(it, f, S)
    PROVE  it[{}] = 0 /\ \A s \in SUBSET S : AnyOrder(it, f, s)
<1>1. \A s \in SUBSET S : it[s] = IF s = {} THEN 0 ELSE f[Pick(s)] + it[s \ {Pick(s)}]
  BY DEF SumStep
<1> DEFINE bad == {n \in Nat : \E s \in SUBSET S : Cardinality(s) = n /\ ~AnyOrder(it, f, s)}
<1>2. bad = {}
  <2> SUFFICES ASSUME bad # {} PROVE FALSE
    OBVIOUS
  <2>1. PICK n \in bad : \A m \in bad : n <= m
    <3>1. bad \subseteq Nat
      OBVIOUS
    <3> HIDE DEF bad
    <3> QED BY <3>1, Least
  <2>2. PICK s \in SUBSET S : Cardinality(s) = n /\ ~AnyOrder(it, f, s)
    BY <2>1
  <2>3. n \in Nat
    OBVIOUS
  <2>4. ASSUME NEW t \in SUBSET S, Cardinality(t) < n PROVE AnyOrder(it, f, t)
    <3>1. Cardinality(t) \in Nat
      BY PickFacts
    <3>2. Cardinality(t) \notin bad
      BY <2>1, <2>3, <2>4, <3>1
    <3> QED BY <3>1, <3>2
  <2> HIDE DEF bad
  <2>5. s # {}
    <3>1. it[{}] = 0
      BY <1>1
    <3>2. AnyOrder(it, f, {})
      BY <3>1 DEF AnyOrder
    <3> QED BY <2>2, <3>2
  <2> DEFINE p == Pick(s)
  <2>6. p \in s /\ p \in S /\ f[p] \in Int /\ it[s] = f[p] + it[s \ {p}]
    BY <1>1, <2>5, PickFacts
  <2>7. ASSUME NEW x \in s
        PROVE  s \ {x} \in SUBSET S /\ Cardinality(s \ {x}) = n - 1 /\ AnyOrder(it, f, s \ {x})
    <3>1. IsFiniteSet(s)
      BY PickFacts
    <3>2. Cardinality(s \ {x}) = n - 1
      BY <2>2, <3>1, FS_RemoveElement
    <3>3. s \ {x} \in SUBSET S /\ Cardinality(s \ {x}) < n
      BY <2>3, <3>2
    <3> QED BY <2>4, <3>2, <3>3
  <2> HIDE DEF p
  <2>8. it[s] \in Int
    <3>1. AnyOrder(it, f, s \ {p})
      BY <2>6, <2>7
    <3>2. it[s \ {p}] \in Int
      BY <3>1 DEF AnyOrder
    <3> QED BY <2>6, <3>2
  <2>9. ASSUME NEW x \in s PROVE it[s] = f[x] + it[s \ {x}]
    <3>1. CASE x = p
      BY <2>6, <3>1
    <3>2. CASE x # p
      <4>1. x \in s \ {p} /\ p \in s \ {x} /\ (s \ {p}) \ {x} = (s \ {x}) \ {p}
        BY <2>6, <3>2
      <4> DEFINE t == (s \ {x}) \ {p}
      <4>2. AnyOrder(it, f, s \ {p}) /\ AnyOrder(it, f, s \ {x})
        BY <2>6, <2>7
      <4>3. it[s \ {p}] = f[x] + it[t] /\ it[s \ {x}] = f[p] + it[t]
        BY <4>1, <4>2 DEF AnyOrder
      <4>4. it[t] \in Int
        <5>1. t \in SUBSET S /\ s \ {x} \in SUBSET S
          BY <2>7
        <5>2. IsFiniteSet(s \ {x})
          BY <5>1, FS_Subset
        <5>3. Cardinality(t) = Cardinality(s \ {x}) - 1
          BY <4>1, <5>2, FS_RemoveElement
        <5>4. Cardinality(s \ {x}) = n - 1
          BY <2>7
        <5>5. Cardinality(t) < n
          BY <2>3, <5>3, <5>4
        <5>6. AnyOrder(it, f, t)
          BY <2>4, <5>1, <5>5
        <5> QED BY <5>6 DEF AnyOrder
      <4>5. f[x] \in Int /\ f[p] \in Int
        BY <2>6
      <4> HIDE DEF t
      <4> QED BY <2>6, <4>3, <4>4, <4>5
    <3> QED BY <3>1, <3>2
  <2> QED BY <2>2, <2>8, <2>9 DEF AnyOrder
<1>3. ASSUME NEW s \in SUBSET S PROVE AnyOrder(it, f, s)
  <2>1. Cardinality(s) \in Nat
    BY PickFacts
  <2> QED BY <1>2, <2>1
<1> QED BY <1>1, <1>3

\* A sum is its term at x and the sum of the others.
Without(f, x) == [y \in DOMAIN f \ {x} |-> f[y]]

LEMMA TotalRemove ==
    ASSUME NEW S, IsFiniteSet(S), NEW f \in [S -> Int], NEW x \in S
    PROVE  /\ Total(f) \in Int /\ Total(Without(f, x)) \in Int
           /\ Total(f) = f[x] + Total(Without(f, x))
           /\ Without(f, x) \in [S \ {x} -> Int] /\ IsFiniteSet(S \ {x})
           /\ Cardinality(S) \in Nat /\ Cardinality(S \ {x}) = Cardinality(S) - 1
<1> DEFINE R == S \ {x}
           h == Without(f, x)
<1>1. PICK u : u = SumStep(u, f, S) /\ Total(f) = u[S]
  BY TotalIs
<1>2. IsFiniteSet(R) /\ h \in [R -> Int] /\ \A y \in R : h[y] = f[y]
  BY FS_Subset DEF Without
<1>3. Cardinality(S) \in Nat /\ Cardinality(R) = Cardinality(S) - 1
  BY FS_CardinalityType, FS_RemoveElement
<1> HIDE DEF h
<1>4. PICK v : v = SumStep(v, h, R) /\ Total(h) = v[R]
  BY <1>2, TotalIs
<1>5. u[{}] = 0 /\ \A s \in SUBSET S : AnyOrder(u, f, s)
  BY <1>1, SumAnyOrder
<1>6. v[{}] = 0 /\ \A s \in SUBSET R : AnyOrder(v, h, s)
  BY <1>2, <1>4, SumAnyOrder
<1> DEFINE bad == {n \in Nat : \E s \in SUBSET R : Cardinality(s) = n /\ u[s] # v[s]}
<1>7. bad = {}
  <2> SUFFICES ASSUME bad # {} PROVE FALSE
    OBVIOUS
  <2>1. PICK n \in bad : \A m \in bad : n <= m
    <3>1. bad \subseteq Nat
      OBVIOUS
    <3> HIDE DEF bad
    <3> QED BY <3>1, Least
  <2>2. PICK s \in SUBSET R : Cardinality(s) = n /\ u[s] # v[s]
    BY <2>1
  <2>3. s # {}
    BY <1>5, <1>6, <2>2
  <2>4. PICK y : y \in s
    BY <2>3
  <2>5. s \ {y} \in SUBSET R /\ Cardinality(s \ {y}) = n - 1 /\ Cardinality(s \ {y}) \in Nat
    BY <1>2, <2>2, <2>4, FS_Subset, FS_RemoveElement, FS_CardinalityType
  <2>6. u[s \ {y}] = v[s \ {y}]
    BY <2>1, <2>2, <2>5
  <2>7. AnyOrder(u, f, s) /\ AnyOrder(v, h, s)
    BY <1>5, <1>6
  <2>8. u[s] = f[y] + u[s \ {y}] /\ v[s] = h[y] + v[s \ {y}]
    BY <2>4, <2>7 DEF AnyOrder
  <2> QED BY <1>2, <2>2, <2>4, <2>6, <2>8
<1>8. u[R] = v[R]
  <2>1. Cardinality(R) \in Nat
    BY <1>2, FS_CardinalityType
  <2> QED BY <1>7, <2>1
<1>9. u[S] = f[x] + u[R] /\ u[S] \in Int
  <2>1. AnyOrder(u, f, S)
    BY <1>5
  <2> QED BY <2>1 DEF AnyOrder
<1>10. v[R] \in Int
  <2>1. AnyOrder(v, h, R)
    BY <1>6
  <2> QED BY <2>1 DEF AnyOrder
<1> QED BY <1>1, <1>2, <1>3, <1>4, <1>8, <1>9, <1>10 DEF h

SplitAt(S, f, x) ==
    /\ Total(f) = f[x] + Total(Without(f, x))
    /\ Total(Without(f, x)) \in Int
    /\ Without(f, x) \in [S \ {x} -> Int]

LEMMA TotalSplit ==
    ASSUME NEW S, IsFiniteSet(S), NEW f \in [S -> Int], NEW x \in S
    PROVE  SplitAt(S, f, x)
  BY TotalRemove DEF SplitAt

LEMMA TotalEmpty ==
    ASSUME NEW f, f \in [{} -> Int] PROVE Total(f) = 0
<1>1. IsFiniteSet({})
  BY FS_EmptySet
<1>2. PICK u : u = SumStep(u, f, {}) /\ Total(f) = u[{}]
  BY <1>1, TotalIs
<1> QED BY <1>2 DEF SumStep

LEMMA TotalType ==
    ASSUME NEW S, IsFiniteSet(S), NEW f \in [S -> Int] PROVE Total(f) \in Int
<1>1. CASE S = {}
  <2>1. f \in [{} -> Int]
    BY <1>1
  <2>2. Total(f) = 0
    BY <2>1, TotalEmpty
  <2> QED BY <2>2
<1>2. CASE S # {}
  <2>1. PICK x \in S : TRUE
    BY <1>2
  <2> QED BY <2>1, TotalRemove
<1> QED BY <1>1, <1>2

\* What is bounded term by term is bounded as a sum.
Bounded(S, f, g, h) ==
    /\ f \in [S -> Int] /\ g \in [S -> Int] /\ h \in [S -> Int]
    /\ \A x \in S : f[x] <= g[x] + h[x]

LEMMA TotalBounded ==
    ASSUME NEW S, IsFiniteSet(S), NEW f, NEW g, NEW h, Bounded(S, f, g, h)
    PROVE  Total(f) <= Total(g) + Total(h)
<1> DEFINE fails(T, a, b, c) == Bounded(T, a, b, c) /\ ~(Total(a) <= Total(b) + Total(c))
           bad == {n \in Nat : \E T, a, b, c :
                      IsFiniteSet(T) /\ Cardinality(T) = n /\ fails(T, a, b, c)}
<1>1. bad = {}
  <2> SUFFICES ASSUME bad # {} PROVE FALSE
    OBVIOUS
  <2>1. PICK n \in bad : \A m \in bad : n <= m
    <3>1. bad \subseteq Nat
      OBVIOUS
    <3> HIDE DEF bad
    <3> QED BY <3>1, Least
  <2>2. PICK T, a, b, c : IsFiniteSet(T) /\ Cardinality(T) = n /\ fails(T, a, b, c)
    BY <2>1
  <2>3. T # {}
    <3> SUFFICES ASSUME T = {} PROVE FALSE
      OBVIOUS
    <3>1. Total(a) = 0 /\ Total(b) = 0 /\ Total(c) = 0
      BY <2>2, TotalEmpty DEF Bounded
    <3> QED BY <2>2, <3>1
  <2>4. PICK x \in T : TRUE
    BY <2>3
  <2> DEFINE R == T \ {x}
             k(q) == Without(q, x)
  <2>5. a \in [T -> Int] /\ b \in [T -> Int] /\ c \in [T -> Int]
    BY <2>2 DEF Bounded
  <2>6. /\ Total(a) = a[x] + Total(k(a)) /\ Total(k(a)) \in Int /\ k(a) \in [R -> Int]
        /\ Total(b) = b[x] + Total(k(b)) /\ Total(k(b)) \in Int /\ k(b) \in [R -> Int]
        /\ Total(c) = c[x] + Total(k(c)) /\ Total(k(c)) \in Int /\ k(c) \in [R -> Int]
    <3>1. IsFiniteSet(T)
      BY <2>2
    <3>2. SplitAt(T, a, x) /\ SplitAt(T, b, x) /\ SplitAt(T, c, x)
      BY <2>4, <2>5, <3>1, TotalSplit
    <3> QED BY <3>2 DEF SplitAt
  <2>7. IsFiniteSet(R) /\ Cardinality(T) \in Nat /\ Cardinality(R) = Cardinality(T) - 1
    BY <2>2, <2>4, <2>5, TotalRemove
  <2>8. Cardinality(R) \in Nat /\ ~(n <= Cardinality(R))
    BY <2>2, <2>7, FS_CardinalityType
  <2>9. Bounded(R, k(a), k(b), k(c))
    <3>1. \A y \in R : k(a)[y] = a[y] /\ k(b)[y] = b[y] /\ k(c)[y] = c[y]
      BY <2>5 DEF Without
    <3> QED BY <2>2, <2>6, <3>1 DEF Bounded
  <2>10. Total(k(a)) <= Total(k(b)) + Total(k(c))
    BY <2>1, <2>7, <2>8, <2>9
  <2>11. a[x] <= b[x] + c[x] /\ a[x] \in Int /\ b[x] \in Int /\ c[x] \in Int
    BY <2>2, <2>4, <2>5 DEF Bounded
  <2>12. ~(Total(a) <= Total(b) + Total(c))
    BY <2>2
  <2> HIDE DEF k, R, bad, fails
  <2> QED BY <2>6, <2>10, <2>11, <2>12
<1>2. Cardinality(S) \in Nat
  BY FS_CardinalityType
<1> QED BY <1>1, <1>2

\* The sum of the sums, term by term.
Summed(S, f, g, h) ==
    /\ f \in [S -> Int] /\ g \in [S -> Int] /\ h \in [S -> Int]
    /\ \A x \in S : f[x] = g[x] + h[x]

LEMMA TotalSum ==
    ASSUME NEW S, IsFiniteSet(S), NEW f, NEW g, NEW h, Summed(S, f, g, h)
    PROVE  Total(f) = Total(g) + Total(h)
<1> DEFINE fails(T, a, b, c) == Summed(T, a, b, c) /\ ~(Total(a) = Total(b) + Total(c))
           bad == {n \in Nat : \E T, a, b, c :
                      IsFiniteSet(T) /\ Cardinality(T) = n /\ fails(T, a, b, c)}
<1>1. bad = {}
  <2> SUFFICES ASSUME bad # {} PROVE FALSE
    OBVIOUS
  <2>1. PICK n \in bad : \A m \in bad : n <= m
    <3>1. bad \subseteq Nat
      OBVIOUS
    <3> HIDE DEF bad
    <3> QED BY <3>1, Least
  <2>2. PICK T, a, b, c : IsFiniteSet(T) /\ Cardinality(T) = n /\ fails(T, a, b, c)
    BY <2>1
  <2>3. T # {}
    <3> SUFFICES ASSUME T = {} PROVE FALSE
      OBVIOUS
    <3>1. Total(a) = 0 /\ Total(b) = 0 /\ Total(c) = 0
      BY <2>2, TotalEmpty DEF Summed
    <3> QED BY <2>2, <3>1
  <2>4. PICK x \in T : TRUE
    BY <2>3
  <2> DEFINE R == T \ {x}
             k(q) == Without(q, x)
  <2>5. a \in [T -> Int] /\ b \in [T -> Int] /\ c \in [T -> Int]
    BY <2>2 DEF Summed
  <2>6. /\ Total(a) = a[x] + Total(k(a)) /\ Total(k(a)) \in Int /\ k(a) \in [R -> Int]
        /\ Total(b) = b[x] + Total(k(b)) /\ Total(k(b)) \in Int /\ k(b) \in [R -> Int]
        /\ Total(c) = c[x] + Total(k(c)) /\ Total(k(c)) \in Int /\ k(c) \in [R -> Int]
    <3>1. IsFiniteSet(T)
      BY <2>2
    <3>2. SplitAt(T, a, x) /\ SplitAt(T, b, x) /\ SplitAt(T, c, x)
      BY <2>4, <2>5, <3>1, TotalSplit
    <3> QED BY <3>2 DEF SplitAt
  <2>7. IsFiniteSet(R) /\ Cardinality(T) \in Nat /\ Cardinality(R) = Cardinality(T) - 1
    BY <2>2, <2>4, <2>5, TotalRemove
  <2>8. Cardinality(R) \in Nat /\ ~(n <= Cardinality(R))
    BY <2>2, <2>7, FS_CardinalityType
  <2>9. Summed(R, k(a), k(b), k(c))
    <3>1. \A y \in R : k(a)[y] = a[y] /\ k(b)[y] = b[y] /\ k(c)[y] = c[y]
      BY <2>5 DEF Without
    <3> QED BY <2>2, <2>6, <3>1 DEF Summed
  <2>10. Total(k(a)) = Total(k(b)) + Total(k(c))
    BY <2>1, <2>7, <2>8, <2>9
  <2>11. a[x] = b[x] + c[x] /\ a[x] \in Int /\ b[x] \in Int /\ c[x] \in Int
    BY <2>2, <2>4, <2>5 DEF Summed
  <2>12. ~(Total(a) = Total(b) + Total(c))
    BY <2>2
  <2> HIDE DEF k, R, bad, fails
  <2> QED BY <2>6, <2>10, <2>11, <2>12
<1>2. Cardinality(S) \in Nat
  BY FS_CardinalityType
<1> QED BY <1>1, <1>2

\* Terms that are zero can be left out.
LEMMA TotalSupport ==
    ASSUME NEW U, IsFiniteSet(U), NEW f \in [U -> Int], NEW S, S \subseteq U,
           \A x \in U \ S : f[x] = 0
    PROVE  Total([x \in S |-> f[x]]) = Total(f)
<1> DEFINE part(a) == [x \in S |-> a[x]]
           fails(T, a) == /\ a \in [T -> Int] /\ S \subseteq T /\ \A x \in T \ S : a[x] = 0
                          /\ Total(part(a)) # Total(a)
           bad == {n \in Nat : \E T, a : IsFiniteSet(T) /\ Cardinality(T) = n /\ fails(T, a)}
<1>1. bad = {}
  <2> SUFFICES ASSUME bad # {} PROVE FALSE
    OBVIOUS
  <2>1. PICK n \in bad : \A m \in bad : n <= m
    <3>1. bad \subseteq Nat
      OBVIOUS
    <3> HIDE DEF bad
    <3> QED BY <3>1, Least
  <2>2. PICK T, a : IsFiniteSet(T) /\ Cardinality(T) = n /\ fails(T, a)
    BY <2>1
  <2>3. T # S
    <3> SUFFICES ASSUME T = S PROVE FALSE
      OBVIOUS
    <3>1. part(a) = a
      BY <2>2
    <3> QED BY <2>2, <3>1
  <2>4. PICK x \in T : x \notin S
    BY <2>2, <2>3
  <2> DEFINE R == T \ {x}
             b == Without(a, x)
  <2>5. /\ Total(a) = a[x] + Total(b) /\ Total(b) \in Int /\ b \in [R -> Int]
        /\ IsFiniteSet(R) /\ Cardinality(T) \in Nat /\ Cardinality(R) = Cardinality(T) - 1
    <3>1. IsFiniteSet(T) /\ a \in [T -> Int]
      BY <2>2
    <3>2. SplitAt(T, a, x)
      BY <2>4, <3>1, TotalSplit
    <3>3. IsFiniteSet(R) /\ Cardinality(R) = Cardinality(T) - 1
      BY <2>4, <3>1, FS_RemoveElement
    <3> QED BY <3>1, <3>2, <3>3, FS_CardinalityType DEF SplitAt
  <2>6. Cardinality(R) \in Nat /\ ~(n <= Cardinality(R))
    BY <2>2, <2>5, FS_CardinalityType
  <2>7. \A y \in R : b[y] = a[y]
    BY <2>2 DEF Without
  <2>8. S \subseteq R /\ \A y \in R \ S : b[y] = 0
    <3>1. S \subseteq T /\ \A y \in T \ S : a[y] = 0
      BY <2>2
    <3> HIDE DEF b
    <3> QED BY <2>4, <2>7, <3>1
  <2>9. part(b) = part(a)
    BY <2>7, <2>8
  <2>10. ~fails(R, b)
    <3>1. Cardinality(R) \notin bad
      <4> HIDE DEF bad
      <4> QED BY <2>1, <2>6
    <3> HIDE DEF fails, b, R
    <3> QED BY <2>5, <2>6, <3>1
  <2>11. Total(part(b)) = Total(b)
    BY <2>5, <2>8, <2>10
  <2>12. a[x] = 0 /\ Total(part(a)) # Total(a)
    <3>1. S \subseteq T /\ \A y \in T \ S : a[y] = 0
      BY <2>2
    <3>2. Total(part(a)) # Total(a)
      BY <2>2
    <3> HIDE DEF part
    <3> QED BY <2>4, <3>1, <3>2
  <2> HIDE DEF b, R, bad, fails, part
  <2> QED BY <2>5, <2>9, <2>11, <2>12
<1>2. Cardinality(U) \in Nat
  BY FS_CardinalityType
<1> QED BY <1>1, <1>2

\* A function that is d at x and zero elsewhere; Nought is zero everywhere.
Point(S, x, d) == [y \in S |-> IF y = x THEN d ELSE 0]
Nought(S) == [y \in S |-> 0]

LEMMA TotalNought ==
    ASSUME NEW S, IsFiniteSet(S)
    PROVE  Nought(S) \in [S -> Int] /\ Total(Nought(S)) = 0
<1>1. Nought(S) \in [S -> Int]
  BY DEF Nought
<1>2. Total([x \in {} |-> Nought(S)[x]]) = Total(Nought(S))
  BY <1>1, TotalSupport DEF Nought
<1> QED BY <1>1, <1>2, TotalEmpty

LEMMA TotalPoint ==
    ASSUME NEW S, IsFiniteSet(S), NEW x \in S, NEW d \in Int
    PROVE  Point(S, x, d) \in [S -> Int] /\ Total(Point(S, x, d)) = d
<1> DEFINE f == Point(S, x, d)
<1>1. f \in [S -> Int] /\ f[x] = d
  BY DEF Point
<1>2. Without(f, x) = Nought(S \ {x})
  BY DEF Point, Without, Nought
<1>3. Total(f) = f[x] + Total(Without(f, x)) /\ IsFiniteSet(S \ {x})
  BY <1>1, TotalRemove
<1>4. Total(Without(f, x)) = 0
  BY <1>2, <1>3, TotalNought
<1> QED BY <1>1, <1>3, <1>4

LEMMA TotalNonneg ==
    ASSUME NEW S, IsFiniteSet(S), NEW f \in [S -> Nat]
    PROVE  Total(f) \in Int /\ Total(f) >= 0
<1>1. Nought(S) \in [S -> Int] /\ Total(Nought(S)) = 0
  BY TotalNought
<1>2. Bounded(S, Nought(S), f, Nought(S))
  BY <1>1 DEF Bounded, Nought
<1>3. Total(f) \in Int
  BY TotalType
<1> QED BY <1>1, <1>2, <1>3, TotalBounded

-----------------------------------------------------------------------------
(* The builder. *)

LEMMA EmptyTuple == DOMAIN <<>> = {} /\ <<>> \in [{} -> Nat]
<1>1. <<>> = [x \in {} |-> 0]
  OBVIOUS
<1> QED BY <1>1

LEMMA LayerInit == Init => LayerInv
<1> SUFFICES ASSUME Init PROVE LayerInv
  OBVIOUS
<1> USE DEF Init
<1>0. DOMAIN storage = {} /\ DOMAIN recency = {} /\ DOMAIN claimed = {} /\ layer = None
  BY EmptyTuple
<1>1. TypeOK
  <2>1. builder \in BuilderType
    BY DEF DefaultBuilder, BuilderType
  <2>2. IsFiniteSet(DOMAIN storage) /\ IsFiniteSet(DOMAIN claimed)
    BY <1>0, FS_EmptySet
  <2>3. recency \in [DOMAIN storage -> Nat]
    BY <1>0, EmptyTuple
  <2>4. \A s \in DOMAIN storage : storage[s].counter \in Counter({0})
    BY <1>0
  <2> QED BY <2>1, <2>2, <2>3, <2>4 DEF TypeOK
<1>2. BuiltInv
  BY <1>0 DEF BuiltInv
<1>3. MetadataInv
  BY <1>0 DEF MetadataInv
<1>4. LimitHonoured /\ UnthrottledInv
  BY <1>0 DEF LimitHonoured, UnthrottledInv
<1>5. EventsAccounted
  <2>1. Suppressions \in [{} -> Int]
    BY <1>0 DEF Suppressions
  <2>2. Total(Suppressions) = 0
    BY <2>1, TotalEmpty
  <2>3. /\ metrics.suppressed = 0 /\ metrics.allowed = 0 /\ lost = 0
        /\ bypassed = 0 /\ logged = 0 /\ summaries = 0
    OBVIOUS
  <2> HIDE DEF Init
  <2> QED BY <2>2, <2>3 DEF EventsAccounted
<1> QED BY <1>1, <1>2, <1>3, <1>4, <1>5 DEF LayerInv

\* Every setter keeps the builder's type.
LEMMA SetterKeepsType ==
    ASSUME builder \in BuilderType, Setter
    PROVE  /\ builder' \in BuilderType /\ built = "not_yet"
           /\ UNCHANGED <<built, layer, limiter, emitter, history>>
<1> USE DEF BuilderType, Set
<1>1. CASE WithPolicy
  BY <1>1 DEF WithPolicy
<1>2. CASE WithSummaryInterval
  BY <1>2 DEF WithSummaryInterval
<1>3. CASE WithMaxSignatures
  BY <1>3 DEF WithMaxSignatures
<1>4. CASE WithUnlimitedSignatures
  BY <1>4 DEF WithUnlimitedSignatures
<1>5. CASE WithActiveEmission
  BY <1>5 DEF WithActiveEmission
<1>6. CASE WithSummaryFormatter
  BY <1>6 DEF WithSummaryFormatter
<1>7. CASE WithSpanContextFields
  BY <1>7 DEF WithSpanContextFields
<1>8. CASE WithExcludedFields
  BY <1>8 DEF WithExcludedFields
<1>9. CASE WithExemptTargets
  BY <1>9 DEF WithExemptTargets
<1>10. CASE WithEvictionStrategy
  BY <1>10 DEF WithEvictionStrategy
<1> QED BY <1>1, <1>2, <1>3, <1>4, <1>5, <1>6, <1>7, <1>8, <1>9, <1>10 DEF Setter

\* What was not touched keeps its invariants.
LEMMA SetterStep == LayerInv /\ Setter => LayerInv'
<1> SUFFICES ASSUME LayerInv, Setter PROVE LayerInv'
  OBVIOUS
<1>1. builder' \in BuilderType /\ built = "not_yet" /\ UNCHANGED <<built, layer, limiter, emitter, history>>
  BY SetterKeepsType DEF LayerInv, TypeOK
<1> USE <1>1 DEF limiter, emitter, history
<1>2. layer = None
  BY DEF LayerInv, BuiltInv
<1>3. TypeOK'
  BY DEF LayerInv, TypeOK
<1>4. BuiltInv'
  BY <1>2 DEF LayerInv, BuiltInv
<1>5. MetadataInv'
  BY DEF LayerInv, MetadataInv, Describes
<1>6. LimitHonoured' /\ UnthrottledInv'
  BY <1>2 DEF LimitHonoured, UnthrottledInv
<1>7. EventsAccounted'
  BY DEF LayerInv, EventsAccounted, Suppressions
<1> QED BY <1>3, <1>4, <1>5, <1>6, <1>7 DEF LayerInv

\* The eviction policy of a builder.
LEMMA PolicyOfType ==
    ASSUME NEW b \in BuilderType PROVE PolicyOf(b) \in EvictionPolicy
<1>1. b.max_signatures \in Nat \cup {None} /\ b.eviction_strategy \in EvictionPolicy \cup {None}
  BY DefaultsAssumption, ArgumentsAssumption DEF BuilderType
<1>2. NoEviction \in EvictionPolicy
  BY DEF NoEviction, EvictionPolicy
<1>3. \A n \in Nat : LruEviction(n) \in EvictionPolicy
  BY DEF LruEviction, EvictionPolicy
<1> QED BY <1>1, <1>2, <1>3 DEF PolicyOf

\* What Run makes of builder b.
Started(b) ==
    /\ layer' \in LayerType /\ built' = "ok" /\ handle' \in BOOLEAN
    /\ task' \in {"none", "waiting"}
    /\ layer'.eviction_policy = PolicyOf(b)

LEMMA RunFacts ==
    ASSUME NEW b \in BuilderType, Run(b) PROVE Started(b)
<1>1. PolicyOf(b) \in EvictionPolicy
  BY PolicyOfType
<1>2. layer' \in LayerType
  BY <1>1 DEF Run, LayerType, BuilderType
<1> QED BY <1>2 DEF Run, BuilderType, Started

\* No limit forbids the first signature.
LEMMA FirstWithinLimit ==
    ASSUME NEW b \in BuilderType, b.max_signatures # 0, NEW n \in {0, 1}
    PROVE  WithinLimit(b, n)
<1>1. b.max_signatures \in Nat \cup {None}
  BY DefaultsAssumption, ArgumentsAssumption DEF BuilderType
<1> QED BY <1>1 DEF WithinLimit

\* A new layer tracks nothing.
LEMMA RunStep ==
    ASSUME LayerInv, built = "not_yet", builder' \in BuilderType, builder'.max_signatures # 0,
           built' = "ok", layer' \in LayerType, layer'.eviction_policy = PolicyOf(builder'),
           handle' \in BOOLEAN, task' \in {"none", "waiting"},
           UNCHANGED <<limiter, claimed, history>>
    PROVE  LayerInv'
<1> USE DEF limiter, history
<1>1. layer = None /\ DOMAIN storage = {} /\ DOMAIN claimed = {} /\ logged = 0 /\ summaries = 0
  BY DEF LayerInv, BuiltInv
<1>3. layer' # None
  BY NoLayerAssumption
<1>4. TypeOK'
  BY DEF LayerInv, TypeOK
<1>5. BuiltInv'
  BY <1>1, <1>3 DEF BuiltInv, PolicyOf
<1>6. MetadataInv'
  BY <1>1 DEF MetadataInv
<1>7. LimitHonoured'
  <2>1. Cardinality(DOMAIN storage') = 0
    BY <1>1, FS_EmptySet
  <2>2. PICK b \in BuilderType : b = builder'
    OBVIOUS
  <2>3. WithinLimit(b, 0)
    BY <2>2, FirstWithinLimit
  <2> QED BY <2>1, <2>2, <2>3 DEF LimitHonoured
<1>8. EventsAccounted'
  BY DEF LayerInv, EventsAccounted, Suppressions
<1>9. UnthrottledInv'
  <2>1. Waiting' \in [{} -> Int]
    BY <1>1 DEF Tracked, Waiting
  <2>2. Total(Waiting') = 0
    BY <2>1, TotalEmpty
  <2> QED BY <1>1, <2>2 DEF UnthrottledInv
<1> QED BY <1>4, <1>5, <1>6, <1>7, <1>8, <1>9 DEF LayerInv

LEMMA BuildStep == LayerInv /\ (Build \/ WithStorage) => LayerInv'
<1>1. ASSUME LayerInv, Build PROVE LayerInv'
  <2>1. builder \in BuilderType /\ UNCHANGED <<builder, limiter, claimed, history>> /\ built = "not_yet"
    BY <1>1 DEF LayerInv, TypeOK, Build
  <2>2. ASSUME BuildResult(builder) = "ok", Run(builder) PROVE LayerInv'
    <3>1. builder.max_signatures # 0
      BY <2>2 DEF BuildResult, Run
    <3>2. PICK b : b = builder
      OBVIOUS
    <3>3. Run(b) /\ b \in BuilderType /\ b.max_signatures # 0 /\ builder' = b
      BY <2>1, <2>2, <3>1, <3>2
    <3>4. Started(b)
      BY <3>3, RunFacts
    <3>5. b \in BuilderType /\ b.max_signatures # 0 /\ builder' = b
      BY <3>3
    <3>6. /\ builder' \in BuilderType /\ builder'.max_signatures # 0
          /\ built' = "ok" /\ layer' \in LayerType /\ layer'.eviction_policy = PolicyOf(builder')
          /\ handle' \in BOOLEAN /\ task' \in {"none", "waiting"}
      BY <3>4, <3>5 DEF Started
    <3> QED BY <1>1, <2>1, <3>6, RunStep
  <2>3. ASSUME BuildResult(builder) # "ok", built' = BuildResult(builder), UNCHANGED <<layer, handle, task>>
        PROVE  LayerInv'
    <3> USE <1>1, <2>1, <2>3 DEF limiter, history
    <3>1. layer = None
      BY DEF LayerInv, BuiltInv
    <3>2. built' \in {"not_yet", "ok", "ZeroMaxSignatures", "ZeroSummaryInterval"}
      BY DEF BuildResult
    <3>3. TypeOK'
      BY <3>2 DEF LayerInv, TypeOK
    <3>4. BuiltInv'
      BY <3>1 DEF LayerInv, BuiltInv
    <3>5. MetadataInv'
      BY DEF LayerInv, MetadataInv, Describes
    <3>6. LimitHonoured' /\ UnthrottledInv'
      BY <3>1 DEF LimitHonoured, UnthrottledInv
    <3>7. EventsAccounted'
      BY DEF LayerInv, EventsAccounted, Suppressions
    <3> QED BY <3>3, <3>4, <3>5, <3>6, <3>7 DEF LayerInv
  <2> QED BY <1>1, <2>2, <2>3 DEF Build
<1>2. ASSUME LayerInv, WithStorage PROVE LayerInv'
  <2>1. PICK p \in Policies :
           builder' = [DefaultBuilder EXCEPT !.policy = p, !.max_signatures = None]
    BY <1>2 DEF WithStorage
  <2>2. builder' \in BuilderType /\ builder'.max_signatures = None
    BY <2>1 DEF DefaultBuilder, BuilderType
  <2>3. PICK b : b = [DefaultBuilder EXCEPT !.policy = p, !.max_signatures = None]
    OBVIOUS
  <2>4. b \in BuilderType /\ b.max_signatures # 0 /\ builder' = b
    BY <2>1, <2>2, <2>3, LayerNoneAssumption
  <2>5. built = "not_yet" /\ UNCHANGED <<limiter, claimed, history>>
    BY <1>2 DEF WithStorage
  <2>6. Started(b)
    <3>1. Run(b)
      BY <1>2, <2>4 DEF WithStorage
    <3> QED BY <2>4, <3>1, RunFacts
  <2>7. /\ builder' \in BuilderType /\ builder'.max_signatures # 0
        /\ built' = "ok" /\ layer' \in LayerType /\ layer'.eviction_policy = PolicyOf(builder')
        /\ handle' \in BOOLEAN /\ task' \in {"none", "waiting"}
    BY <2>4, <2>6 DEF Started
  <2> QED BY <1>2, <2>5, <2>7, RunStep
<1> QED BY <1>1, <1>2

-----------------------------------------------------------------------------
(* The filter. *)

\* The counter's methods, as far as the sums go.
LEMMA CounterOps ==
    ASSUME NEW c \in Counter({0})
    PROVE  /\ NewCounter(0) \in Counter({0}) /\ NewCounter(0).suppressed_count = 0
           /\ UnreportedCount(NewCounter(0)) = 0
           /\ AfterSuppression(c, 0) \in Counter({0})
           /\ AfterSuppression(c, 0).suppressed_count = c.suppressed_count + 1
           /\ UnreportedCount(AfterSuppression(c, 0)) <= UnreportedCount(c) + 1
           /\ AfterClaim(c) \in Counter({0})
           /\ AfterClaim(c).suppressed_count = c.suppressed_count
           /\ UnreportedCount(AfterClaim(c)) = 0
           /\ c.suppressed_count \in Nat /\ UnreportedCount(c) \in Nat
           /\ CanClaim(c, 1) <=> UnreportedCount(c) >= 1
<1>1. NewCounter(0) \in Counter({0}) /\ NewCounter(0).suppressed_count = 0
  BY DEF NewCounter, Counter
<1>2. UnreportedCount(NewCounter(0)) = 0
  BY DEF NewCounter, UnreportedCount, SaturatingSub
<1>3. /\ AfterSuppression(c, 0) \in Counter({0})
      /\ AfterSuppression(c, 0).suppressed_count = c.suppressed_count + 1
      /\ AfterSuppression(c, 0).reported_count = c.reported_count
  <2> DEFINE total == c.suppressed_count + 1
             first == IF c.suppressed_count = 0 THEN 0 ELSE c.first_suppressed
             unreported == IF c.suppressed_count = c.reported_count THEN 0 ELSE c.first_unreported
             after == [c EXCEPT !.suppressed_count = total, !.first_suppressed = first,
                                !.first_unreported = unreported, !.last_suppressed = 0]
  <2>1. total \in Nat /\ first \in {0} /\ unreported \in {0} /\ total = c.suppressed_count + 1
    BY DEF Counter
  <2>2. AfterSuppression(c, 0) = after
    BY DEF AfterSuppression
  <2> HIDE DEF total, first, unreported
  <2>3. /\ after \in Counter({0}) /\ after.suppressed_count = total
        /\ after.reported_count = c.reported_count
    BY <2>1 DEF Counter
  <2> HIDE DEF after
  <2> QED BY <2>1, <2>2, <2>3
<1>4. /\ AfterClaim(c) \in Counter({0})
      /\ AfterClaim(c).suppressed_count = c.suppressed_count
      /\ AfterClaim(c).reported_count = c.suppressed_count
  BY DEF AfterClaim, Counter
<1>5. c.suppressed_count \in Nat /\ c.reported_count \in Nat
  BY DEF Counter
<1>6. UnreportedCount(AfterSuppression(c, 0)) <= UnreportedCount(c) + 1
  BY <1>3, <1>5 DEF UnreportedCount, SaturatingSub
<1>7. UnreportedCount(AfterClaim(c)) = 0 /\ UnreportedCount(c) \in Nat
  BY <1>4, <1>5 DEF UnreportedCount, SaturatingSub
<1>8. CanClaim(c, 1) <=> UnreportedCount(c) >= 1
  BY DEF CanClaim
<1> QED BY <1>1, <1>2, <1>3, <1>4, <1>5, <1>6, <1>7, <1>8

\* A storage that is not empty has an entry of least rank to evict.
LEMMA VictimExists ==
    ASSUME TypeOK, MetadataInv, DOMAIN storage # {}
    PROVE  Victims # {}
<1>1. ASSUME NEW s \in DOMAIN storage PROVE RankOf(s) \in Nat
  <2>1. recency[s] \in Nat
    BY DEF TypeOK
  <2>2. storage[s].metadata.target \in {e.target : e \in Events} \cup {CustomTarget, TerseTarget}
    BY DEF MetadataInv, Describes
  <2>3. Priority[storage[s].metadata.target] \in Nat
    BY <2>2, EventsAssumption
  <2> QED BY <2>1, <2>3 DEF RankOf, Rank
<1> DEFINE ranks == {RankOf(s) : s \in DOMAIN storage}
<1>2. ranks \subseteq Nat /\ ranks # {}
  BY <1>1
<1>3. PICK r \in ranks : \A q \in ranks : r <= q
  <2> HIDE DEF ranks
  <2> QED BY <1>2, Least
<1>4. PICK s \in DOMAIN storage : r = RankOf(s)
  BY <1>3
<1>5. {k \in DOMAIN storage : RankOf(s) <= RankOf(k)} = DOMAIN storage
  BY <1>3, <1>4
<1>6. s \in Victims
  BY <1>5 DEF Victims
<1> QED BY <1>6

\* What checking an event with signature sig leaves: the entries of gone are
\* evicted, at most one and for a new signature only, and the entry of sig
\* counts a suppression unless its policy allowed the event.
Old(sig, gone) ==
    IF sig \in DOMAIN storage \ gone THEN storage[sig].counter ELSE NewCounter(0)

Checked(sig, gone, allow) ==
    /\ gone \subseteq DOMAIN storage /\ IsFiniteSet(gone) /\ sig \notin gone
    /\ gone = {} \/ (sig \notin DOMAIN storage /\ Cardinality(gone) = 1)
    /\ sig \notin DOMAIN storage /\ gone = {} => DOMAIN storage = {} \/ ~MustEvict(sig)
    /\ sig \notin DOMAIN storage => (allow <=> RegisterEvent(layer.policy, 0).allow)
    /\ DOMAIN storage' = (DOMAIN storage \ gone) \cup {sig}
    /\ \A s \in DOMAIN storage \ (gone \cup {sig}) : storage'[s] = storage[s]
    /\ storage'[sig].counter = IF allow THEN Old(sig, gone) ELSE AfterSuppression(Old(sig, gone), 0)
    /\ Describes(storage'[sig].metadata, sig)
    /\ recency' \in [DOMAIN storage' -> Nat]
    /\ metrics' = [metrics EXCEPT !.allowed    = IF allow THEN @ + 1 ELSE @,
                                  !.suppressed = IF allow THEN @ ELSE @ + 1,
                                  !.evicted    = @ + Cardinality(gone)]
    /\ lost' = lost + Total([s \in gone |-> storage[s].counter.suppressed_count])

LEMMA CheckEventFacts ==
    ASSUME TypeOK, MetadataInv, NEW e,
           e.target \in {ev.target : ev \in Events} \cup {CustomTarget, TerseTarget}, CheckEvent(e)
    PROVE  \E gone, allow : allow \in BOOLEAN /\ Checked(ComputeSignature(e), gone, allow)
<1> DEFINE sig == ComputeSignature(e)
           choices == IF MustEvict(sig) /\ Victims # {} THEN {{v} : v \in Victims} ELSE {{}}
           rest(gone) == DOMAIN storage \ gone
           state(gone) == IF sig \in rest(gone) THEN storage[sig] ELSE NewState(e)
           decision(gone) == RegisterEvent(state(gone).policy, 0)
           counter(gone) == IF decision(gone).allow THEN state(gone).counter
                            ELSE AfterSuppression(state(gone).counter, 0)
<1>1. PICK gone \in choices :
        /\ storage' = [s \in rest(gone) \cup {sig} |->
                         IF s = sig
                             THEN EventState(decision(gone).policy, counter(gone), state(gone).metadata)
                             ELSE storage[s]]
        /\ recency' = Accessed(sig, rest(gone))
        /\ metrics' = [metrics EXCEPT
                          !.allowed    = IF decision(gone).allow THEN @ + 1 ELSE @,
                          !.suppressed = IF decision(gone).allow THEN @ ELSE @ + 1,
                          !.evicted    = @ + Cardinality(gone)]
        /\ lost' = lost + Total([s \in gone |-> storage[s].counter.suppressed_count])
  BY Zenon DEF CheckEvent
<1>2. /\ gone \subseteq DOMAIN storage /\ IsFiniteSet(gone) /\ sig \notin gone
      /\ gone = {} \/ (sig \notin DOMAIN storage /\ Cardinality(gone) = 1)
      /\ sig \notin DOMAIN storage /\ gone = {} => DOMAIN storage = {} \/ ~MustEvict(sig)
  <2>1. CASE gone = {}
    <3>1. MustEvict(sig) => Victims = {}
      BY <1>1, <2>1
    <3>2. IsFiniteSet({})
      BY FS_EmptySet
    <3> QED BY <2>1, <3>1, <3>2, VictimExists
  <2>2. CASE gone # {}
    <3>1. MustEvict(sig) /\ \E v \in Victims : gone = {v}
      BY <1>1, <2>2
    <3>2. PICK v \in Victims : gone = {v}
      BY <3>1
    <3>3. sig \notin DOMAIN storage
      BY <3>1 DEF MustEvict
    <3>4. v \in DOMAIN storage
      BY DEF Victims
    <3>5. IsFiniteSet({v}) /\ Cardinality({v}) = 1
      BY FS_Singleton
    <3> QED BY <2>2, <3>2, <3>3, <3>4, <3>5
  <2> QED BY <2>1, <2>2
<1>3. PICK allow \in BOOLEAN : allow <=> decision(gone).allow
  <2>1. CASE decision(gone).allow
    BY <2>1
  <2>2. CASE ~decision(gone).allow
    BY <2>2
  <2> QED BY <2>1, <2>2
<1>4. sig \notin DOMAIN storage => (allow <=> RegisterEvent(layer.policy, 0).allow)
  BY <1>3 DEF NewState, EventState
<1>5. /\ DOMAIN storage' = (DOMAIN storage \ gone) \cup {sig}
      /\ \A s \in DOMAIN storage \ (gone \cup {sig}) : storage'[s] = storage[s]
      /\ storage'[sig] = EventState(decision(gone).policy, counter(gone), state(gone).metadata)
  <2> HIDE DEF sig, decision, counter, state
  <2> QED BY <1>1
<1>6. storage'[sig].counter = IF allow THEN Old(sig, gone) ELSE AfterSuppression(Old(sig, gone), 0)
  <2>1. state(gone).counter = Old(sig, gone)
    <3> HIDE DEF sig
    <3> QED BY DEF Old, NewState, EventState
  <2>2. storage'[sig].counter = counter(gone)
    <3> HIDE DEF sig, decision, counter, state
    <3> QED BY <1>5 DEF EventState
  <2> HIDE DEF sig, decision, state
  <2> QED BY <1>3, <2>1, <2>2
<1>7. Describes(storage'[sig].metadata, sig)
  <2>1. storage'[sig].metadata = state(gone).metadata
    <3> HIDE DEF sig, decision, counter, state
    <3> QED BY <1>5 DEF EventState
  <2>2. CASE sig \in rest(gone)
    <3> HIDE DEF sig
    <3> QED BY <2>1, <2>2 DEF MetadataInv
  <2>3. CASE sig \notin rest(gone)
    <3>1. storage'[sig].metadata = EventMetadata(e)
      <4> HIDE DEF sig
      <4> QED BY <2>1, <2>3 DEF NewState, EventState
    <3>2. Describes(EventMetadata(e), sig)
      BY DEF Describes, EventMetadata, ComputeSignature
    <3> QED BY <3>1, <3>2
  <2> QED BY <2>2, <2>3
<1>8. recency' \in [DOMAIN storage' -> Nat]
  <2> DEFINE places == rest(gone) \cup {sig}
  <2>1. IsFiniteSet(places)
    BY FS_Subset, FS_AddElement DEF TypeOK
  <2>2. Cardinality(places) \in Nat
    BY <2>1, FS_CardinalityType
  <2>3. \A k : Cardinality({j \in rest(gone) \ {sig} : recency[j] <= recency[k]}) \in Nat
    <3>1. \A k : IsFiniteSet({j \in rest(gone) \ {sig} : recency[j] <= recency[k]})
      <4> TAKE k
      <4>1. {j \in rest(gone) \ {sig} : recency[j] <= recency[k]} \subseteq places
        OBVIOUS
      <4> QED BY <2>1, <4>1, FS_Subset
    <3> QED BY <3>1, FS_CardinalityType
  <2>4. Accessed(sig, rest(gone)) \in [places -> Nat]
    <3> HIDE DEF sig, rest
    <3> QED BY <2>2, <2>3 DEF Accessed
  <2> QED BY <1>1, <1>5, <2>4
<1>9. metrics' = [metrics EXCEPT !.allowed    = IF allow THEN @ + 1 ELSE @,
                                !.suppressed = IF allow THEN @ ELSE @ + 1,
                                !.evicted    = @ + Cardinality(gone)]
  <2> HIDE DEF decision
  <2> QED BY <1>1, <1>3
<1> HIDE DEF sig, decision, counter, state, rest, choices
<1>10. Checked(sig, gone, allow)
  BY <1>1, <1>2, <1>4, <1>5, <1>6, <1>7, <1>8, <1>9 DEF Checked
<1> QED BY <1>3, <1>10 DEF sig

\* One more signature is tracked only when the policy has room for it.
LEMMA LimitKept ==
    ASSUME TypeOK, BuiltInv, LimitHonoured, layer # None,
           NEW sig, NEW gone, NEW allow, Checked(sig, gone, allow)
    PROVE  WithinLimit(builder, Cardinality(DOMAIN storage'))
<1>n. PICK n : n = Cardinality(DOMAIN storage)
  OBVIOUS
<1>m. PICK m : m = Cardinality(DOMAIN storage')
  OBVIOUS
<1> SUFFICES WithinLimit(builder, m)
  BY <1>m
<1>1. IsFiniteSet(DOMAIN storage) /\ n \in Nat
  BY <1>n, FS_CardinalityType DEF TypeOK
<1>2. WithinLimit(builder, n) /\ builder \in BuilderType /\ builder.max_signatures # 0
  BY <1>n DEF LimitHonoured, TypeOK, BuiltInv
<1>3. CASE sig \in DOMAIN storage
  <2>1. DOMAIN storage' = DOMAIN storage
    BY <1>3 DEF Checked
  <2> QED BY <1>n, <1>m, <1>2, <2>1
<1>4. CASE sig \notin DOMAIN storage /\ gone # {}
  <2>1. Cardinality(gone) = 1 /\ gone \subseteq DOMAIN storage /\ DOMAIN storage' = (DOMAIN storage \ gone) \cup {sig}
    BY <1>4 DEF Checked
  <2>2. PICK v : gone = {v}
    <3>1. IsFiniteSet(gone)
      BY DEF Checked
    <3> QED BY <2>1, <3>1, FS_Singleton
  <2>3. IsFiniteSet(DOMAIN storage \ {v}) /\ Cardinality(DOMAIN storage \ {v}) = n - 1
    BY <1>1, <1>n, <2>1, <2>2, FS_RemoveElement
  <2>4. m = (n - 1) + 1
    BY <1>4, <1>m, <2>1, <2>2, <2>3, FS_AddElement
  <2>5. m = n
    BY <1>1, <2>4
  <2> QED BY <1>2, <2>5
<1>5. CASE sig \notin DOMAIN storage /\ gone = {}
  <2>1. DOMAIN storage' = DOMAIN storage \cup {sig} /\ (DOMAIN storage = {} \/ ~MustEvict(sig))
    BY <1>5 DEF Checked
  <2>2. m = n + 1
    BY <1>1, <1>5, <1>n, <1>m, <2>1, FS_AddElement
  <2>3. CASE DOMAIN storage = {}
    <3>1. m \in {0, 1}
      BY <2>2, <2>3, <1>n, FS_EmptySet
    <3> QED BY <1>2, <3>1, FirstWithinLimit
  <2>4. CASE ~MustEvict(sig)
    <3>1. /\ ~TooManyEntries(PolicyOf(builder), n)
          /\ ~TooMuchMemory(PolicyOf(builder), EntrySize * n)
      BY <1>5, <1>n, <2>4 DEF MustEvict, BuiltInv
    <3>2. builder.max_signatures \in Nat \cup {None} /\ builder.eviction_strategy \in EvictionPolicy \cup {None}
      BY <1>2, DefaultsAssumption, ArgumentsAssumption DEF BuilderType
    <3>3. CASE builder.eviction_strategy = None /\ builder.max_signatures # None
      <4>1. ~(n >= builder.max_signatures)
        BY <3>1, <3>3 DEF PolicyOf, TooManyEntries, LimitsEntries, LruEviction
      <4> QED BY <1>1, <2>2, <3>2, <3>3, <4>1 DEF WithinLimit
    <3>4. CASE builder.eviction_strategy = None /\ builder.max_signatures = None
      BY <3>4 DEF WithinLimit
    <3>5. CASE builder.eviction_strategy # None
      <4> DEFINE p == builder.eviction_strategy
      <4>1. PolicyOf(builder) = p /\ p.max_entries \in Nat /\ p.max_bytes \in Nat
        BY <3>2, <3>5 DEF PolicyOf, EvictionPolicy
      <4>2. LimitsEntries(p) => ~(n >= p.max_entries)
        BY <3>1, <4>1 DEF TooManyEntries
      <4>3. TracksMemory(p) => ~(EntrySize * n >= p.max_bytes)
        BY <3>1, <4>1 DEF TooMuchMemory
      <4>4. EntrySize * n \in Nat /\ m - 1 = n
        BY <1>1, <2>2, LayerSizeAssumption
      <4>5. TracksMemory(p) => EntrySize * (m - 1) < p.max_bytes
        BY <4>1, <4>3, <4>4
      <4>6. LimitsEntries(p) => m <= p.max_entries
        BY <1>1, <2>2, <4>1, <4>2
      <4> QED BY <3>5, <4>5, <4>6 DEF WithinLimit
    <3> QED BY <3>3, <3>4, <3>5
  <2> QED BY <2>1, <2>3, <2>4
<1> QED BY <1>3, <1>4, <1>5

\* The suppressions of the entries, the event's and those lost with an
\* evicted entry make up the total.
LEMMA SuppressionsKept ==
    ASSUME TypeOK, NEW sig, NEW gone, NEW allow \in BOOLEAN, Checked(sig, gone, allow)
    PROVE  /\ Total(Suppressions) \in Int /\ lost' \in Nat
           /\ lost' + Total(Suppressions')
              = lost + Total(Suppressions) + (IF allow THEN 0 ELSE 1)
<1> DEFINE U == DOMAIN storage \cup {sig}
           V == DOMAIN storage \ gone
           d == IF allow THEN 0 ELSE 1
           before(s) == IF s \in DOMAIN storage THEN storage[s].counter.suppressed_count ELSE 0
           b == [s \in U |-> before(s)]
           g == [s \in U |-> IF s \in gone THEN before(s) ELSE 0]
           k == [s \in U |-> IF s \in gone THEN 0 ELSE before(s)]
           a == [s \in U |-> IF s \in gone THEN 0 ELSE IF s = sig THEN before(s) + d ELSE before(s)]
           pt == Point(U, sig, d)
<1>1. IsFiniteSet(U) /\ sig \in U /\ gone \subseteq U /\ DOMAIN storage \subseteq U
  BY FS_AddElement DEF TypeOK, Checked
<1>2. \A s \in U : before(s) \in Nat
  BY DEF TypeOK, Counter
<1>3. b \in [U -> Int] /\ g \in [U -> Int] /\ k \in [U -> Int] /\ a \in [U -> Int]
  <2> HIDE DEF before, U
  <2> QED BY <1>2
<1>4. Total(b) = Total(Suppressions)
  <2>1. [s \in DOMAIN storage |-> b[s]] = Suppressions
    BY <1>1 DEF Suppressions
  <2>2. \A s \in U \ DOMAIN storage : b[s] = 0
    OBVIOUS
  <2> HIDE DEF b, U
  <2> QED BY <1>1, <1>3, <2>1, <2>2, TotalSupport
<1>5. Total(g) = Total([s \in gone |-> storage[s].counter.suppressed_count])
  <2>1. [s \in gone |-> g[s]] = [s \in gone |-> storage[s].counter.suppressed_count]
    BY <1>1 DEF Checked
  <2>2. \A s \in U \ gone : g[s] = 0
    OBVIOUS
  <2> HIDE DEF g, U
  <2> QED BY <1>1, <1>3, <2>1, <2>2, TotalSupport
<1>6. Total(a) = Total(Suppressions')
  <2>1. DOMAIN storage' = V \cup {sig} /\ sig \notin gone
    BY DEF Checked
  <2>2. ASSUME NEW s \in V \cup {sig} PROVE a[s] = storage'[s].counter.suppressed_count
    <3>1. CASE s # sig
      BY <3>1, <2>2 DEF Checked
    <3>2. CASE s = sig
      <4>1. a[sig] = before(sig) + d
        BY <2>1
      <4>2. Old(sig, gone) \in Counter({0}) /\ Old(sig, gone).suppressed_count = before(sig)
        <5>1. CASE sig \in DOMAIN storage
          BY <5>1, <2>1 DEF Old, TypeOK
        <5>2. CASE sig \notin DOMAIN storage
          <6>1. NewCounter(0) \in Counter({0}) /\ NewCounter(0).suppressed_count = 0
            BY DEF NewCounter, Counter
          <6> QED BY <5>2, <6>1 DEF Old
        <5> QED BY <5>1, <5>2
      <4>3. storage'[sig].counter = IF allow THEN Old(sig, gone) ELSE AfterSuppression(Old(sig, gone), 0)
        BY DEF Checked
      <4>4. before(sig) \in Nat
        BY <1>1, <1>2
      <4>5. AfterSuppression(Old(sig, gone), 0).suppressed_count = before(sig) + 1
        BY <4>2, CounterOps
      <4> HIDE DEF a, before
      <4> QED BY <3>2, <4>1, <4>2, <4>3, <4>4, <4>5
    <3> QED BY <3>1, <3>2
  <2>3. Suppressions' = [s \in V \cup {sig} |-> a[s]]
    <3> HIDE DEF a
    <3> QED BY <2>1, <2>2 DEF Suppressions
  <2>4. \A s \in U \ (V \cup {sig}) : a[s] = 0
    OBVIOUS
  <2>5. V \cup {sig} \subseteq U
    OBVIOUS
  <2> HIDE DEF a, U, V
  <2> QED BY <1>1, <1>3, <2>3, <2>4, <2>5, TotalSupport
<1>7. pt \in [U -> Int] /\ Total(pt) = d /\ d \in Int
  <2>1. d \in Int
    OBVIOUS
  <2> HIDE DEF U, d
  <2> QED BY <1>1, <2>1, TotalPoint
<1>8. /\ Total(a) \in Int /\ Total(b) \in Int /\ Total(g) \in Int /\ Total(k) \in Int
  <2> HIDE DEF a, b, g, k, U
  <2> QED BY <1>1, <1>3, TotalType
<1>9. Total(b) = Total(g) + Total(k)
  <2>1. \A s \in U : b[s] = g[s] + k[s]
    <3> HIDE DEF before
    <3> QED BY <1>2
  <2> HIDE DEF b, g, k, U
  <2>2. Summed(U, b, g, k)
    BY <1>3, <2>1 DEF Summed
  <2> QED BY <1>1, <2>2, TotalSum
<1>10. Total(a) = Total(k) + Total(pt)
  <2>1. \A s \in U : a[s] = k[s] + pt[s]
    <3>1. sig \notin gone
      BY DEF Checked
    <3> HIDE DEF before, d
    <3> QED BY <1>2, <3>1 DEF Point
  <2> HIDE DEF a, k, U, pt
  <2>2. Summed(U, a, k, pt)
    BY <1>3, <1>7, <2>1 DEF Summed
  <2> QED BY <1>1, <2>2, TotalSum
<1>11. Total(g) >= 0
  <2>1. g \in [U -> Nat]
    <3> HIDE DEF before, U
    <3> QED BY <1>2
  <2> HIDE DEF g, U
  <2> QED BY <1>1, <2>1, TotalNonneg
<1>12. lost \in Nat /\ lost' = lost + Total(g)
  BY <1>5 DEF TypeOK, Checked
<1> HIDE DEF a, b, g, k, pt, U, before, d
<1>13. Total(Suppressions) \in Int /\ lost' \in Nat /\ lost' + Total(Suppressions') = lost + Total(Suppressions) + d
  BY <1>4, <1>6, <1>7, <1>8, <1>9, <1>10, <1>11, <1>12
<1> QED BY <1>13 DEF d

\* What handling an event with signature x leaves: d is 1 when x may owe a
\* summary of one more suppression.
EventKeeps(x, d) ==
    /\ IsFiniteSet(DOMAIN storage') /\ DOMAIN storage' \subseteq DOMAIN storage \cup {x}
    /\ \A s \in DOMAIN storage' : /\ storage'[s].counter \in Counter({0})
                                  /\ Describes(storage'[s].metadata, s)
    /\ recency' \in [DOMAIN storage' -> Nat]
    /\ metrics' \in [allowed : Nat, suppressed : Nat, evicted : Nat]
    /\ bypassed' \in Nat /\ lost' \in Nat
    /\ WithinLimit(builder, Cardinality(DOMAIN storage'))
    /\ metrics'.suppressed = lost' + Total(Suppressions')
    /\ metrics'.allowed + metrics'.suppressed + bypassed'
       = metrics.allowed + metrics.suppressed + bypassed + 1
    /\ \A y : Owed(y)' <= Owed(y) + (IF y = x THEN d ELSE 0)

LEMMA OwedType ==
    ASSUME TypeOK, NEW y PROVE Owed(y) \in Nat
  BY CounterOps DEF TypeOK, Owed

LEMMA CheckedKeeps ==
    ASSUME LayerInv, layer # None, NEW x, NEW gone, NEW allow \in BOOLEAN, Checked(x, gone, allow),
           UNCHANGED bypassed
    PROVE  EventKeeps(x, IF allow THEN 0 ELSE 1)
<1> DEFINE d == IF allow THEN 0 ELSE 1
<1>1. TypeOK /\ BuiltInv /\ MetadataInv /\ LimitHonoured /\ EventsAccounted
  BY DEF LayerInv
<1>2. /\ gone \subseteq DOMAIN storage /\ IsFiniteSet(gone) /\ x \notin gone
      /\ gone = {} \/ (x \notin DOMAIN storage /\ Cardinality(gone) = 1)
      /\ DOMAIN storage' = (DOMAIN storage \ gone) \cup {x}
      /\ \A s \in DOMAIN storage \ (gone \cup {x}) : storage'[s] = storage[s]
      /\ storage'[x].counter = IF allow THEN Old(x, gone) ELSE AfterSuppression(Old(x, gone), 0)
      /\ Describes(storage'[x].metadata, x)
      /\ recency' \in [DOMAIN storage' -> Nat]
  BY DEF Checked
<1>3. metrics' = [metrics EXCEPT !.allowed    = IF allow THEN @ + 1 ELSE @,
                                 !.suppressed = IF allow THEN @ ELSE @ + 1,
                                 !.evicted    = @ + Cardinality(gone)]
  BY DEF Checked
<1>4. IsFiniteSet(DOMAIN storage') /\ DOMAIN storage' \subseteq DOMAIN storage \cup {x}
  <2>1. IsFiniteSet(DOMAIN storage \cup {x})
    BY <1>1, FS_AddElement DEF TypeOK
  <2> QED BY <1>2, <2>1, FS_Subset
<1>5. /\ Old(x, gone) \in Counter({0})
      /\ UnreportedCount(Old(x, gone)) = Owed(x)
  <2>1. CASE x \in DOMAIN storage
    BY <1>1, <1>2, <2>1 DEF Old, TypeOK, Owed
  <2>2. CASE x \notin DOMAIN storage
    <3>1. NewCounter(0) \in Counter({0})
      BY DEF NewCounter, Counter
    <3>2. UnreportedCount(NewCounter(0)) = 0
      BY <3>1, CounterOps
    <3> QED BY <2>2, <3>1, <3>2 DEF Old, Owed
  <2> QED BY <2>1, <2>2
<1>6. /\ storage'[x].counter \in Counter({0})
      /\ UnreportedCount(storage'[x].counter) <= Owed(x) + d
  <2>1. /\ AfterSuppression(Old(x, gone), 0) \in Counter({0})
        /\ UnreportedCount(AfterSuppression(Old(x, gone), 0)) <= UnreportedCount(Old(x, gone)) + 1
    BY <1>5, CounterOps
  <2>2. Owed(x) \in Nat
    BY <1>1, OwedType
  <2> QED BY <1>2, <1>5, <2>1, <2>2
<1>7. \A s \in DOMAIN storage' : /\ storage'[s].counter \in Counter({0})
                                 /\ Describes(storage'[s].metadata, s)
  BY <1>1, <1>2, <1>6 DEF TypeOK, MetadataInv
<1>8. Cardinality(gone) \in Nat
  BY <1>2, FS_CardinalityType
<1>9. /\ metrics' \in [allowed : Nat, suppressed : Nat, evicted : Nat]
      /\ metrics'.suppressed = metrics.suppressed + d
      /\ metrics'.allowed + metrics'.suppressed = metrics.allowed + metrics.suppressed + 1
  <2>1. /\ metrics \in [allowed : Nat, suppressed : Nat, evicted : Nat]
        /\ metrics.allowed \in Nat /\ metrics.suppressed \in Nat /\ metrics.evicted \in Nat
    BY <1>1 DEF TypeOK
  <2>2. CASE allow
    <3>1. metrics' = [metrics EXCEPT !.allowed = @ + 1, !.suppressed = @, !.evicted = @ + Cardinality(gone)]
      BY <1>3, <2>2
    <3>2. metrics' = [allowed    |-> metrics.allowed + 1,
                      suppressed |-> metrics.suppressed,
                      evicted    |-> metrics.evicted + Cardinality(gone)]
      BY <2>1, <3>1
    <3>3. /\ metrics' \in [allowed : Nat, suppressed : Nat, evicted : Nat]
          /\ metrics'.suppressed = metrics.suppressed + 0
          /\ metrics'.allowed + metrics'.suppressed = metrics.allowed + metrics.suppressed + 1
      BY <1>8, <2>1, <3>2
    <3> QED BY <2>2, <3>3
  <2>3. CASE ~allow
    <3>1. metrics' = [metrics EXCEPT !.allowed = @, !.suppressed = @ + 1, !.evicted = @ + Cardinality(gone)]
      BY <1>3, <2>3
    <3>2. metrics' = [allowed    |-> metrics.allowed,
                      suppressed |-> metrics.suppressed + 1,
                      evicted    |-> metrics.evicted + Cardinality(gone)]
      BY <2>1, <3>1
    <3>3. /\ metrics' \in [allowed : Nat, suppressed : Nat, evicted : Nat]
          /\ metrics'.suppressed = metrics.suppressed + 1
          /\ metrics'.allowed + metrics'.suppressed = metrics.allowed + metrics.suppressed + 1
      BY <1>8, <2>1, <3>2
    <3> QED BY <2>3, <3>3
  <2> QED BY <2>2, <2>3
<1>10. WithinLimit(builder, Cardinality(DOMAIN storage'))
  BY <1>1, LimitKept
<1>11. lost' \in Nat /\ metrics'.suppressed = lost' + Total(Suppressions')
  <2>1. /\ Total(Suppressions) \in Int /\ lost' \in Nat
        /\ lost' + Total(Suppressions') = lost + Total(Suppressions) + d
    BY <1>1, SuppressionsKept
  <2>2. metrics.suppressed = lost + Total(Suppressions)
    BY <1>1 DEF EventsAccounted
  <2> QED BY <1>9, <2>1, <2>2
<1>12. /\ bypassed' \in Nat
       /\ metrics'.allowed + metrics'.suppressed + bypassed'
          = metrics.allowed + metrics.suppressed + bypassed + 1
  <2>1. bypassed \in Nat /\ metrics.allowed \in Nat /\ metrics.suppressed \in Nat
    BY <1>1 DEF TypeOK
  <2>2. metrics'.allowed \in Nat /\ metrics'.suppressed \in Nat
    BY <1>9
  <2> QED BY <1>9, <2>1, <2>2
<1>13. ASSUME NEW y PROVE Owed(y)' <= Owed(y) + (IF y = x THEN d ELSE 0)
  <2>1. Owed(y) \in Nat /\ Owed(x) \in Nat
    BY <1>1, OwedType
  <2>2. CASE y = x
    BY <1>2, <1>6, <2>1, <2>2 DEF Owed
  <2>3. CASE y # x /\ y \in DOMAIN storage'
    BY <1>2, <2>1, <2>3 DEF Owed
  <2>4. CASE y # x /\ y \notin DOMAIN storage'
    BY <2>1, <2>4 DEF Owed
  <2> QED BY <2>2, <2>3, <2>4
<1> HIDE DEF d
<1>14. EventKeeps(x, d)
  BY <1>2, <1>4, <1>7, <1>9, <1>10, <1>11, <1>12, <1>13 DEF EventKeeps
<1> QED BY <1>14 DEF d

\* The targets of the events that the layer may track.
Targets == {e.target : e \in Events} \cup {CustomTarget, TerseTarget}

\* An event is let pass, or checked.  The first event of a signature leaves
\* nothing to report unless a new policy suppresses it.
LEMMA EventFacts ==
    ASSUME LayerInv, layer # None, NEW e, e.target \in Targets \cup {SummaryTarget}, EventEnabled(e)
    PROVE  \E d \in {0, 1} :
               /\ EventKeeps(ComputeSignature(e), d)
               /\ e.target \in layer.exempt_targets \cup {SummaryTarget} => d = 0
               /\ ComputeSignature(e) \notin DOMAIN storage /\ RegisterEvent(layer.policy, 0).allow => d = 0
<1> PICK x : x = ComputeSignature(e)
  OBVIOUS
<1>1. TypeOK /\ BuiltInv /\ MetadataInv /\ LimitHonoured /\ EventsAccounted
  BY DEF LayerInv
<1>2. CASE e.target \in layer.exempt_targets \cup {SummaryTarget}
  <2>1. /\ UNCHANGED <<storage, recency, lost>> /\ metrics'.suppressed = metrics.suppressed
        /\ metrics' \in [allowed : Nat, suppressed : Nat, evicted : Nat]
        /\ bypassed' \in Nat
        /\ metrics'.allowed + metrics'.suppressed + bypassed'
           = metrics.allowed + metrics.suppressed + bypassed + 1
    BY <1>1, <1>2 DEF EventEnabled, limiter, TypeOK
  <2>2. WithinLimit(builder, Cardinality(DOMAIN storage'))
    BY <1>1, <2>1 DEF LimitHonoured
  <2>3. Suppressions' = Suppressions /\ lost' \in Nat /\ metrics'.suppressed = lost' + Total(Suppressions')
    BY <1>1, <2>1 DEF EventsAccounted, Suppressions, TypeOK
  <2>4. \A y : Owed(y)' <= Owed(y) + (IF y = x THEN 0 ELSE 0)
    <3>1. \A y : Owed(y) \in Nat /\ Owed(y)' = Owed(y)
      BY <1>1, <2>1, OwedType DEF Owed
    <3> QED BY <3>1
  <2>5. /\ IsFiniteSet(DOMAIN storage') /\ DOMAIN storage' \subseteq DOMAIN storage \cup {x}
        /\ \A s \in DOMAIN storage' : /\ storage'[s].counter \in Counter({0})
                                      /\ Describes(storage'[s].metadata, s)
        /\ recency' \in [DOMAIN storage' -> Nat]
    BY <1>1, <2>1 DEF TypeOK, MetadataInv
  <2>6. EventKeeps(x, 0)
    BY <2>1, <2>2, <2>3, <2>4, <2>5 DEF EventKeeps
  <2> QED BY <2>6
<1>3. CASE e.target \notin layer.exempt_targets \cup {SummaryTarget}
  <2>1. CheckEvent(e) /\ UNCHANGED bypassed /\ e.target \in Targets
    BY <1>3 DEF EventEnabled
  <2>2. PICK gone, allow : allow \in BOOLEAN /\ Checked(ComputeSignature(e), gone, allow)
    BY <1>1, <2>1, CheckEventFacts DEF Targets
  <2>3. allow \in BOOLEAN /\ Checked(x, gone, allow)
    BY <2>2
  <2>4. EventKeeps(x, IF allow THEN 0 ELSE 1)
    BY <2>1, <2>3, CheckedKeeps
  <2>5. x \notin DOMAIN storage => (allow <=> RegisterEvent(layer.policy, 0).allow)
    BY <2>3 DEF Checked
  <2>6. CASE allow
    BY <1>3, <2>4, <2>6
  <2>7. CASE ~allow
    BY <1>3, <2>4, <2>5, <2>7
  <2> QED BY <2>6, <2>7
<1> QED BY <1>2, <1>3

-----------------------------------------------------------------------------
(* The summaries that wait, each with a weight. *)

LEMMA Products ==
    \A c \in Nat : \A u, v, d \in Int :
        /\ u * c \in Int /\ (u + d) * c = u * c + d * c
        /\ u <= v => u * c <= v * c
  OBVIOUS

\* The sum of f over S with the weights c.
Dot(S, f, c) == Total([y \in S |-> f[y] * c[y]])

\* When the terms of f grow by d at x at most, and fall by e at z at least,
\* so do the sums, weighted by c.
LEMMA WeightedBound ==
    ASSUME NEW S, IsFiniteSet(S), NEW f \in [S -> Int], NEW g \in [S -> Int], NEW c \in [S -> Nat],
           NEW x \in S, NEW z \in S, NEW d \in Int, NEW e \in Int,
           \A y \in S : g[y] <= f[y] + (IF y = x THEN d ELSE 0) - (IF y = z THEN e ELSE 0)
    PROVE  /\ Dot(S, g, c) \in Int /\ Dot(S, f, c) \in Int
           /\ Dot(S, g, c) <= Dot(S, f, c) + d * c[x] - e * c[z]
<1> DEFINE gc == [y \in S |-> g[y] * c[y]]
           fc == [y \in S |-> f[y] * c[y]]
           up == Point(S, x, d * c[x])
           down == Point(S, z, (0 - e) * c[z])
           change == [y \in S |-> up[y] + down[y]]
<1>1. c[x] \in Nat /\ c[z] \in Nat /\ d * c[x] \in Int /\ (0 - e) * c[z] \in Int /\ e * c[z] \in Int
      /\ (0 - e) * c[z] = 0 - e * c[z]
  BY Products
<1>2. up \in [S -> Int] /\ Total(up) = d * c[x] /\ down \in [S -> Int] /\ Total(down) = (0 - e) * c[z]
  <2>1. \A y \in S, n \in Int : Point(S, y, n) \in [S -> Int] /\ Total(Point(S, y, n)) = n
    BY TotalPoint
  <2>2. PICK m, n \in Int : m = d * c[x] /\ n = (0 - e) * c[z]
    BY <1>1
  <2>3. up = Point(S, x, m) /\ down = Point(S, z, n)
    BY <2>2
  <2> HIDE DEF up, down
  <2> QED BY <2>1, <2>2, <2>3
<1>3. gc \in [S -> Int] /\ fc \in [S -> Int] /\ change \in [S -> Int]
  <2>1. \A y \in S : g[y] * c[y] \in Int /\ f[y] * c[y] \in Int
    BY Products
  <2> HIDE DEF up, down
  <2> QED BY <1>2, <2>1
<1>4. Total(change) = Total(up) + Total(down)
  <2> HIDE DEF up, down
  <2>1. Summed(S, change, up, down)
    BY <1>2, <1>3 DEF Summed
  <2> QED BY <2>1, TotalSum
<1>5. ASSUME NEW y \in S PROVE gc[y] <= fc[y] + change[y]
  <2> DEFINE dy == IF y = x THEN d ELSE 0
             ey == IF y = z THEN 0 - e ELSE 0
  <2>1. g[y] \in Int /\ f[y] \in Int /\ c[y] \in Nat /\ dy \in Int /\ ey \in Int
    OBVIOUS
  <2>2. g[y] <= (f[y] + dy) + ey
    OBVIOUS
  <2>3. up[y] = dy * c[y] /\ down[y] = ey * c[y]
    <3>1. 0 * c[y] = 0
      BY <2>1
    <3> QED BY <1>1, <3>1 DEF Point
  <2> HIDE DEF dy, ey
  <2>4. f[y] + dy \in Int /\ (f[y] + dy) + ey \in Int
    BY <2>1
  <2>5. g[y] * c[y] <= ((f[y] + dy) + ey) * c[y]
    BY <2>1, <2>2, <2>4, Products
  <2>6. ((f[y] + dy) + ey) * c[y] = (f[y] + dy) * c[y] + ey * c[y]
    BY <2>1, <2>4, Products
  <2>7. (f[y] + dy) * c[y] = f[y] * c[y] + dy * c[y]
    BY <2>1, Products
  <2>8. g[y] * c[y] \in Int /\ f[y] * c[y] \in Int /\ dy * c[y] \in Int /\ ey * c[y] \in Int
    BY <2>1, Products
  <2>9. change[y] = dy * c[y] + ey * c[y]
    <3> HIDE DEF up, down
    <3> QED BY <2>3
  <2> HIDE DEF change
  <2> QED BY <2>5, <2>6, <2>7, <2>8, <2>9
<1>6. Bounded(S, gc, fc, change)
  <2> HIDE DEF gc, fc, change
  <2> QED BY <1>3, <1>5 DEF Bounded
<1> HIDE DEF gc, fc, change, up, down
<1>7. Total(gc) \in Int /\ Total(fc) \in Int
  BY <1>3, TotalType
<1>8. Total(gc) <= Total(fc) + Total(change)
  BY <1>6, TotalBounded
<1>9. Total(gc) <= Total(fc) + d * c[x] - e * c[z]
  BY <1>1, <1>2, <1>4, <1>7, <1>8
<1> QED BY <1>7, <1>9 DEF gc, fc, Dot

\* The summaries that wait for the signature s, and their weighted sum.
WaitingFor(s) == Owed(s) + (IF s \in DOMAIN claimed THEN 1 ELSE 0)

Weighted(c) == Dot(Tracked, Waiting, c)

WaitingFacts ==
    /\ IsFiniteSet(Tracked) /\ Waiting \in [Tracked -> Nat]
    /\ \A s : WaitingFor(s) \in Nat /\ (s \notin Tracked => WaitingFor(s) = 0)
    /\ Waiting = [s \in Tracked |-> WaitingFor(s)]
    /\ \A s \in DOMAIN claimed : s \in Tracked /\ Waiting[s] >= 1
    /\ Total(Waiting) \in Nat

LEMMA WaitingType == TypeOK => WaitingFacts
<1> SUFFICES ASSUME TypeOK PROVE WaitingFacts
  OBVIOUS
<1>1. IsFiniteSet(Tracked)
  BY FS_Union DEF TypeOK, Tracked
<1>2. \A s : Owed(s) \in Nat /\ (s \notin Tracked => Owed(s) = 0)
  BY OwedType DEF Owed, Tracked
<1>3. \A s : WaitingFor(s) \in Nat /\ (s \notin Tracked => WaitingFor(s) = 0)
  BY <1>2 DEF WaitingFor, Tracked
<1>4. Waiting = [s \in Tracked |-> WaitingFor(s)]
  BY DEF Waiting, WaitingFor
<1>5. Waiting \in [Tracked -> Nat]
  BY <1>3, <1>4
<1>6. \A s \in DOMAIN claimed : s \in Tracked /\ Waiting[s] >= 1
  BY <1>2, <1>4 DEF Tracked, WaitingFor
<1>7. Total(Waiting) \in Nat
  BY <1>1, <1>5, TotalNonneg
<1> QED BY <1>1, <1>3, <1>4, <1>5, <1>6, <1>7 DEF WaitingFacts

\* The sum may be taken over any set of signatures.
LEMMA WeightedOver ==
    ASSUME NEW T, NEW w, NEW U, IsFiniteSet(U), T \subseteq U, NEW c \in [U -> Nat],
           NEW f \in [U -> Int], \A s \in U \ T : f[s] = 0, w = [s \in T |-> f[s]]
    PROVE  Dot(T, w, c) = Dot(U, f, c)
<1> DEFINE fc == [s \in U |-> f[s] * c[s]]
<1>1. fc \in [U -> Int]
  BY Products
<1>2. \A s \in U \ T : fc[s] = 0
  OBVIOUS
<1>3. [s \in T |-> w[s] * c[s]] = [s \in T |-> fc[s]]
  OBVIOUS
<1> HIDE DEF fc
<1>4. Total([s \in T |-> fc[s]]) = Total(fc)
  BY <1>1, <1>2, TotalSupport
<1> QED BY <1>3, <1>4 DEF fc, Dot

\* A step adds d summaries at x at most, and takes e at z at least.
Shifts(x, d, z, e) ==
    \A y : WaitingFor(y)' <= WaitingFor(y) + (IF y = x THEN d ELSE 0) - (IF y = z THEN e ELSE 0)

LEMMA ShiftWeighted ==
    ASSUME TypeOK, TypeOK', NEW x, NEW z, NEW d \in Int, NEW e \in Int, Shifts(x, d, z, e),
           NEW U, NEW c \in [U -> Nat], Tracked \cup Tracked' \cup {x, z} \subseteq U
    PROVE  /\ Weighted(c) \in Int /\ Weighted(c)' \in Int
           /\ Weighted(c)' <= Weighted(c) + d * c[x] - e * c[z]
<1> PICK T, T2, w, w2 : T = Tracked /\ T2 = Tracked' /\ w = Waiting /\ w2 = Waiting'
  OBVIOUS
<1>1. WaitingFacts
  BY WaitingType
<1>2. WaitingFacts'
  BY WaitingType, PTL
<1> DEFINE V == T \cup T2 \cup {x, z}
           f == [y \in V |-> WaitingFor(y)]
           g == [y \in V |-> WaitingFor(y)']
           k == [y \in V |-> c[y]]
<1>3. IsFiniteSet(V) /\ V \subseteq U /\ x \in V /\ z \in V /\ T \subseteq V /\ T2 \subseteq V
  <2>1. IsFiniteSet(T \cup T2)
    BY <1>1, <1>2, FS_Union DEF WaitingFacts
  <2>2. IsFiniteSet((T \cup T2) \cup {x})
    BY <2>1, FS_AddElement
  <2>3. IsFiniteSet(((T \cup T2) \cup {x}) \cup {z})
    BY <2>2, FS_AddElement
  <2>4. V = ((T \cup T2) \cup {x}) \cup {z}
    OBVIOUS
  <2> QED BY <2>3, <2>4
<1>4. f \in [V -> Int] /\ w = [s \in T |-> f[s]] /\ \A s \in V \ T : f[s] = 0
  <2> HIDE DEF V
  <2> QED BY <1>1, <1>3 DEF WaitingFacts
<1>5. g \in [V -> Int] /\ w2 = [s \in T2 |-> g[s]] /\ \A s \in V \ T2 : g[s] = 0
  <2> HIDE DEF V
  <2> QED BY <1>2, <1>3 DEF WaitingFacts
<1>6. k \in [V -> Nat] /\ k[x] = c[x] /\ k[z] = c[z]
  <2> HIDE DEF V
  <2> QED BY <1>3
<1>7. \A y \in V : g[y] <= f[y] + (IF y = x THEN d ELSE 0) - (IF y = z THEN e ELSE 0)
  <2> HIDE DEF V
  <2> QED BY DEF Shifts
<1>8. Weighted(c) = Dot(T, w, k)
  <2>1. [s \in T |-> w[s] * c[s]] = [s \in T |-> w[s] * k[s]]
    <3> HIDE DEF V
    <3> QED BY <1>3
  <2>2. Weighted(c) = Dot(T, w, c)
    BY DEF Weighted
  <2> QED BY <2>1, <2>2 DEF Dot
<1>9. Weighted(c)' = Dot(T2, w2, k)
  <2>1. [s \in T2 |-> w2[s] * c[s]] = [s \in T2 |-> w2[s] * k[s]]
    <3> HIDE DEF V
    <3> QED BY <1>3
  <2>2. Weighted(c)' = Dot(T2, w2, c)
    BY DEF Weighted
  <2> QED BY <2>1, <2>2 DEF Dot
<1> HIDE DEF V, f, g, k
<1>10. Weighted(c) = Dot(V, f, k)
  BY <1>3, <1>4, <1>6, <1>8, WeightedOver
<1>11. Weighted(c)' = Dot(V, g, k)
  BY <1>3, <1>5, <1>6, <1>9, WeightedOver
<1>12. /\ Dot(V, g, k) \in Int /\ Dot(V, f, k) \in Int
       /\ Dot(V, g, k) <= Dot(V, f, k) + d * k[x] - e * k[z]
  BY <1>3, <1>4, <1>5, <1>6, <1>7, WeightedBound
<1> QED BY <1>6, <1>10, <1>11, <1>12

LEMMA ShiftTotal ==
    ASSUME TypeOK, TypeOK', NEW x, NEW z, NEW d \in Int, NEW e \in Int, Shifts(x, d, z, e)
    PROVE  Total(Waiting') <= Total(Waiting) + d - e
<1> DEFINE U == Tracked \cup Tracked' \cup {x, z}
<1> PICK c : c = [y \in U |-> 1]
  OBVIOUS
<1>1. c \in [U -> Nat] /\ c[x] = 1 /\ c[z] = 1
  OBVIOUS
<1>2. WaitingFacts
  BY WaitingType
<1>3. WaitingFacts'
  BY WaitingType, PTL
<1>4. Weighted(c) = Total(Waiting)
  <2>1. [s \in Tracked |-> Waiting[s] * c[s]] = Waiting
    BY <1>2 DEF WaitingFacts
  <2> QED BY <2>1 DEF Weighted, Dot
<1>5. Weighted(c)' = Total(Waiting')
  <2>1. [s \in Tracked' |-> Waiting'[s] * c[s]] = Waiting'
    BY <1>3 DEF WaitingFacts
  <2> QED BY <2>1 DEF Weighted, Dot
<1> HIDE DEF U
<1>6. /\ Weighted(c) \in Int /\ Weighted(c)' \in Int
      /\ Weighted(c)' <= Weighted(c) + d * c[x] - e * c[z]
  <2>1. Tracked \cup Tracked' \cup {x, z} \subseteq U
    BY DEF U
  <2> QED BY <1>1, <2>1, ShiftWeighted
<1>7. d * c[x] = d /\ e * c[z] = e
  BY <1>1
<1> QED BY <1>4, <1>5, <1>6, <1>7

-----------------------------------------------------------------------------
(* The steps of a layer. *)

\* Handling an event keeps everything but the bound on the summaries.
LEMMA EventStep ==
    ASSUME LayerInv, layer # None, NEW x, NEW d, EventKeeps(x, d),
           UNCHANGED <<builder, built, layer, handle>>,
           task' \in {"none", "waiting", "emitting", "ended"},
           DOMAIN claimed' \subseteq DOMAIN claimed, \A s \in DOMAIN claimed' : claimed'[s] = claimed[s],
           task' # "emitting" => DOMAIN claimed' = {},
           logged' \in Nat, summaries' \in Nat, logged' + summaries' = logged + summaries + 1
    PROVE  TypeOK' /\ BuiltInv' /\ MetadataInv' /\ LimitHonoured' /\ EventsAccounted'
<1>1. TypeOK /\ BuiltInv /\ MetadataInv /\ LimitHonoured /\ EventsAccounted
  BY DEF LayerInv
<1>2. TypeOK'
  <2>1. IsFiniteSet(DOMAIN claimed')
    BY <1>1, FS_Subset DEF TypeOK
  <2>2. /\ IsFiniteSet(DOMAIN storage')
        /\ \A s \in DOMAIN storage' : storage'[s].counter \in Counter({0})
        /\ recency' \in [DOMAIN storage' -> Nat]
        /\ metrics' \in [allowed : Nat, suppressed : Nat, evicted : Nat]
        /\ bypassed' \in Nat /\ lost' \in Nat
    BY DEF EventKeeps
  <2> QED BY <1>1, <2>1, <2>2 DEF TypeOK
<1>3. BuiltInv'
  BY <1>1 DEF BuiltInv, PolicyOf
<1>4. MetadataInv'
  <2>1. \A s \in DOMAIN storage' : Describes(storage'[s].metadata, s)
    BY DEF EventKeeps
  <2>2. \A s \in DOMAIN claimed' : Describes(claimed'[s].metadata, s)
    BY <1>1 DEF MetadataInv
  <2> QED BY <2>1, <2>2 DEF MetadataInv, Describes
<1>5. LimitHonoured'
  <2>1. WithinLimit(builder, Cardinality(DOMAIN storage'))
    BY DEF EventKeeps
  <2> QED BY <2>1 DEF LimitHonoured, WithinLimit
<1>6. EventsAccounted'
  <2>1. metrics.allowed + metrics.suppressed + bypassed = logged + summaries
    BY <1>1 DEF EventsAccounted
  <2>2. /\ metrics'.suppressed = lost' + Total(Suppressions')
        /\ metrics'.allowed + metrics'.suppressed + bypassed'
           = metrics.allowed + metrics.suppressed + bypassed + 1
    BY DEF EventKeeps
  <2> QED BY <2>1, <2>2 DEF EventsAccounted
<1> QED BY <1>2, <1>3, <1>4, <1>5, <1>6

\* An event of the application.
LEMMA LogEventFacts ==
    ASSUME LayerInv, NEW e \in Events, LogEvent(e)
    PROVE  /\ layer # None /\ layer' = layer /\ logged' = logged + 1 /\ summaries' = summaries
           /\ TypeOK' /\ BuiltInv' /\ MetadataInv' /\ LimitHonoured' /\ EventsAccounted'
           /\ Tracked' \subseteq Tracked \cup {ComputeSignature(e)}
           /\ \E d \in {0, 1} :
                 /\ Shifts(ComputeSignature(e), d, ComputeSignature(e), 0)
                 /\ ComputeSignature(e) \notin DOMAIN storage /\ RegisterEvent(layer.policy, 0).allow
                        => d = 0
<1> PICK x : x = ComputeSignature(e)
  OBVIOUS
<1>1. /\ layer # None /\ logged' = logged + 1 /\ EventEnabled(e)
      /\ UNCHANGED <<builder, built, layer, emitter, summaries>>
  BY DEF LogEvent
<1>2. e.target \in Targets \cup {SummaryTarget}
  BY DEF Targets
<1>3. PICK d \in {0, 1} :
        /\ EventKeeps(x, d)
        /\ x \notin DOMAIN storage /\ RegisterEvent(layer.policy, 0).allow => d = 0
  BY <1>1, <1>2, EventFacts
<1>4. TypeOK' /\ BuiltInv' /\ MetadataInv' /\ LimitHonoured' /\ EventsAccounted'
  <2>1. /\ task' \in {"none", "waiting", "emitting", "ended"} /\ claimed' = claimed
        /\ task' # "emitting" => DOMAIN claimed' = {}
        /\ logged \in Nat /\ summaries \in Nat
    BY <1>1 DEF emitter, LayerInv, TypeOK, BuiltInv
  <2>2. UNCHANGED <<builder, built, layer, handle>>
    BY <1>1 DEF emitter
  <2>3. logged' \in Nat /\ summaries' \in Nat /\ logged' + summaries' = logged + summaries + 1
    BY <1>1, <2>1
  <2>4. DOMAIN claimed' \subseteq DOMAIN claimed /\ \A s \in DOMAIN claimed' : claimed'[s] = claimed[s]
    BY <2>1
  <2> QED BY <1>1, <1>3, <2>1, <2>2, <2>3, <2>4, EventStep
<1>5. Tracked' \subseteq Tracked \cup {x}
  <2>1. DOMAIN storage' \subseteq DOMAIN storage \cup {x} /\ claimed' = claimed
    BY <1>1, <1>3 DEF EventKeeps, emitter
  <2> QED BY <2>1 DEF Tracked
<1>6. Shifts(x, d, x, 0)
  <2>1. \A y : Owed(y)' <= Owed(y) + (IF y = x THEN d ELSE 0)
    BY <1>3 DEF EventKeeps
  <2>2. claimed' = claimed
    BY <1>1 DEF emitter
  <2>3. \A y : Owed(y) \in Nat /\ Owed(y)' \in Nat
    <3>1. \A y : Owed(y) \in Nat
      BY OwedType DEF LayerInv
    <3>2. \A y : Owed(y)' \in Nat
      <4>1. ASSUME NEW s \in DOMAIN storage' PROVE UnreportedCount(storage'[s].counter) \in Nat
        BY <1>3, CounterOps DEF EventKeeps
      <4> QED BY <4>1 DEF Owed
    <3> QED BY <3>1, <3>2
  <2> QED BY <2>1, <2>2, <2>3 DEF Shifts, WaitingFor
<1> QED BY <1>1, <1>3, <1>4, <1>5, <1>6

\* A round of the loop over the summaries.
LEMMA FormatFacts ==
    ASSUME LayerInv, NEW s \in DOMAIN claimed, Format(s)
    PROVE  /\ layer # None /\ layer' = layer /\ logged' = logged /\ summaries' = summaries + 1
           /\ TypeOK' /\ BuiltInv' /\ MetadataInv' /\ LimitHonoured' /\ EventsAccounted'
           /\ Tracked' \subseteq Tracked \cup {ComputeSignature(SummaryEvent(s))}
           /\ \E d \in {0, 1} :
                 /\ Shifts(ComputeSignature(SummaryEvent(s)), d, s, 1)
                 /\ Unthrottled => d = 0
                 /\ /\ ComputeSignature(SummaryEvent(s)) \notin DOMAIN storage
                    /\ RegisterEvent(layer.policy, 0).allow
                    => d = 0
<1> PICK e : e = SummaryEvent(s)
  OBVIOUS
<1> PICK x : x = ComputeSignature(e)
  OBVIOUS
<1>1. /\ task = "emitting" /\ EventEnabled(e) /\ summaries' = summaries + 1
      /\ claimed' = Restrict(claimed, DOMAIN claimed \ {s})
      /\ task' = IF DOMAIN claimed = {s} THEN "waiting" ELSE "emitting"
      /\ UNCHANGED <<builder, built, layer, handle, logged>>
  BY DEF Format
<1>2. layer # None /\ e.target = layer.formatter /\ layer.formatter \in {SummaryTarget, CustomTarget, TerseTarget}
  <2>1. layer # None /\ layer \in LayerType
    BY <1>1 DEF LayerInv, BuiltInv, TypeOK
  <2> QED BY <2>1 DEF SummaryEvent, LayerType
<1>3. PICK d \in {0, 1} :
        /\ EventKeeps(x, d)
        /\ e.target \in layer.exempt_targets \cup {SummaryTarget} => d = 0
        /\ x \notin DOMAIN storage /\ RegisterEvent(layer.policy, 0).allow => d = 0
  <2>1. e.target \in Targets \cup {SummaryTarget}
    BY <1>2 DEF Targets
  <2> QED BY <1>1, <1>2, <2>1, EventFacts
<1>4. DOMAIN claimed' = DOMAIN claimed \ {s} /\ \A y \in DOMAIN claimed' : claimed'[y] = claimed[y]
  BY <1>1 DEF Restrict
<1>5. TypeOK' /\ BuiltInv' /\ MetadataInv' /\ LimitHonoured' /\ EventsAccounted'
  <2>1. /\ task' \in {"none", "waiting", "emitting", "ended"}
        /\ task' # "emitting" => DOMAIN claimed' = {}
        /\ logged \in Nat /\ summaries \in Nat
    BY <1>1, <1>4 DEF LayerInv, TypeOK
  <2>2. logged' \in Nat /\ summaries' \in Nat /\ logged' + summaries' = logged + summaries + 1
    BY <1>1, <2>1
  <2> QED BY <1>1, <1>2, <1>3, <1>4, <2>1, <2>2, EventStep
<1>6. Tracked' \subseteq Tracked \cup {x}
  <2>1. DOMAIN storage' \subseteq DOMAIN storage \cup {x}
    BY <1>3 DEF EventKeeps
  <2> QED BY <1>4, <2>1 DEF Tracked
<1>7. Shifts(x, d, s, 1)
  <2>1. \A y : Owed(y)' <= Owed(y) + (IF y = x THEN d ELSE 0)
    BY <1>3 DEF EventKeeps
  <2>2. \A y : Owed(y) \in Nat
    BY OwedType DEF LayerInv
  <2>3. \A y : Owed(y)' \in Nat
    <3>1. ASSUME NEW k \in DOMAIN storage' PROVE UnreportedCount(storage'[k].counter) \in Nat
      BY <1>3, CounterOps DEF EventKeeps
    <3> QED BY <3>1 DEF Owed
  <2> QED BY <1>4, <2>1, <2>2, <2>3 DEF Shifts, WaitingFor
<1>8. Unthrottled => d = 0
  BY <1>2, <1>3 DEF Unthrottled
<1> QED BY <1>1, <1>2, <1>3, <1>5, <1>6, <1>7, <1>8

\* A claim takes what a signature owes and leaves one summary.
LEMMA TickFacts ==
    ASSUME LayerInv, Tick
    PROVE  /\ layer # None /\ layer' = layer /\ logged' = logged /\ summaries' = summaries
           /\ TypeOK' /\ BuiltInv' /\ MetadataInv' /\ LimitHonoured' /\ EventsAccounted'
           /\ Tracked' = Tracked
           /\ \A x : Shifts(x, 0, x, 0)
<1>1. /\ task = "waiting" /\ task' = "emitting"
      /\ claimed' = [s \in Unreported |-> [count    |-> ClaimOf(storage[s].counter).count,
                                           metadata |-> storage[s].metadata]]
      /\ storage' = [s \in DOMAIN storage |->
                        IF s \in Unreported
                            THEN EventState(storage[s].policy, AfterClaim(storage[s].counter),
                                            storage[s].metadata)
                            ELSE storage[s]]
      /\ UNCHANGED <<builder, built, layer, recency, metrics, handle, lost, history>>
  BY DEF Tick
<1>2. TypeOK /\ BuiltInv /\ MetadataInv /\ LimitHonoured /\ EventsAccounted
  BY DEF LayerInv
<1>3. layer # None /\ DOMAIN claimed = {}
  BY <1>1, <1>2 DEF BuiltInv
<1>4. Unreported \subseteq DOMAIN storage /\ DOMAIN storage' = DOMAIN storage /\ DOMAIN claimed' = Unreported
  <2>1. Unreported \subseteq DOMAIN storage
    BY DEF Unreported
  <2> QED BY <1>1, <2>1
<1>5. ASSUME NEW s \in DOMAIN storage
      PROVE  /\ storage'[s].counter \in Counter({0})
             /\ storage'[s].counter.suppressed_count = storage[s].counter.suppressed_count
             /\ UnreportedCount(storage[s].counter) \in Nat
             /\ s \in Unreported => /\ UnreportedCount(storage'[s].counter) = 0
                                    /\ UnreportedCount(storage[s].counter) >= 1
             /\ s \notin Unreported => storage'[s] = storage[s]
             /\ storage'[s].metadata = storage[s].metadata
  <2>1. storage[s].counter \in Counter({0})
    BY <1>2 DEF TypeOK
  <2>2. CASE s \in Unreported
    <3>1. storage'[s].counter = AfterClaim(storage[s].counter) /\ storage'[s].metadata = storage[s].metadata
      BY <1>1, <2>2 DEF EventState
    <3>2. UnreportedCount(storage[s].counter) >= 1
      BY <2>1, <2>2, CounterOps DEF Unreported
    <3> QED BY <2>1, <2>2, <3>1, <3>2, CounterOps
  <2>3. CASE s \notin Unreported
    <3>1. storage'[s] = storage[s]
      BY <1>1, <2>3
    <3> QED BY <2>1, <2>3, <3>1, CounterOps
  <2> QED BY <2>2, <2>3
<1>6. TypeOK'
  <2>1. IsFiniteSet(DOMAIN claimed')
    BY <1>2, <1>4, FS_Subset DEF TypeOK
  <2> QED BY <1>1, <1>2, <1>4, <1>5, <2>1 DEF TypeOK, history
<1>7. BuiltInv'
  BY <1>1, <1>2, <1>3 DEF BuiltInv, PolicyOf
<1>8. MetadataInv'
  <2>1. \A s \in DOMAIN storage' : Describes(storage'[s].metadata, s)
    BY <1>2, <1>4, <1>5 DEF MetadataInv
  <2>2. ASSUME NEW s \in DOMAIN claimed' PROVE Describes(claimed'[s].metadata, s)
    <3>1. s \in Unreported /\ s \in DOMAIN storage
      BY <1>4
    <3>2. claimed'[s].metadata = storage[s].metadata
      BY <1>1, <3>1
    <3> QED BY <1>2, <3>1, <3>2 DEF MetadataInv
  <2> QED BY <2>1, <2>2 DEF MetadataInv, Describes
<1>9. LimitHonoured'
  BY <1>1, <1>2, <1>4 DEF LimitHonoured, WithinLimit
<1>10. EventsAccounted'
  <2>1. Suppressions' = Suppressions
    BY <1>4, <1>5 DEF Suppressions
  <2> QED BY <1>1, <1>2, <2>1 DEF EventsAccounted, history
<1>11. Tracked' = Tracked
  BY <1>3, <1>4 DEF Tracked
<1>12. ASSUME NEW x PROVE Shifts(x, 0, x, 0)
  <2>1. ASSUME NEW y PROVE WaitingFor(y)' <= WaitingFor(y)
    <3>1. CASE y \in Unreported
      <4>1. y \in DOMAIN storage /\ y \in DOMAIN storage' /\ y \in DOMAIN claimed' /\ y \notin DOMAIN claimed
        BY <1>3, <1>4, <3>1
      <4> QED BY <1>5, <3>1, <4>1 DEF WaitingFor, Owed
    <3>2. CASE y \in DOMAIN storage \ Unreported
      <4>1. y \in DOMAIN storage' /\ y \notin DOMAIN claimed' /\ y \notin DOMAIN claimed /\ storage'[y] = storage[y]
        BY <1>3, <1>4, <1>5, <3>2
      <4> QED BY <1>5, <3>2, <4>1 DEF WaitingFor, Owed
    <3>3. CASE y \notin DOMAIN storage
      BY <1>3, <1>4, <3>3 DEF WaitingFor, Owed
    <3> QED BY <3>1, <3>2, <3>3
  <2>2. \A y : WaitingFor(y) \in Nat
    BY <1>2, WaitingType DEF WaitingFacts
  <2>3. WaitingFacts'
    BY <1>6, WaitingType, PTL
  <2>4. \A y : WaitingFor(y)' \in Nat
    BY <2>3 DEF WaitingFacts
  <2> QED BY <2>1, <2>2, <2>4 DEF Shifts
<1> QED BY <1>1, <1>3, <1>6, <1>7, <1>8, <1>9, <1>10, <1>11, <1>12 DEF history

\* Steps of the task's handle, and stutters.
Idle ==
    /\ UNCHANGED <<builder, built, layer, limiter, claimed, history>>
    /\ handle' \in BOOLEAN
    /\ task' = task \/ (task = "waiting" /\ task' = "ended")

LEMMA IdleFacts ==
    ASSUME LayerInv, Shutdown \/ EndTask \/ UNCHANGED vars
    PROVE  Idle
<1>1. handle \in BOOLEAN
  BY DEF LayerInv, TypeOK
<1>2. CASE Shutdown
  BY <1>2 DEF Shutdown, Idle
<1>3. CASE EndTask
  BY <1>1, <1>3 DEF EndTask, Idle
<1>4. CASE UNCHANGED vars
  BY <1>1, <1>4 DEF vars, emitter, Idle
<1> QED BY <1>2, <1>3, <1>4

LEMMA IdleStep == LayerInv /\ Idle => LayerInv'
<1> SUFFICES ASSUME LayerInv, Idle PROVE LayerInv'
  OBVIOUS
<1> USE DEF Idle, limiter, history
<1>1. TypeOK'
  BY DEF LayerInv, TypeOK
<1>2. BuiltInv'
  BY DEF LayerInv, BuiltInv, PolicyOf
<1>3. MetadataInv'
  BY DEF LayerInv, MetadataInv, Describes
<1>4. LimitHonoured'
  BY DEF LayerInv, LimitHonoured, WithinLimit
<1>5. EventsAccounted'
  BY DEF LayerInv, EventsAccounted, Suppressions
<1>6. UnthrottledInv'
  BY DEF LayerInv, UnthrottledInv, Unthrottled, Waiting, Tracked, Owed
<1> QED BY <1>1, <1>2, <1>3, <1>4, <1>5, <1>6 DEF LayerInv

\* The disjuncts of Next, as the lemmas take them.
LEMMA NextCases ==
    ASSUME LayerInv, [Next]_vars
    PROVE  \/ Setter
           \/ Build \/ WithStorage
           \/ \E e \in Events : LogEvent(e)
           \/ Tick
           \/ \E s \in DOMAIN claimed : Format(s)
           \/ Idle
<1>1. Shutdown \/ EndTask \/ UNCHANGED vars => Idle
  BY IdleFacts
<1> QED BY <1>1, Zenon DEF Next

LEMMA LayerStep == LayerInv /\ [Next]_vars => LayerInv'
<1> SUFFICES ASSUME LayerInv, [Next]_vars PROVE LayerInv'
  OBVIOUS
<1>0. TypeOK /\ logged \in Nat /\ summaries \in Nat /\ Total(Waiting) \in Nat
  <2>1. TypeOK
    BY DEF LayerInv
  <2> QED BY <2>1, WaitingType DEF TypeOK, WaitingFacts
<1>1. CASE Setter
  BY <1>1, SetterStep
<1>2. CASE Build \/ WithStorage
  BY <1>2, BuildStep
<1>3. ASSUME NEW e \in Events, LogEvent(e) PROVE LayerInv'
  <2>1. /\ layer # None /\ layer' = layer /\ logged' = logged + 1 /\ summaries' = summaries
        /\ TypeOK' /\ BuiltInv' /\ MetadataInv' /\ LimitHonoured' /\ EventsAccounted'
    BY <1>3, LogEventFacts
  <2>2. PICK d \in {0, 1} : Shifts(ComputeSignature(e), d, ComputeSignature(e), 0)
    BY <1>3, LogEventFacts
  <2>3. Total(Waiting') <= Total(Waiting) + d - 0
    BY <1>0, <2>1, <2>2, ShiftTotal
  <2>4. Total(Waiting') \in Nat
    <3>1. WaitingFacts'
      BY <2>1, WaitingType, PTL
    <3> QED BY <3>1 DEF WaitingFacts
  <2>5. UnthrottledInv'
    BY <1>0, <2>1, <2>3, <2>4 DEF LayerInv, UnthrottledInv, Unthrottled
  <2> QED BY <2>1, <2>5 DEF LayerInv
<1>4. CASE Tick
  <2>1. /\ layer # None /\ layer' = layer /\ logged' = logged /\ summaries' = summaries
        /\ TypeOK' /\ BuiltInv' /\ MetadataInv' /\ LimitHonoured' /\ EventsAccounted'
        /\ Shifts(None, 0, None, 0)
    BY <1>4, TickFacts
  <2>2. Total(Waiting') <= Total(Waiting) + 0 - 0
    BY <1>0, <2>1, ShiftTotal
  <2>3. Total(Waiting') \in Nat
    <3>1. WaitingFacts'
      BY <2>1, WaitingType, PTL
    <3> QED BY <3>1 DEF WaitingFacts
  <2>4. UnthrottledInv'
    BY <1>0, <2>1, <2>2, <2>3 DEF LayerInv, UnthrottledInv, Unthrottled
  <2> QED BY <2>1, <2>4 DEF LayerInv
<1>5. ASSUME NEW s \in DOMAIN claimed, Format(s) PROVE LayerInv'
  <2>1. /\ layer # None /\ layer' = layer /\ logged' = logged /\ summaries' = summaries + 1
        /\ TypeOK' /\ BuiltInv' /\ MetadataInv' /\ LimitHonoured' /\ EventsAccounted'
    BY <1>5, FormatFacts
  <2>2. PICK d \in {0, 1} : /\ Shifts(ComputeSignature(SummaryEvent(s)), d, s, 1)
                            /\ Unthrottled => d = 0
    BY <1>5, FormatFacts
  <2>3. Total(Waiting') <= Total(Waiting) + d - 1
    BY <1>0, <2>1, <2>2, ShiftTotal
  <2>4. Total(Waiting') \in Nat
    <3>1. WaitingFacts'
      BY <2>1, WaitingType, PTL
    <3> QED BY <3>1 DEF WaitingFacts
  <2>5. UnthrottledInv'
    BY <1>0, <2>1, <2>2, <2>3, <2>4 DEF LayerInv, UnthrottledInv, Unthrottled
  <2> QED BY <2>1, <2>5 DEF LayerInv
<1>6. CASE Idle
  BY <1>6, IdleStep
<1> QED BY <1>1, <1>2, <1>3, <1>4, <1>5, <1>6, NextCases

\* Every state keeps its types.
THEOREM LayerTypeCorrect == Spec => []TypeOK
<1>1. LayerInv => TypeOK
  BY DEF LayerInv
<1> QED BY <1>1, LayerInit, LayerStep, PTL DEF Spec

\* The storage stays within the limit that the builder's last calls asked
\* for, in whatever order they came (build, PolicyOf, with_entry_mut).
THEOREM LimitsHonoured == Spec => []LimitHonoured
<1>1. LayerInv => LimitHonoured
  BY DEF LayerInv
<1> QED BY <1>1, LayerInit, LayerStep, PTL DEF Spec

\* No event and no suppression is missing from the layer's counters, nor
\* counted twice (event_enabled, check_event_with_metadata, evict_one).
THEOREM AllAccounted == Spec => []EventsAccounted
<1>1. LayerInv => EventsAccounted
  BY DEF LayerInv
<1> QED BY <1>1, LayerInit, LayerStep, PTL DEF Spec

-----------------------------------------------------------------------------
(* Summaries of summaries.  A signature of the application has depth zero,  *)
(* the signature of a summary is one deeper than the one it reports: they   *)
(* differ as long as the summary tells what it reports.  A new depth is     *)
(* reached by the first event of a signature only, which passes, so that    *)
(* one waiting summary less is left to go deeper.                           *)

\* x is the signature of a summary of s, when the fields excluded do not count.
Reports(x, s, excluded) ==
    /\ x.target = CustomTarget
    /\ "signature" \notin excluded => x.fields["signature"] = s
    /\ "message" \notin excluded
           => s = [target |-> x.fields["message"][1].target, fields |-> x.fields["message"][1].fields]

\* The depths of the signatures that were ever tracked.
Known(depth, excluded) ==
    \A x \in DOMAIN depth :
        /\ depth[x] \in Nat
        /\ x.target # CustomTarget => depth[x] = 0
        /\ x.target = CustomTarget => \E s \in DOMAIN depth :
                                         Reports(x, s, excluded) /\ depth[x] = depth[s] + 1

Slack(depth, top) == [x \in DOMAIN depth |-> top - depth[x]]

\* Every waiting summary can go on to the greatest depth reached, and only
\* those that are left take it further, so 2 * summaries stays below
\* top * (2 * logged - top - 1), which grows with top up to logged - 1.
Feedback(depth, top) ==
    /\ top \in Nat
    /\ Known(depth, layer.excluded_fields)
    /\ Tracked \subseteq DOMAIN depth
    /\ \A x \in DOMAIN depth : depth[x] <= top
    /\ IF logged = 0 THEN top = 0 /\ DOMAIN depth = {} /\ Total(Waiting) = 0
                     ELSE top + 1 + Total(Waiting) <= logged
    /\ 2 * summaries + 2 * Weighted(Slack(depth, top)) <= top * (2 * logged - top - 1)

FeedbackInv ==
    layer # None /\ ~Unthrottled /\ ~FeedsItself => \E depth, top : Feedback(depth, top)

\* The depth of one more signature.
Grown(depth, x, n) == [y \in DOMAIN depth \cup {x} |-> IF y = x THEN n ELSE depth[y]]

LEMMA KnownGrown ==
    ASSUME NEW depth, NEW excluded, Known(depth, excluded), NEW x, x \notin DOMAIN depth, NEW n \in Nat,
           x.target # CustomTarget => n = 0,
           x.target = CustomTarget => \E s \in DOMAIN depth : Reports(x, s, excluded) /\ n = depth[s] + 1
    PROVE  Known(Grown(depth, x, n), excluded)
<1> PICK more : more = Grown(depth, x, n)
  OBVIOUS
<1>1. DOMAIN more = DOMAIN depth \cup {x} /\ more[x] = n /\ \A y \in DOMAIN depth : more[y] = depth[y]
  BY DEF Grown
<1>2. ASSUME NEW y \in DOMAIN more
      PROVE  /\ more[y] \in Nat
             /\ y.target # CustomTarget => more[y] = 0
             /\ y.target = CustomTarget => \E s \in DOMAIN more :
                                              Reports(y, s, excluded) /\ more[y] = more[s] + 1
  <2>1. CASE y = x
    <3>1. more[y] \in Nat /\ (y.target # CustomTarget => more[y] = 0)
      BY <1>1, <2>1
    <3>2. ASSUME y.target = CustomTarget
          PROVE  \E s \in DOMAIN more : Reports(y, s, excluded) /\ more[y] = more[s] + 1
      <4>1. PICK s \in DOMAIN depth : Reports(x, s, excluded) /\ n = depth[s] + 1
        BY <2>1, <3>2
      <4>2. s \in DOMAIN more /\ Reports(y, s, excluded) /\ more[y] = more[s] + 1
        BY <1>1, <2>1, <4>1
      <4> QED BY <4>2
    <3> QED BY <3>1, <3>2
  <2>2. CASE y # x
    <3>1. y \in DOMAIN depth /\ more[y] = depth[y]
      BY <1>1, <2>2
    <3>2. depth[y] \in Nat /\ (y.target # CustomTarget => depth[y] = 0)
      BY <3>1 DEF Known
    <3>3. ASSUME y.target = CustomTarget
          PROVE  \E s \in DOMAIN more : Reports(y, s, excluded) /\ more[y] = more[s] + 1
      <4>1. PICK s \in DOMAIN depth : Reports(y, s, excluded) /\ depth[y] = depth[s] + 1
        BY <3>1, <3>3 DEF Known
      <4>2. s \in DOMAIN more /\ more[y] = more[s] + 1
        BY <1>1, <3>1, <4>1
      <4> QED BY <4>1, <4>2
    <3> QED BY <3>1, <3>2, <3>3
  <2> QED BY <2>1, <2>2
<1> QED BY <1>2 DEF Known

\* A summary that tells what it reports reports one signature.
LEMMA ReportsOne ==
    ASSUME NEW excluded, ~({"signature", "message"} \subseteq excluded), NEW x, NEW s, NEW t,
           Reports(x, s, excluded), Reports(x, t, excluded)
    PROVE  s = t
  BY DEF Reports

\* The event of a custom formatter that tells it does unless both fields are excluded.
LEMMA SummaryReports ==
    ASSUME LayerInv, layer.formatter = CustomTarget, layer.formatter # TerseTarget,
           NEW s \in DOMAIN claimed
    PROVE  Reports(ComputeSignature(SummaryEvent(s)), s, layer.excluded_fields)
<1> PICK e : e = SummaryEvent(s)
  OBVIOUS
<1> PICK x : x = ComputeSignature(e)
  OBVIOUS
<1> PICK m : m = claimed[s].metadata
  OBVIOUS
<1>1. s = [target |-> m.target, fields |-> m.fields]
  BY DEF LayerInv, MetadataInv, Describes
<1>2. /\ e.target = CustomTarget
      /\ e.fields = [signature |-> s, count |-> claimed[s].count, message |-> <<m, claimed[s].count>>]
  BY DEF SummaryEvent
<1>3. /\ DOMAIN e.fields = {"signature", "count", "message"}
      /\ e.fields["signature"] = s /\ e.fields["message"][1] = m
  BY <1>2
<1>4. x.target = CustomTarget /\ x.fields = Combined(e, layer.span_context_fields, layer.excluded_fields)
  BY <1>2 DEF ComputeSignature, CombinedFields
<1>5. \A n \in DOMAIN e.fields \ layer.excluded_fields : x.fields[n] = e.fields[n]
  BY <1>4 DEF Combined
<1>6. "signature" \notin layer.excluded_fields => x.fields["signature"] = s
  BY <1>3, <1>5
<1>7. "message" \notin layer.excluded_fields => x.fields["message"][1] = m
  BY <1>3, <1>5
<1> QED BY <1>1, <1>4, <1>6, <1>7 DEF Reports

LEMMA SlackType ==
    ASSUME NEW depth, NEW excluded, Known(depth, excluded), NEW top \in Nat,
           \A x \in DOMAIN depth : depth[x] <= top
    PROVE  /\ Slack(depth, top) \in [DOMAIN depth -> Nat]
           /\ \A x \in DOMAIN depth : depth[x] \in Nat /\ Slack(depth, top)[x] = top - depth[x]
<1>1. \A x \in DOMAIN depth : depth[x] \in Nat
  BY DEF Known
<1> QED BY <1>1 DEF Slack

LEMMA SlackGrown ==
    ASSUME NEW depth, Tracked \subseteq DOMAIN depth, NEW x, x \notin DOMAIN depth, NEW n \in Nat,
           NEW top \in Nat
    PROVE  Weighted(Slack(Grown(depth, x, n), top)) = Weighted(Slack(depth, top))
<1> PICK c, k : c = Slack(Grown(depth, x, n), top) /\ k = Slack(depth, top)
  OBVIOUS
<1>1. \A s \in Tracked : c[s] = k[s]
  <2>1. DOMAIN Grown(depth, x, n) = DOMAIN depth \cup {x} /\ \A s \in DOMAIN depth : Grown(depth, x, n)[s] = depth[s]
    BY DEF Grown
  <2> QED BY <2>1 DEF Slack
<1>2. [s \in Tracked |-> Waiting[s] * c[s]] = [s \in Tracked |-> Waiting[s] * k[s]]
  BY <1>1
<1> QED BY <1>2 DEF Weighted, Dot

\* With the top one higher, every waiting summary has one more to go.
LEMMA SlackRaised ==
    ASSUME TypeOK, NEW depth, Tracked \subseteq DOMAIN depth, NEW top \in Nat,
           \A x \in DOMAIN depth : depth[x] \in Nat
    PROVE  Weighted(Slack(depth, top + 1)) = Weighted(Slack(depth, top)) + Total(Waiting)
<1> PICK T, w : T = Tracked /\ w = Waiting
  OBVIOUS
<1> DEFINE a == [s \in T |-> w[s] * Slack(depth, top + 1)[s]]
           b == [s \in T |-> w[s] * Slack(depth, top)[s]]
<1>1. IsFiniteSet(T) /\ w \in [T -> Nat]
  BY WaitingType DEF WaitingFacts
<1>2. ASSUME NEW s \in T
      PROVE  a[s] \in Int /\ b[s] \in Int /\ a[s] = b[s] + w[s]
  <2>1. w[s] \in Nat /\ depth[s] \in Nat /\ s \in DOMAIN depth
    BY <1>1
  <2>2. a[s] = w[s] * ((top - depth[s]) + 1) /\ b[s] = w[s] * (top - depth[s])
    BY <2>1 DEF Slack
  <2>3. PICK k \in Int : k = top - depth[s]
    BY <2>1
  <2>4. w[s] * (k + 1) = w[s] * k + w[s] /\ w[s] * k \in Int
    BY <2>1
  <2> HIDE DEF a, b
  <2> QED BY <2>1, <2>2, <2>3, <2>4
<1>3. Summed(T, a, b, w)
  <2>1. a \in [T -> Int] /\ b \in [T -> Int]
    BY <1>2
  <2> HIDE DEF a, b
  <2> QED BY <1>1, <1>2, <2>1 DEF Summed
<1>4. Total(a) = Total(b) + Total(w)
  BY <1>1, <1>3, TotalSum
<1> QED BY <1>4 DEF Weighted, Dot

WeightedFacts ==
    \A c, U : c \in [U -> Nat] /\ Tracked \subseteq U => Weighted(c) \in Nat

LEMMA WeightedType == TypeOK => WeightedFacts
<1> SUFFICES ASSUME TypeOK, NEW c, NEW U, c \in [U -> Nat], Tracked \subseteq U
             PROVE  Weighted(c) \in Nat
  BY DEF WeightedFacts
<1>1. IsFiniteSet(Tracked) /\ Waiting \in [Tracked -> Nat]
  BY WaitingType DEF WaitingFacts
<1>2. [s \in Tracked |-> Waiting[s] * c[s]] \in [Tracked -> Nat]
  <2>1. \A m, n \in Nat : m * n \in Nat
    OBVIOUS
  <2> QED BY <1>1, <2>1
<1>3. /\ Total([s \in Tracked |-> Waiting[s] * c[s]]) \in Int
      /\ Total([s \in Tracked |-> Waiting[s] * c[s]]) >= 0
  <2>1. PICK f \in [Tracked -> Nat] : f = [s \in Tracked |-> Waiting[s] * c[s]]
    BY <1>2
  <2>2. Total(f) \in Int /\ Total(f) >= 0
    BY <1>1, TotalNonneg
  <2> QED BY <2>1, <2>2
<1> QED BY <1>3 DEF Weighted, Dot

\* The arithmetic of the four kinds of steps: b is the weighted sum.
LEMMA EventArithmetic ==
    \A l, t, s, b, c \in Nat : \A d \in {0, 1} :
        2 * s + 2 * b <= t * (2 * l - t - 1) /\ c <= b + d * t
            => 2 * s + 2 * c <= t * (2 * (l + 1) - t - 1)
<1> TAKE l, t, s, b, c \in Nat
<1> TAKE d \in {0, 1}
<1>1. t * (2 * (l + 1) - t - 1) = t * (2 * l - t - 1) + 2 * t
  OBVIOUS
<1>2. d * t <= t
  OBVIOUS
<1>3. t * (2 * l - t - 1) \in Int
  OBVIOUS
<1> QED BY <1>1, <1>2, <1>3

LEMMA RaiseArithmetic ==
    \A l, t, s, b, c, w \in Nat :
        /\ 2 * s + 2 * b <= t * (2 * l - t - 1)
        /\ c <= b + w - 1
        /\ t + 1 + w <= l
        => 2 * (s + 1) + 2 * c <= (t + 1) * (2 * l - (t + 1) - 1)
<1> TAKE l, t, s, b, c, w \in Nat
<1>1. (t + 1) * (2 * l - (t + 1) - 1) = t * (2 * l - t - 1) + (2 * l - 2 * t - 2)
  OBVIOUS
<1>2. t * (2 * l - t - 1) \in Int
  OBVIOUS
<1> QED BY <1>1, <1>2

LEMMA BoundArithmetic ==
    \A l, t, s, b \in Nat :
        2 * s + 2 * b <= t * (2 * l - t - 1) /\ (t + 1 <= l \/ (t = 0 /\ l = 0))
            => s <= (l * (l - 1)) \div 2
<1> TAKE l, t, s, b \in Nat
<1> SUFFICES ASSUME 2 * s + 2 * b <= t * (2 * l - t - 1), t + 1 <= l \/ (t = 0 /\ l = 0)
             PROVE  s <= (l * (l - 1)) \div 2
  OBVIOUS
<1>1. PICK k \in Nat : k = l - t
  OBVIOUS
<1>2. l * (l - 1) = t * (2 * l - t - 1) + k * (k - 1)
  <2>1. l = t + k
    BY <1>1
  <2> QED BY <2>1
<1>3. k * (k - 1) >= 0 /\ k * (k - 1) \in Int
  <2>1. CASE k = 0
    BY <2>1
  <2>2. CASE k # 0
    <3>1. k - 1 \in Nat
      BY <2>2
    <3>2. \A m, n \in Nat : m * n \in Nat
      OBVIOUS
    <3> QED BY <3>1, <3>2
  <2> QED BY <2>1, <2>2
<1>4. PICK m \in Int : m = l * (l - 1)
  OBVIOUS
<1>5. t * (2 * l - t - 1) \in Int
  OBVIOUS
<1>6. 2 * s <= m
  BY <1>2, <1>3, <1>4, <1>5
<1>7. s <= m \div 2
  BY <1>6
<1> QED BY <1>4, <1>7

\* An event of the application has depth zero.
LEMMA FeedbackLogEvent ==
    ASSUME LayerInv, NEW depth, NEW top, Feedback(depth, top), ~FeedsItself, ~Unthrottled,
           NEW e \in Events, e.target # CustomTarget, LogEvent(e)
    PROVE  \E grown : Feedback(grown, top)'
<1> PICK x : x = ComputeSignature(e)
  OBVIOUS
<1>1. /\ layer # None /\ layer' = layer /\ logged' = logged + 1 /\ summaries' = summaries
      /\ TypeOK' /\ Tracked' \subseteq Tracked \cup {x}
  BY LogEventFacts
<1>2. PICK d \in {0, 1} :
        /\ Shifts(x, d, x, 0)
        /\ x \notin DOMAIN storage /\ RegisterEvent(layer.policy, 0).allow => d = 0
  BY LogEventFacts
<1>3. RegisterEvent(layer.policy, 0).allow
  BY DEF FeedsItself
<1>4. x.target # CustomTarget
  BY DEF ComputeSignature
<1>5. /\ top \in Nat /\ Known(depth, layer.excluded_fields) /\ Tracked \subseteq DOMAIN depth
      /\ \A y \in DOMAIN depth : depth[y] <= top
      /\ IF logged = 0 THEN top = 0 /\ DOMAIN depth = {} /\ Total(Waiting) = 0
                       ELSE top + 1 + Total(Waiting) <= logged
      /\ 2 * summaries + 2 * Weighted(Slack(depth, top)) <= top * (2 * logged - top - 1)
  BY DEF Feedback
<1>6. TypeOK /\ logged \in Nat /\ summaries \in Nat /\ Total(Waiting) \in Nat
  <2>1. TypeOK
    BY DEF LayerInv
  <2> QED BY <2>1, WaitingType DEF TypeOK, WaitingFacts
<1>7. PICK grown :
        /\ Known(grown, layer.excluded_fields)
        /\ x \in DOMAIN grown /\ grown[x] = 0 /\ DOMAIN depth \subseteq DOMAIN grown
        /\ \A y \in DOMAIN grown : grown[y] <= top
        /\ Weighted(Slack(grown, top)) = Weighted(Slack(depth, top))
        /\ x \notin DOMAIN depth => d = 0
  <2>1. CASE x \in DOMAIN depth
    <3>1. depth[x] = 0
      BY <1>4, <1>5, <2>1 DEF Known
    <3> QED BY <1>5, <2>1, <3>1
  <2>2. CASE x \notin DOMAIN depth
    <3> PICK more : more = Grown(depth, x, 0)
      OBVIOUS
    <3>1. Known(more, layer.excluded_fields)
      BY <1>4, <1>5, <2>2, KnownGrown
    <3>2. /\ DOMAIN more = DOMAIN depth \cup {x} /\ more[x] = 0
          /\ \A y \in DOMAIN depth : more[y] = depth[y]
      BY <2>2 DEF Grown
    <3>3. Weighted(Slack(more, top)) = Weighted(Slack(depth, top))
      BY <1>5, <2>2, SlackGrown
    <3>4. d = 0
      BY <1>2, <1>3, <1>5, <2>2 DEF Tracked
    <3>5. \A y \in DOMAIN more : more[y] <= top
      BY <1>5, <3>2
    <3> QED BY <3>1, <3>2, <3>3, <3>4, <3>5
  <2> QED BY <2>1, <2>2
<1> PICK c : c = Slack(grown, top)
  OBVIOUS
<1>8. c \in [DOMAIN grown -> Nat] /\ c[x] = top
  <2>1. /\ Slack(grown, top) \in [DOMAIN grown -> Nat]
        /\ \A y \in DOMAIN grown : grown[y] \in Nat /\ Slack(grown, top)[y] = top - grown[y]
    BY <1>5, <1>7, SlackType
  <2> QED BY <1>5, <1>7, <2>1
<1>9. /\ Weighted(c) \in Int /\ Weighted(c)' \in Int
      /\ Weighted(c)' <= Weighted(c) + d * c[x] - 0 * c[x]
  <2>1. Tracked \cup Tracked' \cup {x, x} \subseteq DOMAIN grown
    BY <1>1, <1>5, <1>7
  <2> QED BY <1>1, <1>2, <1>6, <1>8, <2>1, ShiftWeighted
<1>10. Weighted(c) \in Nat
  BY <1>5, <1>6, <1>7, <1>8, WeightedType DEF WeightedFacts
<1>11. Weighted(c)' \in Nat
  <2>1. WeightedFacts'
    BY <1>1, WeightedType, PTL
  <2> QED BY <1>1, <1>5, <1>7, <1>8, <2>1 DEF WeightedFacts
<1>12. Total(Waiting') <= Total(Waiting) + d - 0
  BY <1>1, <1>2, <1>6, ShiftTotal
<1>13. Total(Waiting') \in Nat
  <2>1. WaitingFacts'
    BY <1>1, WaitingType, PTL
  <2> QED BY <2>1 DEF WaitingFacts
<1>14. 2 * summaries' + 2 * Weighted(c)' <= top * (2 * logged' - top - 1)
  <2>1. Weighted(c)' <= Weighted(c) + d * top
    <3>1. 0 * top = 0 /\ d * top \in Int
      BY <1>5
    <3>2. PICK m \in Int : m = d * top
      BY <3>1
    <3>3. Weighted(c)' <= Weighted(c) + m - 0
      BY <1>8, <1>9, <3>1, <3>2
    <3> QED BY <1>9, <3>2, <3>3
  <2>2. 2 * summaries + 2 * Weighted(c) <= top * (2 * logged - top - 1)
    BY <1>5, <1>7
  <2>3. PICK b, b2 \in Nat : b = Weighted(c) /\ b2 = Weighted(c)'
    BY <1>10, <1>11
  <2>4. 2 * summaries + 2 * b2 <= top * (2 * (logged + 1) - top - 1)
    BY <1>5, <1>6, <2>1, <2>2, <2>3, EventArithmetic
  <2> QED BY <1>1, <2>3, <2>4
<1>15. top + 1 + Total(Waiting') <= logged' /\ logged' # 0
  <2>1. CASE logged = 0
    BY <1>1, <1>5, <1>7, <1>12, <1>13, <2>1
  <2>2. CASE logged # 0
    BY <1>1, <1>5, <1>6, <1>12, <1>13, <2>2
  <2> QED BY <2>1, <2>2
<1>16. Known(grown, layer'.excluded_fields) /\ Tracked' \subseteq DOMAIN grown
  BY <1>1, <1>5, <1>7
<1>17. Feedback(grown, top)'
  BY <1>5, <1>7, <1>14, <1>15, <1>16 DEF Feedback
<1> QED BY <1>17

LEMMA FeedbackTick ==
    ASSUME LayerInv, NEW depth, NEW top, Feedback(depth, top), Tick
    PROVE  Feedback(depth, top)'
<1>1. /\ layer' = layer /\ logged' = logged /\ summaries' = summaries
      /\ TypeOK' /\ Tracked' = Tracked /\ \A x : Shifts(x, 0, x, 0)
  BY TickFacts
<1>2. /\ top \in Nat /\ Known(depth, layer.excluded_fields) /\ Tracked \subseteq DOMAIN depth
      /\ \A y \in DOMAIN depth : depth[y] <= top
      /\ IF logged = 0 THEN top = 0 /\ DOMAIN depth = {} /\ Total(Waiting) = 0
                       ELSE top + 1 + Total(Waiting) <= logged
      /\ 2 * summaries + 2 * Weighted(Slack(depth, top)) <= top * (2 * logged - top - 1)
  BY DEF Feedback
<1>3. TypeOK /\ logged \in Nat /\ summaries \in Nat
  BY DEF LayerInv, TypeOK
<1>4. PICK x \in DOMAIN storage : TRUE
  BY DEF Tick, Unreported
<1> PICK c : c = Slack(depth, top)
  OBVIOUS
<1>5. c \in [DOMAIN depth -> Nat] /\ x \in DOMAIN depth
  BY <1>2, <1>4, SlackType DEF Tracked
<1>6. /\ Weighted(c) \in Int /\ Weighted(c)' \in Int
      /\ Weighted(c)' <= Weighted(c) + 0 * c[x] - 0 * c[x]
  <2>1. Tracked \cup Tracked' \cup {x, x} \subseteq DOMAIN depth
    BY <1>1, <1>2, <1>5
  <2> QED BY <1>1, <1>3, <1>5, <2>1, ShiftWeighted
<1>7. Weighted(c)' <= Weighted(c)
  <2>1. 0 * c[x] = 0
    BY <1>5
  <2> QED BY <1>6, <2>1
<1>8. Total(Waiting') <= Total(Waiting) + 0 - 0 /\ Total(Waiting') \in Nat /\ Total(Waiting) \in Nat
  <2>1. WaitingFacts /\ WaitingFacts'
    BY <1>1, <1>3, WaitingType, PTL
  <2>2. Total(Waiting') <= Total(Waiting) + 0 - 0
    BY <1>1, <1>3, ShiftTotal
  <2> QED BY <2>1, <2>2 DEF WaitingFacts
<1>9. 2 * summaries' + 2 * Weighted(c)' <= top * (2 * logged' - top - 1)
  <2>1. top * (2 * logged - top - 1) \in Int
    BY <1>2, <1>3
  <2> QED BY <1>1, <1>2, <1>3, <1>6, <1>7, <2>1
<1>10. /\ Known(depth, layer'.excluded_fields) /\ Tracked' \subseteq DOMAIN depth
       /\ logged' = logged
  BY <1>1, <1>2
<1>11. IF logged' = 0 THEN top = 0 /\ DOMAIN depth = {} /\ Total(Waiting') = 0
                      ELSE top + 1 + Total(Waiting') <= logged'
  <2>1. CASE logged = 0
    BY <1>2, <1>8, <1>10, <2>1
  <2>2. CASE logged # 0
    BY <1>2, <1>3, <1>8, <1>10, <2>2
  <2> QED BY <2>1, <2>2
<1> QED BY <1>2, <1>9, <1>10, <1>11 DEF Feedback

\* A summary is one deeper than what it reports: its event uses up one
\* waiting summary and may leave a suppression that has less far to go, or
\* is the first of a new depth and leaves none.
LEMMA FeedbackFormat ==
    ASSUME LayerInv, NEW depth, NEW top, Feedback(depth, top), ~FeedsItself, ~Unthrottled,
           NEW z \in DOMAIN claimed, Format(z)
    PROVE  \E grown, higher : Feedback(grown, higher)'
<1> PICK x : x = ComputeSignature(SummaryEvent(z))
  OBVIOUS
<1>1. /\ layer # None /\ layer' = layer /\ logged' = logged /\ summaries' = summaries + 1
      /\ TypeOK' /\ Tracked' \subseteq Tracked \cup {x}
  BY FormatFacts
<1>2. PICK d \in {0, 1} :
        /\ Shifts(x, d, z, 1)
        /\ x \notin DOMAIN storage /\ RegisterEvent(layer.policy, 0).allow => d = 0
  BY FormatFacts
<1>3. RegisterEvent(layer.policy, 0).allow /\ ~({"signature", "message"} \subseteq layer.excluded_fields)
  BY DEF FeedsItself
<1>4. /\ top \in Nat /\ Known(depth, layer.excluded_fields) /\ Tracked \subseteq DOMAIN depth
      /\ \A y \in DOMAIN depth : depth[y] <= top
      /\ IF logged = 0 THEN top = 0 /\ DOMAIN depth = {} /\ Total(Waiting) = 0
                       ELSE top + 1 + Total(Waiting) <= logged
      /\ 2 * summaries + 2 * Weighted(Slack(depth, top)) <= top * (2 * logged - top - 1)
  BY DEF Feedback
<1>5. TypeOK /\ logged \in Nat /\ summaries \in Nat /\ Total(Waiting) \in Nat
  <2>1. TypeOK
    BY DEF LayerInv
  <2> QED BY <2>1, WaitingType DEF TypeOK, WaitingFacts
<1>6. Reports(x, z, layer.excluded_fields) /\ x.target = CustomTarget
  <2>1. layer \in LayerType
    BY <1>1, <1>5 DEF TypeOK
  <2>2. layer.formatter = CustomTarget /\ layer.formatter # TerseTarget
    BY <2>1 DEF LayerType, Unthrottled, FeedsItself
  <2> QED BY <2>2, SummaryReports DEF Reports
<1>7. z \in DOMAIN depth /\ depth[z] \in Nat /\ depth[z] <= top
  <2>1. z \in DOMAIN depth
    BY <1>4 DEF Tracked
  <2> QED BY <1>4, <2>1 DEF Known
<1>8. x \in DOMAIN depth => depth[x] = depth[z] + 1
  <2> SUFFICES ASSUME x \in DOMAIN depth PROVE depth[x] = depth[z] + 1
    OBVIOUS
  <2>1. PICK s \in DOMAIN depth : Reports(x, s, layer.excluded_fields) /\ depth[x] = depth[s] + 1
    BY <1>4, <1>6 DEF Known
  <2>2. s = z
    BY <1>3, <1>6, <2>1, ReportsOne
  <2> QED BY <2>1, <2>2
<1>9. x \notin DOMAIN depth => d = 0
  BY <1>2, <1>3, <1>4 DEF Tracked
<1>10. PICK grown :
        /\ Known(grown, layer.excluded_fields)
        /\ x \in DOMAIN grown /\ grown[x] = depth[z] + 1 /\ grown[z] = depth[z]
        /\ DOMAIN depth \subseteq DOMAIN grown
        /\ \A y \in DOMAIN grown : y \in DOMAIN depth \/ y = x
        /\ \A y \in DOMAIN depth : grown[y] = depth[y]
        /\ \A t \in Nat : Weighted(Slack(grown, t)) = Weighted(Slack(depth, t))
  <2>1. CASE x \in DOMAIN depth
    BY <1>4, <1>8, <2>1
  <2>2. CASE x \notin DOMAIN depth
    <3> PICK n \in Nat : n = depth[z] + 1
      BY <1>7
    <3> PICK more : more = Grown(depth, x, n)
      OBVIOUS
    <3>1. Known(more, layer.excluded_fields)
      BY <1>4, <1>6, <1>7, <2>2, KnownGrown
    <3>2. /\ DOMAIN more = DOMAIN depth \cup {x} /\ more[x] = n
          /\ \A y \in DOMAIN depth : more[y] = depth[y]
      BY <2>2 DEF Grown
    <3>3. \A t \in Nat : Weighted(Slack(more, t)) = Weighted(Slack(depth, t))
      BY <1>4, <2>2, SlackGrown
    <3> QED BY <1>7, <3>1, <3>2, <3>3
  <2> QED BY <2>1, <2>2
<1>11. Total(Waiting) >= 1 /\ logged # 0 /\ top + 1 + Total(Waiting) <= logged
  <2>1. WaitingFacts
    BY <1>5, WaitingType
  <2>2. z \in Tracked /\ Waiting[z] >= 1 /\ IsFiniteSet(Tracked) /\ Waiting \in [Tracked -> Nat]
    BY <2>1 DEF WaitingFacts
  <2>3. Total(Waiting) >= 1
    <3> PICK T, w : T = Tracked /\ w = Waiting
      OBVIOUS
    <3>1. Total(w) = w[z] + Total(Without(w, z)) /\ Without(w, z) \in [T \ {z} -> Nat] /\ IsFiniteSet(T \ {z})
      <4>1. w \in [T -> Int]
        BY <2>2
      <4>2. SplitAt(T, w, z)
        BY <2>2, <4>1, TotalSplit
      <4>3. Without(w, z) \in [T \ {z} -> Nat]
        BY <2>2 DEF Without
      <4>4. IsFiniteSet(T \ {z})
        BY <2>2, FS_Subset
      <4> QED BY <4>2, <4>3, <4>4 DEF SplitAt
    <3>2. Total(Without(w, z)) \in Int /\ Total(Without(w, z)) >= 0
      BY <3>1, TotalNonneg
    <3> QED BY <2>2, <3>1, <3>2
  <2> QED BY <1>4, <1>7, <2>3
<1>12. Total(Waiting') <= Total(Waiting) + d - 1 /\ Total(Waiting') \in Nat
  <2>1. Total(Waiting') <= Total(Waiting) + d - 1
    BY <1>1, <1>2, <1>5, ShiftTotal
  <2>2. WaitingFacts'
    BY <1>1, WaitingType, PTL
  <2> QED BY <2>1, <2>2 DEF WaitingFacts
<1>13. ASSUME NEW higher \in Nat, \A y \in DOMAIN grown : grown[y] <= higher
       PROVE  /\ Weighted(Slack(grown, higher)) \in Nat /\ Weighted(Slack(grown, higher))' \in Nat
              /\ Weighted(Slack(grown, higher))'
                 <= Weighted(Slack(depth, higher)) + d * (higher - (depth[z] + 1)) - (higher - depth[z])
  <2> PICK c : c = Slack(grown, higher)
    OBVIOUS
  <2>1. c \in [DOMAIN grown -> Nat] /\ c[x] = higher - (depth[z] + 1) /\ c[z] = higher - depth[z]
    <3>1. /\ Slack(grown, higher) \in [DOMAIN grown -> Nat]
          /\ \A y \in DOMAIN grown : grown[y] \in Nat /\ Slack(grown, higher)[y] = higher - grown[y]
      BY <1>10, <1>13, SlackType
    <3> QED BY <1>7, <1>10, <3>1
  <2>2. Tracked \cup Tracked' \cup {x, z} \subseteq DOMAIN grown
    BY <1>1, <1>4, <1>7, <1>10
  <2>3. /\ Weighted(c) \in Int /\ Weighted(c)' \in Int
        /\ Weighted(c)' <= Weighted(c) + d * c[x] - 1 * c[z]
    <3>1. PICK n, m \in Int : n = d /\ m = 1
      OBVIOUS
    <3>2. Shifts(x, n, z, m)
      BY <1>2, <3>1
    <3>3. /\ Weighted(c) \in Int /\ Weighted(c)' \in Int
          /\ Weighted(c)' <= Weighted(c) + n * c[x] - m * c[z]
      BY <1>1, <1>5, <2>1, <2>2, <3>2, ShiftWeighted
    <3> QED BY <3>1, <3>3
  <2>4. Weighted(c) \in Nat
    BY <1>5, <2>1, <2>2, WeightedType DEF WeightedFacts
  <2>5. Weighted(c)' \in Nat
    <3>1. WeightedFacts'
      BY <1>1, WeightedType, PTL
    <3> QED BY <2>1, <2>2, <3>1 DEF WeightedFacts
  <2>6. 1 * c[z] = c[z]
    BY <1>7, <2>1
  <2>7. Weighted(c) = Weighted(Slack(depth, higher))
    BY <1>10, <1>13
  <2> QED BY <2>1, <2>3, <2>4, <2>5, <2>6, <2>7
<1>14. Known(grown, layer'.excluded_fields) /\ Tracked' \subseteq DOMAIN grown /\ logged' = logged
  BY <1>1, <1>4, <1>10
<1>15. CASE depth[z] + 1 <= top
  <2>1. \A y \in DOMAIN grown : grown[y] <= top
    BY <1>4, <1>10, <1>15
  <2>2. /\ Weighted(Slack(grown, top)) \in Nat /\ Weighted(Slack(grown, top))' \in Nat
        /\ Weighted(Slack(grown, top))'
           <= Weighted(Slack(depth, top)) + d * (top - (depth[z] + 1)) - (top - depth[z])
    BY <1>4, <1>13, <2>1
  <2>3. Weighted(Slack(depth, top)) = Weighted(Slack(grown, top))
    BY <1>4, <1>10
  <2>4. Weighted(Slack(grown, top))' <= Weighted(Slack(depth, top)) - 1
    <3>1. CASE d = 0
      <4>1. 0 * (top - (depth[z] + 1)) = 0
        BY <1>4, <1>7
      <4> QED BY <1>4, <1>7, <1>15, <2>2, <2>3, <3>1, <4>1
    <3>2. CASE d = 1
      <4>1. 1 * (top - (depth[z] + 1)) = top - (depth[z] + 1)
        BY <1>4, <1>7
      <4> QED BY <1>4, <1>7, <1>15, <2>2, <2>3, <3>2, <4>1
    <3> QED BY <3>1, <3>2
  <2>5. 2 * summaries' + 2 * Weighted(Slack(grown, top))' <= top * (2 * logged' - top - 1)
    <3>1. PICK r \in Int : r = top * (2 * logged - top - 1)
      BY <1>4, <1>5
    <3>2. PICK b, c \in Nat : b = Weighted(Slack(depth, top)) /\ c = Weighted(Slack(grown, top))'
      BY <2>2, <2>3
    <3>3. 2 * summaries + 2 * b <= r /\ c <= b - 1
      BY <1>4, <2>4, <3>1, <3>2
    <3>4. 2 * (summaries + 1) + 2 * c <= r
      BY <1>5, <3>3
    <3> QED BY <1>1, <3>1, <3>2, <3>4
  <2>6. top + 1 + Total(Waiting') <= logged' /\ logged' # 0
    BY <1>4, <1>5, <1>11, <1>12, <1>14
  <2>7. Feedback(grown, top)'
    BY <1>4, <1>14, <2>1, <2>5, <2>6 DEF Feedback
  <2> QED BY <2>7
<1>16. CASE depth[z] = top
  <2> PICK higher \in Nat : higher = top + 1
    BY <1>4
  <2>1. \A y \in DOMAIN grown : grown[y] <= higher
    <3>1. ASSUME NEW y \in DOMAIN grown PROVE grown[y] <= higher
      <4>1. CASE y = x
        BY <1>10, <1>16, <4>1
      <4>2. CASE y \in DOMAIN depth
        <5>1. grown[y] = depth[y] /\ depth[y] \in Nat /\ depth[y] <= top
          BY <1>4, <1>10, <4>2 DEF Known
        <5> QED BY <1>4, <5>1
      <4> QED BY <1>10, <4>1, <4>2
    <3> QED BY <3>1
  <2>2. d = 0
    BY <1>4, <1>7, <1>8, <1>9, <1>16
  <2>3. /\ Weighted(Slack(grown, higher))' \in Nat
        /\ Weighted(Slack(grown, higher))' <= Weighted(Slack(depth, higher)) - 1
    <3>1. /\ Weighted(Slack(grown, higher)) \in Nat /\ Weighted(Slack(grown, higher))' \in Nat
          /\ Weighted(Slack(grown, higher))'
             <= Weighted(Slack(depth, higher)) + d * (higher - (depth[z] + 1)) - (higher - depth[z])
      BY <1>13, <2>1
    <3>2. higher - depth[z] = 1 /\ d * (higher - (depth[z] + 1)) = 0
      BY <1>4, <1>7, <1>16, <2>2
    <3>3. Weighted(Slack(depth, higher)) \in Nat
      BY <1>10, <3>1
    <3> QED BY <3>1, <3>2, <3>3
  <2>4. Weighted(Slack(depth, higher)) = Weighted(Slack(depth, top)) + Total(Waiting)
    <3>1. \A y \in DOMAIN depth : depth[y] \in Nat
      BY <1>4 DEF Known
    <3> QED BY <1>4, <1>5, <3>1, SlackRaised
  <2>5. 2 * summaries' + 2 * Weighted(Slack(grown, higher))' <= higher * (2 * logged' - higher - 1)
    <3>1. Weighted(Slack(depth, top)) \in Nat
      <4>1. Slack(depth, top) \in [DOMAIN depth -> Nat]
        BY <1>4, SlackType
      <4> QED BY <1>4, <1>5, <4>1, WeightedType DEF WeightedFacts
    <3>2. PICK b, c, w \in Nat : /\ b = Weighted(Slack(depth, top))
                                 /\ c = Weighted(Slack(grown, higher))' /\ w = Total(Waiting)
      BY <1>5, <2>3, <3>1
    <3>3. 2 * summaries + 2 * b <= top * (2 * logged - top - 1) /\ c <= b + w - 1 /\ top + 1 + w <= logged
      BY <1>4, <1>11, <2>3, <2>4, <3>2
    <3>4. 2 * (summaries + 1) + 2 * c <= (top + 1) * (2 * logged - (top + 1) - 1)
      BY <1>4, <1>5, <3>3, RaiseArithmetic
    <3> QED BY <1>1, <3>2, <3>4
  <2>6. higher + 1 + Total(Waiting') <= logged' /\ logged' # 0
    BY <1>4, <1>5, <1>11, <1>12, <1>14, <2>2
  <2>7. Feedback(grown, higher)'
    BY <1>14, <2>1, <2>5, <2>6 DEF Feedback
  <2> QED BY <2>7
<1> QED BY <1>4, <1>7, <1>15, <1>16

\* A new layer has logged nothing and knows no signature.
LEMMA FeedbackStart ==
    ASSUME layer' # None, TypeOK', DOMAIN storage' = {}, DOMAIN claimed' = {},
           logged' = 0, summaries' = 0
    PROVE  FeedbackInv'
<1> PICK none : none = [x \in {} |-> 0]
  OBVIOUS
<1>1. Tracked' = {} /\ DOMAIN none = {}
  BY DEF Tracked
<1>2. Total(Waiting') = 0
  <2>1. Waiting' \in [{} -> Int]
    BY <1>1 DEF Waiting
  <2> QED BY <2>1, TotalEmpty
<1>3. Weighted(Slack(none, 0))' = 0
  <2>1. [s \in Tracked' |-> Waiting'[s] * Slack(none, 0)[s]] \in [{} -> Int]
    BY <1>1
  <2>2. Total([s \in Tracked' |-> Waiting'[s] * Slack(none, 0)[s]]) = 0
    BY <2>1, TotalEmpty
  <2> QED BY <2>2 DEF Weighted, Dot
<1>4. Known(none, layer'.excluded_fields)
  BY <1>1 DEF Known
<1>5. Feedback(none, 0)'
  BY <1>1, <1>2, <1>3, <1>4 DEF Feedback
<1> QED BY <1>5 DEF FeedbackInv

LEMMA FeedbackStep ==
    ASSUME \A e \in Events : e.target # CustomTarget
    PROVE  LayerInv /\ FeedbackInv /\ [Next]_vars => FeedbackInv'
<1> SUFFICES ASSUME LayerInv, FeedbackInv, [Next]_vars PROVE FeedbackInv'
  OBVIOUS
<1>1. CASE Setter
  <2>1. layer' = None
    BY <1>1, SetterKeepsType DEF LayerInv, TypeOK, BuiltInv
  <2> QED BY <2>1 DEF FeedbackInv
<1>2. CASE Build \/ WithStorage
  <2>1. layer = None /\ UNCHANGED <<storage, claimed, logged, summaries>>
    BY <1>2 DEF Build, WithStorage, LayerInv, BuiltInv, limiter, history
  <2>2. DOMAIN storage' = {} /\ DOMAIN claimed' = {} /\ logged' = 0 /\ summaries' = 0
    BY <2>1 DEF LayerInv, BuiltInv
  <2>3. TypeOK'
    BY LayerStep DEF LayerInv
  <2>4. CASE layer' = None
    BY <2>4 DEF FeedbackInv
  <2>5. CASE layer' # None
    BY <2>2, <2>3, <2>5, FeedbackStart
  <2> QED BY <2>4, <2>5
<1>3. ASSUME NEW e \in Events, LogEvent(e) PROVE FeedbackInv'
  <2>1. layer # None /\ layer' = layer
    BY <1>3, LogEventFacts
  <2>2. CASE ~Unthrottled /\ ~FeedsItself
    <3>1. PICK depth, top : Feedback(depth, top)
      BY <2>1, <2>2 DEF FeedbackInv
    <3>2. \E grown : Feedback(grown, top)'
      BY <1>3, <2>2, <3>1, FeedbackLogEvent
    <3> QED BY <3>2 DEF FeedbackInv
  <2>3. CASE Unthrottled \/ FeedsItself
    BY <2>1, <2>3 DEF FeedbackInv, Unthrottled, FeedsItself
  <2> QED BY <2>2, <2>3
<1>4. CASE Tick
  <2>1. layer # None /\ layer' = layer
    BY <1>4, TickFacts
  <2>2. CASE ~Unthrottled /\ ~FeedsItself
    <3>1. PICK depth, top : Feedback(depth, top)
      BY <2>1, <2>2 DEF FeedbackInv
    <3>2. Feedback(depth, top)'
      BY <1>4, <3>1, FeedbackTick
    <3> QED BY <3>2 DEF FeedbackInv
  <2>3. CASE Unthrottled \/ FeedsItself
    BY <2>1, <2>3 DEF FeedbackInv, Unthrottled, FeedsItself
  <2> QED BY <2>2, <2>3
<1>5. ASSUME NEW z \in DOMAIN claimed, Format(z) PROVE FeedbackInv'
  <2>1. layer # None /\ layer' = layer
    BY <1>5, FormatFacts
  <2>2. CASE ~Unthrottled /\ ~FeedsItself
    <3>1. PICK depth, top : Feedback(depth, top)
      BY <2>1, <2>2 DEF FeedbackInv
    <3>2. \E grown, higher : Feedback(grown, higher)'
      BY <1>5, <2>2, <3>1, FeedbackFormat
    <3> QED BY <3>2 DEF FeedbackInv
  <2>3. CASE Unthrottled \/ FeedsItself
    BY <2>1, <2>3 DEF FeedbackInv, Unthrottled, FeedsItself
  <2> QED BY <2>2, <2>3
<1>6. CASE Idle
  <2>1. UNCHANGED <<layer, storage, claimed, logged, summaries>>
    BY <1>6 DEF Idle, limiter, history
  <2>2. (layer # None /\ ~Unthrottled /\ ~FeedsItself)' => layer # None /\ ~Unthrottled /\ ~FeedsItself
    BY <2>1 DEF Unthrottled, FeedsItself
  <2>3. ASSUME NEW depth, NEW top, Feedback(depth, top) PROVE Feedback(depth, top)'
    <3>1. Waiting' = Waiting /\ Tracked' = Tracked
      BY <2>1 DEF Waiting, Tracked, Owed
    <3>2. Weighted(Slack(depth, top))' = Weighted(Slack(depth, top))
      BY <3>1 DEF Weighted
    <3> QED BY <2>1, <2>3, <3>1, <3>2 DEF Feedback
  <2> QED BY <2>2, <2>3 DEF FeedbackInv
<1> QED BY <1>1, <1>2, <1>3, <1>4, <1>5, <1>6, NextCases

\* The invariant bounds the summaries.
LEMMA FeedbackBounds == LayerInv /\ FeedbackInv => SummariesBounded
<1> SUFFICES ASSUME LayerInv, FeedbackInv, layer # None, ~FeedsItself
             PROVE  summaries <= IF Unthrottled THEN logged ELSE (logged * (logged - 1)) \div 2
  BY DEF SummariesBounded
<1>1. TypeOK /\ logged \in Nat /\ summaries \in Nat /\ Total(Waiting) \in Nat
  <2>1. TypeOK
    BY DEF LayerInv
  <2> QED BY <2>1, WaitingType DEF TypeOK, WaitingFacts
<1>2. CASE Unthrottled
  BY <1>1, <1>2 DEF LayerInv, UnthrottledInv
<1>3. CASE ~Unthrottled
  <2>1. PICK depth, top : Feedback(depth, top)
    BY <1>3 DEF FeedbackInv
  <2>2. /\ top \in Nat /\ Known(depth, layer.excluded_fields) /\ Tracked \subseteq DOMAIN depth
        /\ \A y \in DOMAIN depth : depth[y] <= top
        /\ top + 1 <= logged \/ (top = 0 /\ logged = 0)
        /\ 2 * summaries + 2 * Weighted(Slack(depth, top)) <= top * (2 * logged - top - 1)
    BY <1>1, <2>1 DEF Feedback
  <2>3. Weighted(Slack(depth, top)) \in Nat
    <3>1. Slack(depth, top) \in [DOMAIN depth -> Nat]
      BY <2>2, SlackType
    <3> QED BY <1>1, <2>2, <3>1, WeightedType DEF WeightedFacts
  <2>4. PICK b \in Nat : b = Weighted(Slack(depth, top))
    BY <2>3
  <2>5. summaries <= (logged * (logged - 1)) \div 2
    BY <1>1, <2>2, <2>4, BoundArithmetic
  <2> QED BY <1>3, <2>5
<1> QED BY <1>2, <1>3

\* While the application does not itself log with the target of its summary
\* formatter, the layer logs at most one summary for each event when the
\* formatter's events pass, and at most n * (n - 1) / 2 for n events when they
\* are throttled and tell what they report (event_enabled, the emission loop,
\* summary formatters).
THEOREM OutputBounded ==
    (\A e \in Events : e.target # CustomTarget) => (Spec => []SummariesBounded)
<1> SUFFICES ASSUME \A e \in Events : e.target # CustomTarget PROVE Spec => []SummariesBounded
  OBVIOUS
<1>1. Init => LayerInv /\ FeedbackInv
  BY LayerInit DEF Init, FeedbackInv
<1>2. LayerInv /\ FeedbackInv /\ [Next]_vars => LayerInv' /\ FeedbackInv'
  BY LayerStep, FeedbackStep
<1>3. LayerInv /\ FeedbackInv => SummariesBounded
  BY FeedbackBounds
<1> QED BY <1>1, <1>2, <1>3, PTL DEF Spec
=============================================================================
