------------------------- MODULE RateLimiterProofs -------------------------
(***************************************************************************)
(* What the rate limiter guarantees for every number of threads and        *)
(* signatures, every policy its constructors accept, and every order in    *)
(* which the threads' readings of the clock reach an entry.                *)
(***************************************************************************)
EXTENDS RateLimiter, FiniteSetTheorems, WellFoundedInduction, TLAPS

-----------------------------------------------------------------------------
(* Sums.  An induction over the naturals is the argument that a set of them  *)
(* that is not empty has a least element: it is used for the set of sizes    *)
(* for which the claim fails.                                                *)

Pick(s) == CHOOSE x \in s : TRUE

SumStep(it, f, S) == [s \in SUBSET S |-> IF s = {} THEN 0 ELSE f[Pick(s)] + it[s \ {Pick(s)}]]

LEMMA TotalIsIter == ASSUME NEW f, NEW S
   PROVE Total(f, S) = (CHOOSE it : it = SumStep(it, f, S))[S]
  BY DEF Total, MapThenSumSet, MapThenFoldSet, SumStep, Pick

LEMMA Least ==
    ASSUME NEW T, T \subseteq Nat, T # {}
    PROVE  \E x \in T : \A y \in T : x <= y
<1>1. PICK x \in T : \A y \in T : ~(<<y, x>> \in OpToRel(<, Nat))
  BY NatLessThanWellFounded, WFMin
<1>2. \A y \in T : ~(y < x)
  BY <1>1 DEF OpToRel
<1> QED BY <1>2

Small(S, k) == {s \in SUBSET S : Cardinality(s) <= k}

Sums(g, f, S, k) ==
    /\ g \in [Small(S, k) -> Int]
    /\ \A s \in Small(S, k) : g[s] = IF s = {} THEN 0 ELSE f[Pick(s)] + g[s \ {Pick(s)}]

LEMMA PickFacts ==
    ASSUME NEW S, IsFiniteSet(S), NEW s \in SUBSET S
    PROVE  /\ IsFiniteSet(s) /\ Cardinality(s) \in Nat /\ Cardinality(s) <= Cardinality(S)
           /\ s # {} => /\ Pick(s) \in s
                        /\ s \ {Pick(s)} \in SUBSET S
                        /\ Cardinality(s \ {Pick(s)}) = Cardinality(s) - 1
           /\ Cardinality(s) = 0 <=> s = {}
<1>1. IsFiniteSet(s) /\ Cardinality(s) \in Nat /\ Cardinality(s) <= Cardinality(S)
  BY FS_Subset, FS_CardinalityType
<1>2. s # {} => Pick(s) \in s
  BY DEF Pick
<1>3. s # {} => Cardinality(s \ {Pick(s)}) = Cardinality(s) - 1
  BY <1>1, <1>2, FS_RemoveElement
<1>4. Cardinality(s) = 0 <=> s = {}
  BY <1>1, FS_EmptySet
<1> QED BY <1>1, <1>2, <1>3, <1>4

LEMMA SumsGrow ==
    ASSUME NEW S, IsFiniteSet(S), NEW f \in [S -> Int], NEW k \in Nat, NEW g, Sums(g, f, S, k)
    PROVE  \E e : Sums(e, f, S, k + 1)
<1> DEFINE e == [s \in Small(S, k + 1) |-> IF s \in Small(S, k) THEN g[s] ELSE f[Pick(s)] + g[s \ {Pick(s)}]]
<1>1. ASSUME NEW s \in Small(S, k + 1)
      PROVE  /\ s \in SUBSET S /\ (s = {} => s \in Small(S, k))
             /\ s # {} => Pick(s) \in S /\ s \ {Pick(s)} \in Small(S, k) /\ s \ {Pick(s)} \in Small(S, k + 1)
  <2>1. s \in SUBSET S /\ Cardinality(s) <= k + 1
    BY DEF Small
  <2>2. /\ Cardinality(s) \in Nat /\ (Cardinality(s) = 0 <=> s = {})
        /\ s # {} => /\ Pick(s) \in s
                     /\ s \ {Pick(s)} \in SUBSET S
                     /\ Cardinality(s \ {Pick(s)}) = Cardinality(s) - 1
    BY <2>1, PickFacts
  <2> QED BY <2>1, <2>2 DEF Small
<1>2. e \in [Small(S, k + 1) -> Int]
  BY <1>1 DEF Sums
<1>3. ASSUME NEW s \in Small(S, k + 1)
      PROVE  e[s] = IF s = {} THEN 0 ELSE f[Pick(s)] + e[s \ {Pick(s)}]
  <2>1. CASE s \in Small(S, k)
    BY <1>1, <1>3, <2>1 DEF Sums
  <2>2. CASE s \notin Small(S, k)
    <3>1. s # {} /\ s \ {Pick(s)} \in Small(S, k) /\ s \ {Pick(s)} \in Small(S, k + 1)
      BY <1>1, <2>2
    <3> QED BY <2>2, <3>1
  <2> QED BY <2>1, <2>2
<1>4. Sums(e, f, S, k + 1)
  BY <1>2, <1>3 DEF Sums
<1> QED BY <1>4

LEMMA SumsExist ==
    ASSUME NEW S, IsFiniteSet(S), NEW f \in [S -> Int], NEW k \in Nat
    PROVE  \E g : Sums(g, f, S, k)
<1> DEFINE bad == {n \in Nat : ~(\E g : Sums(g, f, S, n))}
<1> SUFFICES ASSUME bad # {} PROVE FALSE
  OBVIOUS
<1>1. PICK n \in bad : \A m \in bad : n <= m
  <2>1. bad \subseteq Nat
    OBVIOUS
  <2> HIDE DEF bad
  <2> QED BY <2>1, Least
<1>2. CASE n = 0
  <2>1. ASSUME NEW s \in Small(S, 0) PROVE s = {}
    <3>1. s \in SUBSET S /\ Cardinality(s) <= 0
      BY DEF Small
    <3>2. Cardinality(s) \in Nat /\ (Cardinality(s) = 0 <=> s = {})
      BY <3>1, PickFacts
    <3> QED BY <3>1, <3>2
  <2>2. Sums([s \in Small(S, 0) |-> 0], f, S, 0)
    BY <2>1 DEF Sums
  <2> QED BY <1>1, <1>2, <2>2
<1>3. CASE n # 0
  <2>1. n - 1 \in Nat /\ n - 1 \notin bad
    BY <1>1, <1>3
  <2>2. PICK g : Sums(g, f, S, n - 1)
    BY <2>1
  <2>3. \E e : Sums(e, f, S, (n - 1) + 1)
    BY <2>1, <2>2, SumsGrow
  <2>4. (n - 1) + 1 = n
    BY <2>1
  <2> QED BY <1>1, <2>3, <2>4
<1> QED BY <1>2, <1>3

LEMMA TotalIs ==
    ASSUME NEW S, IsFiniteSet(S), NEW f \in [S -> Int]
    PROVE  \E it : it = SumStep(it, f, S) /\ Total(f, S) = it[S]
<1>1. PICK g : Sums(g, f, S, Cardinality(S))
  BY SumsExist, FS_CardinalityType
<1>2. Small(S, Cardinality(S)) = SUBSET S
  BY PickFacts DEF Small
<1>3. g = SumStep(g, f, S)
  BY <1>1, <1>2 DEF Sums, SumStep
<1> DEFINE it == CHOOSE j : j = SumStep(j, f, S)
<1>4. it = SumStep(it, f, S)
  BY <1>3
<1>5. Total(f, S) = it[S]
  BY TotalIsIter
<1> HIDE DEF it
<1> QED BY <1>4, <1>5

LEMMA TotalZero ==
    ASSUME NEW S, IsFiniteSet(S), NEW f \in [S -> Int], \A x \in S : f[x] = 0
    PROVE  Total(f, S) = 0
<1>1. PICK it : it = SumStep(it, f, S) /\ Total(f, S) = it[S]
  BY TotalIs
<1> DEFINE bad == {n \in Nat : \E s \in SUBSET S : Cardinality(s) = n /\ it[s] # 0}
<1>2. bad = {}
  <2> SUFFICES ASSUME bad # {} PROVE FALSE
    OBVIOUS
  <2>1. PICK n \in bad : \A m \in bad : n <= m
    <3>1. bad \subseteq Nat
      OBVIOUS
    <3> HIDE DEF bad
    <3> QED BY <3>1, Least
  <2>2. PICK s \in SUBSET S : Cardinality(s) = n /\ it[s] # 0
    BY <2>1
  <2>3. it[s] = IF s = {} THEN 0 ELSE f[Pick(s)] + it[s \ {Pick(s)}]
    BY <1>1 DEF SumStep
  <2>4. s # {}
    BY <2>2, <2>3
  <2>5. Pick(s) \in s /\ s \ {Pick(s)} \in SUBSET S /\ Cardinality(s \ {Pick(s)}) = n - 1 /\ n \in Nat
    BY <2>2, <2>4, PickFacts
  <2>6. n - 1 \in Nat
    <3>1. Cardinality(s \ {Pick(s)}) \in Nat
      BY <2>5, PickFacts
    <3> QED BY <2>5, <3>1
  <2>7. it[s \ {Pick(s)}] = 0
    BY <2>1, <2>5, <2>6
  <2> QED BY <2>2, <2>3, <2>5, <2>7
<1>3. S \in SUBSET S /\ Cardinality(S) \in Nat
  BY FS_CardinalityType
<1> QED BY <1>1, <1>2, <1>3

\* A change at x changes the total by as much.
LEMMA TotalChange ==
    ASSUME NEW S, IsFiniteSet(S), NEW f \in [S -> Int], NEW g \in [S -> Int],
           NEW x \in S, \A y \in S \ {x} : g[y] = f[y]
    PROVE  Total(f, S) \in Int /\ Total(g, S) = Total(f, S) + g[x] - f[x]
<1>1. PICK u : u = SumStep(u, f, S) /\ Total(f, S) = u[S]
  BY TotalIs
<1>2. PICK v : v = SumStep(v, g, S) /\ Total(g, S) = v[S]
  BY TotalIs
<1> DEFINE good(s) == /\ u[s] \in Int /\ v[s] \in Int
                      /\ v[s] = u[s] + (IF x \in s THEN g[x] - f[x] ELSE 0)
           bad == {n \in Nat : \E s \in SUBSET S : Cardinality(s) = n /\ ~good(s)}
<1>3. bad = {}
  <2> SUFFICES ASSUME bad # {} PROVE FALSE
    OBVIOUS
  <2>1. PICK n \in bad : \A m \in bad : n <= m
    <3>1. bad \subseteq Nat
      OBVIOUS
    <3> HIDE DEF bad
    <3> QED BY <3>1, Least
  <2>2. PICK s \in SUBSET S : Cardinality(s) = n /\ ~good(s)
    BY <2>1
  <2> DEFINE t == s \ {Pick(s)}
  <2>3. /\ u[s] = IF s = {} THEN 0 ELSE f[Pick(s)] + u[t]
        /\ v[s] = IF s = {} THEN 0 ELSE g[Pick(s)] + v[t]
    BY <1>1, <1>2 DEF SumStep
  <2>4. s # {}
    BY <2>2, <2>3
  <2>5. Pick(s) \in s /\ t \in SUBSET S /\ Cardinality(t) = n - 1 /\ n \in Nat
    BY <2>2, <2>4, PickFacts
  <2>6. n - 1 \in Nat
    <3>1. Cardinality(t) \in Nat
      BY <2>5, PickFacts
    <3> QED BY <2>5, <3>1
  <2>7. good(t)
    BY <2>1, <2>5, <2>6
  <2>8. CASE Pick(s) = x
    <3>1. x \notin t /\ x \in s
      BY <2>5, <2>8
    <3> HIDE DEF t
    <3> QED BY <2>2, <2>3, <2>4, <2>7, <2>8, <3>1
  <2>9. CASE Pick(s) # x
    <3>1. (x \in t <=> x \in s) /\ Pick(s) \in S \ {x}
      BY <2>5, <2>9
    <3> HIDE DEF t
    <3> QED BY <2>2, <2>3, <2>4, <2>7, <3>1
  <2> QED BY <2>8, <2>9
<1>4. S \in SUBSET S /\ Cardinality(S) \in Nat
  BY FS_CardinalityType
<1>5. good(S)
  BY <1>3, <1>4
<1> QED BY <1>1, <1>2, <1>5

-----------------------------------------------------------------------------
(* The policies. *)

\* The kind of a policy tells which of the four it is.
LEMMA KindOf ==
    ASSUME NEW p \in Policy
    PROVE  /\ p.kind \in {"count_based", "time_window", "exponential_backoff", "token_bucket"}
           /\ p.kind = "count_based" => p \in CountBasedPolicy
           /\ p.kind = "time_window" => p \in TimeWindowPolicy
           /\ p.kind = "exponential_backoff" => p \in ExponentialBackoffPolicy
           /\ p.kind = "token_bucket" => p \in TokenBucketPolicy
  BY DEF Policy, CountBasedPolicy, TimeWindowPolicy, ExponentialBackoffPolicy, TokenBucketPolicy

\* reset, kind by kind.
LEMMA ResetOf ==
    ASSUME NEW p \in Policy
    PROVE  /\ p.kind = "count_based" => Reset(p) = ResetCountBased(p)
           /\ p.kind = "time_window" => Reset(p) = ResetTimeWindow(p)
           /\ p.kind = "exponential_backoff" => Reset(p) = ResetExponentialBackoff(p)
           /\ p.kind = "token_bucket" => Reset(p) = ResetTokenBucket(p)
  BY DEF Reset

\* A decision and the policy it leaves.
LEMMA Parts ==
    ASSUME NEW a, NEW q, NEW r, r = [allow |-> a, policy |-> q]
    PROVE  r.allow = a /\ r.policy = q
  OBVIOUS

LEMMA RegisterCount ==
    ASSUME NEW p \in CountBasedPolicy, NEW at, NEW r, r = RegisterEvent(p, at)
    PROVE  /\ r.policy \in CountBasedPolicy /\ Reset(r.policy) = Reset(p)
           /\ r.policy.max_count = p.max_count
           /\ r.policy.current_count = p.current_count + 1
           /\ r.allow \in BOOLEAN /\ (r.allow <=> p.current_count + 1 <= p.max_count)
<1>1. p.kind = "count_based" /\ r = RegisterCountBased(p)
  BY DEF RegisterEvent, CountBasedPolicy
<1>2. /\ r.policy \in CountBasedPolicy /\ r.policy.max_count = p.max_count
      /\ r.policy.current_count = p.current_count + 1
      /\ r.allow = (p.current_count + 1 <= p.max_count)
  BY <1>1 DEF RegisterCountBased, CountBasedPolicy
<1>3. Reset(r.policy) = ResetCountBased(r.policy) /\ Reset(p) = ResetCountBased(p)
  BY <1>1, <1>2, ResetOf DEF Policy, CountBasedPolicy
<1>4. ResetCountBased(r.policy) = ResetCountBased(p)
  BY <1>1, <1>2 DEF ResetCountBased, RegisterCountBased, CountBasedPolicy
<1>5. (p.current_count + 1 <= p.max_count) \in BOOLEAN
  OBVIOUS
<1>6. r.allow \in BOOLEAN /\ (r.allow <=> p.current_count + 1 <= p.max_count)
  BY <1>2, <1>5, Zenon
<1> QED BY <1>2, <1>3, <1>4, <1>6

LEMMA RegisterBackoff ==
    ASSUME NEW p \in ExponentialBackoffPolicy, NEW at, NEW r, r = RegisterEvent(p, at)
    PROVE  /\ r.policy \in ExponentialBackoffPolicy /\ Reset(r.policy) = Reset(p)
           /\ r.allow \in BOOLEAN /\ (r.allow <=> p.event_count + 1 = p.next_allowed)
           /\ r.policy.event_count = p.event_count + 1
           /\ r.allow => r.policy.next_allowed = 2 * p.next_allowed
           /\ ~r.allow => r.policy.next_allowed = p.next_allowed
<1>1. p.kind = "exponential_backoff" /\ r = RegisterExponentialBackoff(p)
  BY DEF RegisterEvent, ExponentialBackoffPolicy
<1>2. /\ r.allow = (p.event_count + 1 = p.next_allowed)
      /\ r.policy = [p EXCEPT !.event_count = @ + 1,
                              !.next_allowed = IF p.event_count + 1 = p.next_allowed THEN 2 * @ ELSE @]
  BY <1>1, Parts DEF RegisterExponentialBackoff
<1>3. \E n \in Nat :
         /\ r.policy = [p EXCEPT !.event_count = p.event_count + 1, !.next_allowed = n]
         /\ r.allow => n = 2 * p.next_allowed
         /\ ~r.allow => n = p.next_allowed
  <2>1. CASE p.event_count + 1 = p.next_allowed
    <3>1. r.allow /\ r.policy = [p EXCEPT !.event_count = p.event_count + 1, !.next_allowed = 2 * p.next_allowed]
      BY <1>2, <2>1
    <3>2. 2 * p.next_allowed \in Nat
      BY DEF ExponentialBackoffPolicy
    <3> QED BY <3>1, <3>2
  <2>2. CASE p.event_count + 1 # p.next_allowed
    <3>1. ~r.allow /\ r.policy = [p EXCEPT !.event_count = p.event_count + 1, !.next_allowed = p.next_allowed]
      BY <1>2, <2>2
    <3>2. p.next_allowed \in Nat
      BY DEF ExponentialBackoffPolicy
    <3> QED BY <3>1, <3>2
  <2> QED BY <2>1, <2>2
<1>4. PICK n \in Nat : 
         /\ r.policy = [p EXCEPT !.event_count = p.event_count + 1, !.next_allowed = n]
         /\ r.allow => n = 2 * p.next_allowed
         /\ ~r.allow => n = p.next_allowed
  BY <1>3
<1>5. /\ r.policy \in ExponentialBackoffPolicy
      /\ r.policy.event_count = p.event_count + 1
      /\ r.policy.next_allowed = n
  <2>1. p.event_count + 1 \in Nat
    BY DEF ExponentialBackoffPolicy
  <2> QED BY <1>4, <2>1 DEF ExponentialBackoffPolicy
<1>6. Reset(r.policy) = ResetExponentialBackoff(r.policy) /\ Reset(p) = ResetExponentialBackoff(p)
  BY <1>1, <1>5, ResetOf DEF Policy, ExponentialBackoffPolicy
<1>7. ResetExponentialBackoff(r.policy) = ResetExponentialBackoff(p)
  BY <1>4 DEF ResetExponentialBackoff, ExponentialBackoffPolicy
<1>8. r.allow \in BOOLEAN /\ (r.allow <=> p.event_count + 1 = p.next_allowed)
  BY <1>2, Zenon
<1> QED BY <1>4, <1>5, <1>6, <1>7, <1>8

\* expire_old_events leaves what follows the expired timestamps at the front.
LEMMA UnexpiredIsSuffix ==
    ASSUME NEW p \in TimeWindowPolicy, NEW at \in Nat, NEW live, live = Unexpired(p, at)
    PROVE  \E k \in 0 .. Len(p.event_timestamps) :
              /\ live = SubSeq(p.event_timestamps, k + 1, Len(p.event_timestamps))
              /\ \A i \in 1 .. k : Elapsed(at, p.event_timestamps[i]) > p.window_duration
              /\ k < Len(p.event_timestamps) =>
                    Elapsed(at, p.event_timestamps[k + 1]) <= p.window_duration
<1> DEFINE s == p.event_timestamps
           inside == {i \in 1 .. Len(s) : Elapsed(at, s[i]) <= p.window_duration}
<1>1. s \in Seq(Nat) /\ p.window_duration \in Nat /\ Len(s) \in Nat
  BY DEF TimeWindowPolicy
<1>2. \A i \in 1 .. Len(s) : Elapsed(at, s[i]) \in Nat
  BY <1>1 DEF Elapsed
<1>3. live = IF inside = {} THEN << >> ELSE SubSeq(s, Min(inside), Len(s))
  BY DEF Unexpired
<1>4. CASE inside = {}
  <2>1. live = << >> /\ SubSeq(s, Len(s) + 1, Len(s)) = << >>
    BY <1>1, <1>3, <1>4
  <2>2. \A i \in 1 .. Len(s) : Elapsed(at, s[i]) > p.window_duration
    BY <1>1, <1>2, <1>4
  <2> HIDE DEF s
  <2> QED BY <1>1, <2>1, <2>2, SMTT(30) DEF s
<1>5. CASE inside # {}
  <2>1. PICK x \in inside : \A y \in inside : x <= y
    <3>1. inside \subseteq Nat
      OBVIOUS
    <3> HIDE DEF inside
    <3> QED BY <1>5, <3>1, Least
  <2>2. Min(inside) \in inside /\ \A y \in inside : Min(inside) <= y
    <3> HIDE DEF inside
    <3> QED BY <2>1 DEF Min
  <2> DEFINE k == Min(inside) - 1
  <2>3. k \in 0 .. Len(s) /\ k + 1 \in inside /\ k + 1 = Min(inside)
    <3>1. Min(inside) \in 1 .. Len(s)
      BY <2>2
    <3> HIDE DEF inside
    <3> QED BY <1>1, <2>2, <3>1
  <2>4. \A i \in 1 .. k : i \notin inside /\ i \in 1 .. Len(s)
    <3> HIDE DEF inside
    <3> QED BY <1>1, <2>2, <2>3
  <2>5. \A i \in 1 .. k : Elapsed(at, s[i]) > p.window_duration
    BY <1>1, <1>2, <2>4
  <2>6. live = SubSeq(s, k + 1, Len(s))
    BY <1>3, <1>5, <2>3
  <2>7. Elapsed(at, s[k + 1]) <= p.window_duration
    BY <2>3
  <2> HIDE DEF k, inside
  <2> QED BY <2>3, <2>5, <2>6, <2>7
<1> QED BY <1>4, <1>5

LEMMA RegisterWindow ==
    ASSUME NEW p \in TimeWindowPolicy, NEW at \in Nat, NEW r, r = RegisterEvent(p, at),
           NEW live, live = Unexpired(p, at)
    PROVE  /\ live \in Seq(Nat)
           /\ r.policy \in TimeWindowPolicy /\ Reset(r.policy) = Reset(p)
           /\ r.policy.max_events = p.max_events
           /\ r.policy.window_duration = p.window_duration
           /\ r.allow \in BOOLEAN /\ (r.allow <=> Len(live) < p.max_events)
           /\ r.allow => r.policy.event_timestamps = Append(live, at)
           /\ ~r.allow => r.policy.event_timestamps = live
<1>1. p.kind = "time_window" /\ r = RegisterTimeWindow(p, at)
  BY DEF RegisterEvent, TimeWindowPolicy
<1>2. live \in Seq(Nat)
  <2>1. PICK k \in 0 .. Len(p.event_timestamps) :
           live = SubSeq(p.event_timestamps, k + 1, Len(p.event_timestamps))
    BY UnexpiredIsSuffix
  <2>2. p.event_timestamps \in Seq(Nat)
    BY DEF TimeWindowPolicy
  <2> QED BY <2>1, <2>2
<1>3. /\ r.allow = (Len(live) < p.max_events)
      /\ r.policy = [p EXCEPT !.event_timestamps = IF Len(live) < p.max_events THEN Append(live, at) ELSE live]
  BY <1>1, Parts DEF RegisterTimeWindow
<1>4. PICK s \in Seq(Nat) : /\ r.policy = [p EXCEPT !.event_timestamps = s]
                            /\ r.allow => s = Append(live, at)
                            /\ ~r.allow => s = live
  <2>1. CASE Len(live) < p.max_events
    <3>1. r.allow
      BY <1>3, <2>1, Zenon
    <3>2. r.policy = [p EXCEPT !.event_timestamps = Append(live, at)]
      BY <1>3, <2>1
    <3>3. Append(live, at) \in Seq(Nat)
      BY <1>2
    <3> QED BY <3>1, <3>2, <3>3
  <2>2. CASE ~(Len(live) < p.max_events)
    <3>1. ~r.allow
      BY <1>3, <2>2, Zenon
    <3>2. r.policy = [p EXCEPT !.event_timestamps = live]
      BY <1>3, <2>2
    <3> QED BY <1>2, <3>1, <3>2
  <2> QED BY <2>1, <2>2
<1>5. /\ r.policy \in TimeWindowPolicy
      /\ r.policy.max_events = p.max_events
      /\ r.policy.window_duration = p.window_duration
      /\ r.policy.event_timestamps = s
  BY <1>4 DEF TimeWindowPolicy
<1>6. Reset(r.policy) = ResetTimeWindow(r.policy) /\ Reset(p) = ResetTimeWindow(p)
  BY <1>1, <1>5, ResetOf DEF Policy, TimeWindowPolicy
<1>7. ResetTimeWindow(r.policy) = ResetTimeWindow(p)
  BY <1>4 DEF ResetTimeWindow, TimeWindowPolicy
<1>8. (Len(live) < p.max_events) \in BOOLEAN
  OBVIOUS
<1>9. r.allow \in BOOLEAN /\ (r.allow <=> Len(live) < p.max_events)
  BY <1>3, <1>8, Zenon
<1> QED BY <1>2, <1>4, <1>5, <1>6, <1>7, <1>9

LEMMA Products ==
    ASSUME NEW a \in Nat, NEW b \in Nat
    PROVE  a * b \in Nat
  OBVIOUS

\* The tokens of bucket p at a timestamp, before the event takes one.
Filled(p, at) ==
    LET amount == p.tokens + (at - p.last_refill) * p.refill_rate
    IN  IF p.last_refill = NoInstant \/ at < p.last_refill THEN p.tokens
        ELSE IF amount < p.capacity THEN amount ELSE p.capacity

LEMMA FilledTyped ==
    ASSUME NEW p \in TokenBucketPolicy, NEW at \in Nat
    PROVE  Filled(p, at) \in Nat
<1>1. /\ p.tokens \in Nat /\ p.capacity \in Nat /\ p.refill_rate \in Nat
      /\ p.last_refill \in Nat \cup {NoInstant}
  BY DEF TokenBucketPolicy
<1>2. CASE p.last_refill = NoInstant \/ at < p.last_refill
  BY <1>1, <1>2 DEF Filled
<1>3. CASE ~(p.last_refill = NoInstant \/ at < p.last_refill)
  <2>1. at - p.last_refill \in Nat
    BY <1>1, <1>3
  <2>2. (at - p.last_refill) * p.refill_rate \in Nat
    BY <1>1, <2>1, Products
  <2> QED BY <1>1, <1>3, <2>2 DEF Filled
<1> QED BY <1>2, <1>3

LEMMA RegisterBucket ==
    ASSUME NEW p \in TokenBucketPolicy, NEW at \in Nat, NEW r, r = RegisterEvent(p, at)
    PROVE  /\ r.policy \in TokenBucketPolicy /\ Reset(r.policy) = Reset(p)
           /\ r.policy.capacity = p.capacity /\ r.policy.refill_rate = p.refill_rate
           /\ r.policy.last_refill = at
           /\ r.allow \in BOOLEAN /\ (r.allow <=> Filled(p, at) >= TokenUnit)
           /\ r.allow => r.policy.tokens = Filled(p, at) - TokenUnit
           /\ ~r.allow => r.policy.tokens = Filled(p, at)
<1> DEFINE filled == Filled(p, at)
<1>1. p.kind = "token_bucket" /\ r = RegisterTokenBucket(p, at)
  BY DEF RegisterEvent, TokenBucketPolicy
<1>2. Refilled(p, at) = [p EXCEPT !.tokens = filled, !.last_refill = at]
  BY DEF Refilled, Filled
<1>3. filled \in Nat
  BY FilledTyped
<1> HIDE DEF filled
<1>4. /\ Refilled(p, at).tokens = filled
      /\ Refilled(p, at).last_refill = at
  BY <1>2 DEF TokenBucketPolicy
<1>5. /\ r.allow = (filled >= TokenUnit)
      /\ r.policy = [Refilled(p, at) EXCEPT !.tokens = IF filled >= TokenUnit THEN @ - TokenUnit ELSE @]
  BY <1>1, <1>4, Parts DEF RegisterTokenBucket
<1>6. PICK n \in Nat : /\ r.policy = [p EXCEPT !.tokens = n, !.last_refill = at]
                       /\ r.allow => n = filled - TokenUnit
                       /\ ~r.allow => n = filled
  <2>1. CASE filled >= TokenUnit
    <3>1. r.allow
      BY <1>5, <2>1, Zenon
    <3>2. filled - TokenUnit \in Nat
      BY <1>3, <2>1, TokenUnitAssumption
    <3>3. r.policy = [p EXCEPT !.tokens = filled - TokenUnit, !.last_refill = at]
      BY <1>2, <1>5, <2>1 DEF TokenBucketPolicy
    <3> QED BY <3>1, <3>2, <3>3
  <2>2. CASE ~(filled >= TokenUnit)
    <3>1. ~r.allow
      BY <1>5, <2>2, Zenon
    <3>2. r.policy = [p EXCEPT !.tokens = filled, !.last_refill = at]
      BY <1>2, <1>5, <2>2 DEF TokenBucketPolicy
    <3> QED BY <1>3, <3>1, <3>2
  <2> QED BY <2>1, <2>2
<1>7. /\ r.policy \in TokenBucketPolicy
      /\ r.policy.capacity = p.capacity /\ r.policy.refill_rate = p.refill_rate
      /\ r.policy.last_refill = at /\ r.policy.tokens = n
  BY <1>6 DEF TokenBucketPolicy
<1>8. Reset(r.policy) = ResetTokenBucket(r.policy) /\ Reset(p) = ResetTokenBucket(p)
  BY <1>1, <1>7, ResetOf DEF Policy, TokenBucketPolicy
<1>9. ResetTokenBucket(r.policy) = ResetTokenBucket(p)
  BY <1>6 DEF ResetTokenBucket, TokenBucketPolicy
<1>10. (filled >= TokenUnit) \in BOOLEAN
  OBVIOUS
<1>11. r.allow \in BOOLEAN /\ (r.allow <=> filled >= TokenUnit)
  BY <1>5, <1>10, Zenon
<1> QED BY <1>6, <1>7, <1>8, <1>9, <1>11 DEF filled

\* register_event keeps the parameters of a policy.
LEMMA Register ==
    ASSUME NEW p \in Policy, NEW at \in Nat, NEW r, r = RegisterEvent(p, at)
    PROVE  r.policy \in Policy /\ Reset(r.policy) = Reset(p) /\ r.allow \in BOOLEAN
<1>1. CASE p.kind = "count_based"
  BY <1>1, KindOf, RegisterCount DEF Policy
<1>2. CASE p.kind = "exponential_backoff"
  BY <1>2, KindOf, RegisterBackoff DEF Policy
<1>3. CASE p.kind = "time_window"
  BY <1>3, KindOf, RegisterWindow DEF Policy
<1>4. CASE p.kind = "token_bucket"
  BY <1>4, KindOf, RegisterBucket DEF Policy
<1> QED BY <1>1, <1>2, <1>3, <1>4, KindOf

-----------------------------------------------------------------------------
(* Types. *)

\* What the accessor does to the entry of s when register_event returns r.
Accessed(t, s, r) ==
    /\ s = event[t] /\ r = RegisterEvent(policy[s], now[t])
    /\ s \in Signatures /\ now[t] \in Nat /\ pc[t] = "access"
    /\ policy[s] \in Policy /\ Reset(policy[s]) = default_policy
    /\ r.policy \in Policy /\ Reset(r.policy) = default_policy /\ r.allow \in BOOLEAN
    /\ policy' = [policy EXCEPT ![s] = r.policy]
    /\ suppressed' = [suppressed EXCEPT ![s] = IF r.allow THEN @ ELSE @ + 1]
    /\ granted' = [granted EXCEPT ![s] = IF r.allow THEN Append(@, now[t]) ELSE @]
    /\ newest' = [newest EXCEPT ![s] = IF now[t] > @ THEN now[t] ELSE @]
    /\ overtaken' = IF now[t] < newest[s] THEN overtaken \cup {s} ELSE overtaken
    /\ decision' = [decision EXCEPT ![t] = r.allow]
    /\ pc' = [pc EXCEPT ![t] = "metric"]
    /\ UNCHANGED <<default_policy, metrics, clock, event, now, checks, forgotten, evictions, reader>>

LEMMA Accessor ==
    ASSUME TypeOK, LocalInv, NEW t \in Threads, RegisterAndRecord(t)
    PROVE  \E s \in Signatures : \E r : Accessed(t, s, r)
<1> DEFINE s == event[t]
           r == RegisterEvent(policy[s], now[t])
<1>1. s \in Signatures /\ now[t] \in Nat /\ pc[t] = "access"
  BY DEF TypeOK, LocalInv, RegisterAndRecord
<1>2. policy[s] \in Policy /\ Reset(policy[s]) = default_policy
  BY <1>1 DEF TypeOK
<1>3. r.policy \in Policy /\ Reset(r.policy) = default_policy /\ r.allow \in BOOLEAN
  BY <1>1, <1>2, Register
<1>4. Accessed(t, s, r)
  BY <1>1, <1>2, <1>3 DEF RegisterAndRecord, Goto, Accessed
<1> HIDE DEF s, r
<1> QED BY <1>1, <1>4

LEMMA Readings ==
    ASSUME NEW m \in MetricsSnapshot
    PROVE  /\ m.events_allowed \in Nat /\ m.events_suppressed \in Nat /\ m.signatures_evicted \in Nat
           /\ \A n \in Nat : /\ [m EXCEPT !.events_allowed = n] \in MetricsSnapshot
                            /\ [m EXCEPT !.events_suppressed = n] \in MetricsSnapshot
                            /\ [m EXCEPT !.signatures_evicted = n] \in MetricsSnapshot
  BY DEF MetricsSnapshot

LEMMA InitTyped == Init => TypeOK /\ LocalInv
<1> SUFFICES ASSUME Init PROVE TypeOK /\ LocalInv
  OBVIOUS
<1>1. default_policy \in Policies /\ default_policy \in Policy /\ Reset(default_policy) = default_policy
  BY PoliciesAssumption DEF Init
<1>2. granted \in [Signatures -> Seq(Nat)]
  <2>1. << >> \in Seq(Nat)
    OBVIOUS
  <2> QED BY <2>1 DEF Init
<1> QED BY <1>1, <1>2 DEF Init, TypeOK, LocalInv, NoReading, MetricsSnapshot

LEMMA TypeStep == TypeOK /\ LocalInv /\ MetricsMatchCounters /\ [Next]_vars => TypeOK' /\ LocalInv'
<1> SUFFICES ASSUME TypeOK, LocalInv, MetricsMatchCounters, [Next]_vars
             PROVE  TypeOK' /\ LocalInv'
  OBVIOUS
<1>0. Settled \in Nat
  BY DEF TypeOK, MetricsMatchCounters, MetricsSnapshot
<1> USE DEF entry, metrics, local, reader
<1>1. CASE Tick
  BY <1>1 DEF TypeOK, LocalInv, Tick
<1>2. ASSUME NEW t \in Threads, NEW s \in Signatures, CheckEvent(t, s)
      PROVE  TypeOK' /\ LocalInv'
  BY <1>2 DEF TypeOK, LocalInv, CheckEvent, Goto
<1>3. ASSUME NEW t \in Threads, FailOpen(t)
      PROVE  TypeOK' /\ LocalInv'
  BY <1>3 DEF TypeOK, LocalInv, FailOpen
<1>4. ASSUME NEW t \in Threads, RegisterAndRecord(t)
      PROVE  TypeOK' /\ LocalInv'
  <2>0. PICK s \in Signatures : \E r : Accessed(t, s, r)
    BY <1>4, Accessor
  <2>1. PICK r : Accessed(t, s, r)
    BY <2>0
  <2> USE <2>1 DEF Accessed
  <2>2. policy' \in [Signatures -> Policy] /\ \A x \in Signatures : Reset(policy'[x]) = default_policy'
    BY <2>1 DEF TypeOK
  <2>3. suppressed' \in [Signatures -> Nat]
    BY <2>1 DEF TypeOK
  <2>4. granted' \in [Signatures -> Seq(Nat)]
    <3>1. granted[s] \in Seq(Nat) /\ Append(granted[s], now[t]) \in Seq(Nat)
      BY <2>1 DEF TypeOK
    <3> QED BY <2>1, <3>1 DEF TypeOK
  <2>5. newest' \in [Signatures -> Nat] /\ overtaken' \in SUBSET Signatures
    BY <2>1 DEF TypeOK
  <2>6. decision' \in [Threads -> BOOLEAN] /\ pc' \in [Threads -> {"idle", "access", "metric"}]
    BY <2>1 DEF TypeOK
  <2>7. LocalInv'
    BY <2>1 DEF TypeOK, LocalInv
  <2> QED BY <2>1, <2>2, <2>3, <2>4, <2>5, <2>6, <2>7 DEF TypeOK
<1>5. ASSUME NEW t \in Threads, Panic(t)
      PROVE  TypeOK' /\ LocalInv'
  BY <1>5 DEF TypeOK, LocalInv, Panic, Goto
<1>6. ASSUME NEW t \in Threads, RecordMetric(t)
      PROVE  TypeOK' /\ LocalInv'
  BY <1>6 DEF TypeOK, LocalInv, RecordMetric, Goto
<1>7. ASSUME NEW s \in Signatures, Evict(s)
      PROVE  TypeOK' /\ LocalInv'
  <2>1. default_policy \in Policy /\ Reset(default_policy) = default_policy
    BY PoliciesAssumption DEF TypeOK
  <2>2. policy' \in [Signatures -> Policy] /\ \A x \in Signatures : Reset(policy'[x]) = default_policy'
    BY <1>7, <2>1 DEF TypeOK, Evict
  <2>3. granted' \in [Signatures -> Seq(Nat)]
    BY <1>7 DEF TypeOK, Evict
  <2>4. suppressed' \in [Signatures -> Nat] /\ newest' \in [Signatures -> Nat] /\ forgotten' \in Nat
    BY <1>7 DEF TypeOK, Evict
  <2> QED BY <1>7, <2>2, <2>3, <2>4 DEF TypeOK, LocalInv, Evict
<1>8. CASE Snapshot
  <2>1. snapshot' = [snapshot EXCEPT !.events_allowed = events_allowed]
    BY <1>8 DEF Snapshot
  <2>2. events_allowed \in Nat /\ snapshot \in MetricsSnapshot
    BY Readings DEF TypeOK
  <2>3. snapshot' \in MetricsSnapshot
    BY <2>1, <2>2, Readings
  <2> QED BY <1>8, <2>3, <1>0 DEF TypeOK, LocalInv, Snapshot, Reading
<1>9. CASE SnapshotSuppressed
  <2>1. snapshot' = [snapshot EXCEPT !.events_suppressed = events_suppressed]
    BY <1>9 DEF SnapshotSuppressed
  <2>2. events_suppressed \in Nat /\ snapshot \in MetricsSnapshot
    BY Readings DEF TypeOK
  <2>3. snapshot' \in MetricsSnapshot
    BY <2>1, <2>2, Readings
  <2> QED BY <1>9, <2>3 DEF TypeOK, LocalInv, SnapshotSuppressed, Reading
<1>10. CASE SnapshotEvicted
  BY <1>10 DEF TypeOK, LocalInv, SnapshotEvicted, Reading, MetricsSnapshot, NoReading
<1>11. CASE ResetMetrics
  <2>1. discarded' = [discarded EXCEPT !.events_allowed = discarded.events_allowed + events_allowed]
    BY <1>11 DEF ResetMetrics
  <2>2. discarded.events_allowed + events_allowed \in Nat /\ discarded \in MetricsSnapshot
    BY Readings DEF TypeOK
  <2>3. discarded' \in MetricsSnapshot
    BY <2>1, <2>2, Readings
  <2> QED BY <1>11, <2>3 DEF TypeOK, LocalInv, ResetMetrics, Reading
<1>12. CASE ResetSuppressed
  <2>1. discarded' = [discarded EXCEPT !.events_suppressed = discarded.events_suppressed + events_suppressed]
    BY <1>12 DEF ResetSuppressed
  <2>2. discarded.events_suppressed + events_suppressed \in Nat /\ discarded \in MetricsSnapshot
    BY Readings DEF TypeOK
  <2>3. discarded' \in MetricsSnapshot
    BY <2>1, <2>2, Readings
  <2> QED BY <1>12, <2>3 DEF TypeOK, LocalInv, ResetSuppressed, Reading
<1>13. CASE ResetEvicted
  <2>1. discarded' = [discarded EXCEPT !.signatures_evicted = discarded.signatures_evicted + signatures_evicted]
    BY <1>13 DEF ResetEvicted
  <2>2. discarded.signatures_evicted + signatures_evicted \in Nat /\ discarded \in MetricsSnapshot
    BY Readings DEF TypeOK
  <2>3. discarded' \in MetricsSnapshot
    BY <2>1, <2>2, Readings
  <2> QED BY <1>13, <2>3 DEF TypeOK, LocalInv, ResetEvicted, Reading
<1>14. CASE UNCHANGED vars
  BY <1>14 DEF vars, TypeOK, LocalInv
<1> QED BY <1>1, <1>2, <1>3, <1>4, <1>5, <1>6, <1>7, <1>8, <1>9, <1>10, <1>11, <1>12, <1>13, <1>14 DEF Next

-----------------------------------------------------------------------------
(* The metrics. *)

\* Suppressed events that are not counted yet.
Pending == {t \in Threads : pc[t] = "metric" /\ ~decision[t]}

LEMMA Members ==
    ASSUME NEW S, S \subseteq Threads
    PROVE  /\ IsFiniteSet(S) /\ Cardinality(S) \in Nat
           /\ \A t : t \notin S => Cardinality(S \cup {t}) = Cardinality(S) + 1
           /\ \A t : t \in S => Cardinality(S \ {t}) = Cardinality(S) - 1
<1>1. IsFiniteSet(S)
  BY FiniteAssumption, FS_Subset
<1> QED BY <1>1, FS_CardinalityType, FS_AddElement, FS_RemoveElement

\* The parts of MetricsMatchCounters.
Matches(total) ==
    /\ events_suppressed + discarded.events_suppressed + Cardinality(Pending) = forgotten + total
    /\ events_allowed + events_suppressed + discarded.events_allowed + discarded.events_suppressed
       = checks - Cardinality(InFlight)

LEMMA InitMatches == Init => MetricsMatchCounters
<1> SUFFICES ASSUME Init PROVE MetricsMatchCounters
  OBVIOUS
<1>1. Total(suppressed, Signatures) = 0
  <2>1. suppressed \in [Signatures -> Int] /\ \A s \in Signatures : suppressed[s] = 0
    <3>1. suppressed = [s \in Signatures |-> 0]
      BY DEF Init
    <3> QED BY <3>1
  <2> QED BY <2>1, TotalZero, FiniteAssumption
<1>2. Pending = {} /\ InFlight = {}
  BY DEF Init, Pending, InFlight
<1>3. Cardinality({}) = 0
  BY FS_EmptySet
<1>4. /\ events_allowed = 0 /\ events_suppressed = 0 /\ checks = 0 /\ forgotten = 0
      /\ discarded.events_allowed = 0 /\ discarded.events_suppressed = 0
  BY DEF Init, NoReading
<1>5. Matches(Total(suppressed, Signatures))
  BY <1>1, <1>2, <1>3, <1>4 DEF Matches
<1> QED BY <1>5 DEF Matches, MetricsMatchCounters, Settled, Pending

LEMMA MatchStep == TypeOK /\ LocalInv /\ MetricsMatchCounters /\ [Next]_vars => MetricsMatchCounters'
<1> SUFFICES ASSUME TypeOK, LocalInv, MetricsMatchCounters, [Next]_vars
             PROVE  MetricsMatchCounters'
  OBVIOUS
<1> DEFINE total == Total(suppressed, Signatures)
<1>a. Matches(total)
  BY DEF Matches, MetricsMatchCounters, Settled, Pending
<1>b. ASSUME Matches(total)' PROVE MetricsMatchCounters'
  BY <1>b DEF Matches, MetricsMatchCounters, Settled, Pending
<1>c. /\ Pending \subseteq Threads /\ InFlight \subseteq Threads
      /\ Cardinality(Pending) \in Nat /\ Cardinality(InFlight) \in Nat
  BY Members DEF Pending, InFlight
<1>d. /\ events_allowed \in Nat /\ events_suppressed \in Nat /\ checks \in Nat /\ forgotten \in Nat
      /\ discarded.events_allowed \in Nat /\ discarded.events_suppressed \in Nat
  BY DEF TypeOK, MetricsSnapshot
<1>e. ASSUME NEW s \in Signatures, NEW f \in [Signatures -> Nat], NEW n \in Nat,
             f = [suppressed EXCEPT ![s] = n]
      PROVE  total \in Int /\ Total(f, Signatures) = total + n - suppressed[s]
  <2>1. /\ suppressed \in [Signatures -> Int] /\ f \in [Signatures -> Int] /\ f[s] = n
        /\ \A x \in Signatures \ {s} : f[x] = suppressed[x]
    BY <1>e DEF TypeOK
  <2> QED BY <2>1, TotalChange, FiniteAssumption
<1> HIDE DEF total
<1> SUFFICES Matches(total)'
  BY <1>b
<1> USE DEF Matches, entry, metrics, local, reader
<1>1. CASE Tick
  <2>1. Pending' = Pending /\ InFlight' = InFlight /\ total' = total
    BY <1>1 DEF Tick, Pending, InFlight, total
  <2> QED BY <1>1, <1>a, <2>1 DEF Tick
<1>2. ASSUME NEW t \in Threads, NEW s \in Signatures, CheckEvent(t, s)
      PROVE  Matches(total)'
  <2>1. Pending' = Pending /\ total' = total
    BY <1>2 DEF CheckEvent, Goto, Pending, total, TypeOK
  <2>2. InFlight' = InFlight \cup {t} /\ t \notin InFlight
    BY <1>2 DEF CheckEvent, Goto, InFlight, TypeOK
  <2>3. Cardinality(InFlight') = Cardinality(InFlight) + 1
    BY <1>c, <2>2, Members
  <2>4. /\ checks' = checks + 1
        /\ UNCHANGED <<events_allowed, events_suppressed, forgotten, discarded>>
    BY <1>2 DEF CheckEvent
  <2> QED BY <1>a, <1>c, <1>d, <2>1, <2>3, <2>4
<1>3. ASSUME NEW t \in Threads, FailOpen(t)
      PROVE  Matches(total)'
  <2>1. Pending' = Pending /\ InFlight' = InFlight /\ total' = total
    BY <1>3 DEF FailOpen, Pending, InFlight, total
  <2>2. /\ checks' = checks + 1 /\ events_allowed' = events_allowed + 1
        /\ UNCHANGED <<events_suppressed, forgotten, discarded>>
    BY <1>3 DEF FailOpen
  <2>3. events_allowed' + events_suppressed' + discarded.events_allowed' + discarded.events_suppressed'
        = (events_allowed + events_suppressed + discarded.events_allowed + discarded.events_suppressed) + 1
    BY <1>d, <2>2
  <2>4. checks' - Cardinality(InFlight)' = (checks - Cardinality(InFlight)) + 1
    BY <1>c, <1>d, <2>1, <2>2
  <2> QED BY <1>a, <2>1, <2>2, <2>3, <2>4
<1>4. ASSUME NEW t \in Threads, RegisterAndRecord(t)
      PROVE  Matches(total)'
  <2>0. PICK s \in Signatures : \E r : Accessed(t, s, r)
    BY <1>4, Accessor
  <2>1. PICK r : Accessed(t, s, r)
    BY <2>0
  <2>2. InFlight' = InFlight
    BY <2>1 DEF Accessed, InFlight, TypeOK
  <2>3. CASE r.allow
    <3>1. Pending' = Pending
      BY <2>1, <2>3 DEF Accessed, Pending, TypeOK
    <3>2. suppressed' = suppressed
      BY <2>1, <2>3 DEF Accessed, TypeOK
    <3> QED BY <2>1, <2>2, <3>1, <3>2, <1>a DEF Accessed, total
  <2>4. CASE ~r.allow
    <3>1. Pending' = Pending \cup {t} /\ t \notin Pending
      BY <2>1, <2>4 DEF Accessed, Pending, TypeOK
    <3>2. Cardinality(Pending') = Cardinality(Pending) + 1
      BY <1>c, <3>1, Members
    <3>3. /\ suppressed' = [suppressed EXCEPT ![s] = suppressed[s] + 1]
          /\ suppressed[s] \in Nat /\ suppressed' \in [Signatures -> Nat]
      BY <2>1, <2>4 DEF Accessed, TypeOK
    <3>4. total \in Int /\ total' = total + 1
      <4>1. total \in Int /\ Total(suppressed', Signatures) = total + (suppressed[s] + 1) - suppressed[s]
        BY <1>e, <3>3
      <4> QED BY <3>3, <4>1 DEF total
    <3> QED BY <2>1, <2>2, <3>2, <3>4, <1>a, <1>c, <1>d DEF Accessed
  <2> QED BY <2>3, <2>4
<1>5. ASSUME NEW t \in Threads, Panic(t)
      PROVE  Matches(total)'
  <2>1. Pending' = Pending /\ InFlight' = InFlight /\ total' = total
    BY <1>5 DEF Panic, Goto, Pending, InFlight, total, TypeOK
  <2> QED BY <1>5, <1>a, <2>1 DEF Panic
<1>6. ASSUME NEW t \in Threads, RecordMetric(t)
      PROVE  Matches(total)'
  <2>1. InFlight' = InFlight \ {t} /\ t \in InFlight
    BY <1>6 DEF RecordMetric, Goto, InFlight, TypeOK
  <2>2. Cardinality(InFlight') = Cardinality(InFlight) - 1
    BY <1>c, <2>1, Members
  <2>3. total' = total /\ UNCHANGED <<forgotten, checks, discarded>>
    BY <1>6 DEF RecordMetric, total
  <2>4. CASE decision[t]
    <3>1. Pending' = Pending
      BY <1>6, <2>4 DEF RecordMetric, Goto, Pending, TypeOK
    <3>2. events_allowed' = events_allowed + 1 /\ events_suppressed' = events_suppressed
      BY <1>6, <2>4 DEF RecordMetric
    <3> QED BY <1>a, <1>c, <1>d, <2>2, <2>3, <3>1, <3>2
  <2>5. CASE ~decision[t]
    <3>1. Pending' = Pending \ {t} /\ t \in Pending
      BY <1>6, <2>5 DEF RecordMetric, Goto, Pending, TypeOK
    <3>2. Cardinality(Pending') = Cardinality(Pending) - 1
      BY <1>c, <3>1, Members
    <3>3. events_allowed' = events_allowed /\ events_suppressed' = events_suppressed + 1
      BY <1>6, <2>5 DEF RecordMetric
    <3> QED BY <1>a, <1>c, <1>d, <2>2, <2>3, <3>2, <3>3
  <2> QED BY <2>4, <2>5
<1>7. ASSUME NEW s \in Signatures, Evict(s)
      PROVE  Matches(total)'
  <2>1. Pending' = Pending /\ InFlight' = InFlight
    BY <1>7 DEF Evict, Pending, InFlight
  <2>2. /\ suppressed' = [suppressed EXCEPT ![s] = 0]
        /\ suppressed[s] \in Nat /\ suppressed' \in [Signatures -> Nat]
        /\ forgotten' = forgotten + suppressed[s]
        /\ UNCHANGED <<events_allowed, events_suppressed, checks, discarded>>
    BY <1>7 DEF Evict, TypeOK
  <2>3. total \in Int /\ total' = total - suppressed[s]
    <3>1. total \in Int /\ Total(suppressed', Signatures) = total + 0 - suppressed[s]
      BY <1>e, <2>2
    <3> QED BY <2>2, <3>1 DEF total
  <2> QED BY <1>a, <1>c, <1>d, <2>1, <2>2, <2>3
<1>8. ASSUME UNCHANGED <<entry, pc, local, checks, forgotten>>,
             events_allowed' + discarded.events_allowed' = events_allowed + discarded.events_allowed,
             events_suppressed' + discarded.events_suppressed' = events_suppressed + discarded.events_suppressed,
             discarded' \in MetricsSnapshot, events_allowed' \in Nat, events_suppressed' \in Nat
      PROVE  Matches(total)'
  <2>1. Pending' = Pending /\ InFlight' = InFlight /\ total' = total
    BY <1>8 DEF Pending, InFlight, total
  <2>2. discarded.events_allowed' \in Nat /\ discarded.events_suppressed' \in Nat
    BY <1>8, Readings
  <2>3. events_suppressed' + discarded.events_suppressed' + Cardinality(Pending)' = forgotten' + total'
    BY <1>a, <1>c, <1>d, <1>8, <2>1, <2>2
  <2>4. events_allowed' + events_suppressed' + discarded.events_allowed' + discarded.events_suppressed'
        = checks' - Cardinality(InFlight)'
    <3>1. events_allowed' + events_suppressed' + discarded.events_allowed' + discarded.events_suppressed'
          = (events_allowed' + discarded.events_allowed') + (events_suppressed' + discarded.events_suppressed')
      BY <1>8, <2>2
    <3>2. events_allowed + events_suppressed + discarded.events_allowed + discarded.events_suppressed
          = (events_allowed + discarded.events_allowed) + (events_suppressed + discarded.events_suppressed)
      BY <1>d
    <3> QED BY <1>a, <1>8, <2>1, <3>1, <3>2
  <2> QED BY <2>3, <2>4
<1>9. TypeOK'
  BY TypeStep
<1>10. CASE Snapshot \/ SnapshotSuppressed \/ SnapshotEvicted
  <2>1. UNCHANGED <<entry, metrics, pc, local, checks, forgotten, discarded>>
    BY <1>10 DEF Snapshot, SnapshotSuppressed, SnapshotEvicted, Reading
  <2> QED BY <1>8, <1>9, <2>1 DEF TypeOK
<1>11. CASE ResetMetrics
  <2>1. /\ discarded.events_allowed' = discarded.events_allowed + events_allowed
        /\ discarded.events_suppressed' = discarded.events_suppressed
    BY <1>11 DEF ResetMetrics, TypeOK, MetricsSnapshot
  <2>2. /\ UNCHANGED <<entry, pc, local, checks, forgotten, events_suppressed>>
        /\ events_allowed' = 0
    BY <1>11 DEF ResetMetrics, Reading
  <2> QED BY <1>8, <1>9, <1>d, <2>1, <2>2 DEF TypeOK
<1>12. CASE ResetSuppressed
  <2>1. /\ discarded.events_suppressed' = discarded.events_suppressed + events_suppressed
        /\ discarded.events_allowed' = discarded.events_allowed
    BY <1>12 DEF ResetSuppressed, TypeOK, MetricsSnapshot
  <2>2. /\ UNCHANGED <<entry, pc, local, checks, forgotten, events_allowed>>
        /\ events_suppressed' = 0
    BY <1>12 DEF ResetSuppressed, Reading
  <2> QED BY <1>8, <1>9, <1>d, <2>1, <2>2 DEF TypeOK
<1>13. CASE ResetEvicted
  <2>1. /\ discarded.events_suppressed' = discarded.events_suppressed
        /\ discarded.events_allowed' = discarded.events_allowed
    BY <1>13 DEF ResetEvicted, TypeOK, MetricsSnapshot
  <2>2. UNCHANGED <<entry, pc, local, checks, forgotten, events_allowed, events_suppressed>>
    BY <1>13 DEF ResetEvicted, Reading
  <2> QED BY <1>8, <1>9, <1>d, <2>1, <2>2 DEF TypeOK
<1>14. CASE UNCHANGED vars
  <2>1. UNCHANGED <<entry, metrics, pc, local, checks, forgotten, discarded>>
    BY <1>14 DEF vars
  <2> QED BY <1>8, <1>9, <2>1 DEF TypeOK
<1> QED BY <1>1, <1>2, <1>3, <1>4, <1>5, <1>6, <1>7, <1>10, <1>11, <1>12, <1>13, <1>14 DEF Next

CountersInv == TypeOK /\ LocalInv /\ MetricsMatchCounters

LEMMA CountersKept == Spec => []CountersInv
<1>1. Init => CountersInv
  BY InitTyped, InitMatches DEF CountersInv
<1>2. CountersInv /\ [Next]_vars => CountersInv'
  BY TypeStep, MatchStep DEF CountersInv
<1> QED BY <1>1, <1>2, PTL DEF Spec

\* Every state is of the types declared: the number of events settled is a
\* natural because the metrics account for them (check_event).
THEOREM TypeCorrect == Spec => []TypeOK
<1>1. CountersInv => TypeOK
  BY DEF CountersInv
<1> QED BY <1>1, CountersKept, PTL

\* The metrics and the counters of the entries never disagree, whatever
\* panics, is bypassed, evicted or reset (check_event, Metrics::reset).
THEOREM MetricsAgree == Spec => []MetricsMatchCounters
<1>1. CountersInv => MetricsMatchCounters
  BY DEF CountersInv
<1> QED BY <1>1, CountersKept, PTL

-----------------------------------------------------------------------------
(* Snapshots. *)

LEMMA SnapshotStep == CountersInv /\ SnapshotInv /\ [Next]_vars => SnapshotInv'
<1> SUFFICES ASSUME TypeOK, LocalInv, MetricsMatchCounters, SnapshotInv, [Next]_vars
             PROVE  SnapshotInv'
  BY DEF CountersInv
<1> USE DEF entry, metrics, local, reader
<1>a. /\ events_allowed \in Nat /\ events_suppressed \in Nat /\ settled \in Nat
      /\ discarded \in MetricsSnapshot /\ snapshot \in MetricsSnapshot
  BY DEF TypeOK
<1>b. /\ discarded.events_allowed \in Nat /\ discarded.events_suppressed \in Nat
      /\ snapshot.events_allowed \in Nat /\ snapshot.events_suppressed \in Nat
  BY <1>a, Readings
<1>1. ASSUME UNCHANGED reader, events_allowed' \in Nat, events_suppressed' \in Nat,
             events_allowed <= events_allowed', events_suppressed <= events_suppressed'
      PROVE  SnapshotInv'
  BY <1>1, <1>a, <1>b DEF SnapshotInv
<1>2. CASE Tick \/ (\E s \in Signatures : Evict(s))
  <2>1. UNCHANGED <<reader, events_allowed, events_suppressed>>
    BY <1>2 DEF Tick, Evict
  <2> QED BY <1>1, <1>a, <2>1
<1>3. ASSUME NEW t \in Threads,
             \/ \E s \in Signatures : CheckEvent(t, s)
             \/ FailOpen(t) \/ RegisterAndRecord(t) \/ Panic(t) \/ RecordMetric(t)
      PROVE  SnapshotInv'
  <2>1. /\ UNCHANGED reader
        /\ events_allowed' \in {events_allowed, events_allowed + 1}
        /\ events_suppressed' \in {events_suppressed, events_suppressed + 1}
    BY <1>3 DEF CheckEvent, FailOpen, RegisterAndRecord, Panic, RecordMetric
  <2> QED BY <1>1, <1>a, <2>1
<1>4. CASE Snapshot
  <2>1. /\ monitor' = "read_suppressed" /\ settled' = Settled
        /\ snapshot'.events_allowed = events_allowed
        /\ UNCHANGED <<metrics, discarded>>
    BY <1>4, <1>a DEF Snapshot, Reading, MetricsSnapshot
  <2>2. Settled = events_allowed + events_suppressed + discarded.events_allowed + discarded.events_suppressed
    BY DEF MetricsMatchCounters
  <2> QED BY <2>1, <2>2, <1>a, <1>b DEF SnapshotInv
<1>5. CASE SnapshotSuppressed
  <2>1. /\ monitor = "read_suppressed" /\ monitor' = "read_evicted"
        /\ snapshot'.events_allowed = snapshot.events_allowed
        /\ snapshot'.events_suppressed = events_suppressed
        /\ UNCHANGED <<metrics, discarded, settled>>
    BY <1>5, <1>a DEF SnapshotSuppressed, Reading, MetricsSnapshot
  <2> QED BY <2>1, <1>a, <1>b DEF SnapshotInv
<1>6. CASE SnapshotEvicted \/ ResetMetrics \/ ResetSuppressed \/ ResetEvicted
  <2>1. monitor' \in {"idle", "zero_suppressed", "zero_evicted"}
    BY <1>6 DEF SnapshotEvicted, ResetMetrics, ResetSuppressed, ResetEvicted, Reading
  <2> QED BY <2>1 DEF SnapshotInv
<1>7. CASE UNCHANGED vars
  <2>1. UNCHANGED <<reader, events_allowed, events_suppressed>>
    BY <1>7 DEF vars
  <2> QED BY <1>1, <1>a, <2>1
<1> QED BY <1>2, <1>3, <1>4, <1>5, <1>6, <1>7 DEF Next

\* A snapshot whose counters are loaded one at a time has the total of a
\* moment while it was taken (Metrics::snapshot).
THEOREM SnapshotsAgree == Spec => SnapshotConsistent
<1>1. Init => SnapshotInv
  BY DEF Init, SnapshotInv
<1>2. SnapshotInv /\ CountersInv =>
        (monitor = "read_evicted" =>
            LET total == snapshot.events_allowed + snapshot.events_suppressed
                before == discarded.events_allowed + discarded.events_suppressed
            IN  settled <= total + before /\ total + before <= Settled)
  <2> SUFFICES ASSUME SnapshotInv, CountersInv, monitor = "read_evicted"
               PROVE  /\ settled <= (snapshot.events_allowed + snapshot.events_suppressed)
                                        + (discarded.events_allowed + discarded.events_suppressed)
                      /\ (snapshot.events_allowed + snapshot.events_suppressed)
                                + (discarded.events_allowed + discarded.events_suppressed) <= Settled
    OBVIOUS
  <2>1. /\ events_allowed \in Nat /\ events_suppressed \in Nat
        /\ discarded \in MetricsSnapshot /\ snapshot \in MetricsSnapshot
    BY DEF CountersInv, TypeOK
  <2>2. /\ discarded.events_allowed \in Nat /\ discarded.events_suppressed \in Nat
        /\ snapshot.events_allowed \in Nat /\ snapshot.events_suppressed \in Nat
    BY <2>1, Readings
  <2>3. Settled = events_allowed + events_suppressed + discarded.events_allowed + discarded.events_suppressed
    BY DEF CountersInv, MetricsMatchCounters
  <2> QED BY <2>1, <2>2, <2>3 DEF SnapshotInv
<1> QED BY <1>1, <1>2, CountersKept, SnapshotStep, PTL DEF Spec, SnapshotConsistent

-----------------------------------------------------------------------------
(* Policies that count. *)

\* f is PowerOfTwo up to n.
Powers(f, n) ==
    /\ f \in [0 .. n -> Nat]
    /\ \A i \in 0 .. n : f[i] = IF i = 0 THEN 1 ELSE 2 * f[i - 1]

LEMMA PowersExist == ASSUME NEW n \in Nat PROVE \E f : Powers(f, n)
<1> DEFINE bad == {m \in Nat : ~(\E f : Powers(f, m))}
<1> SUFFICES ASSUME bad # {} PROVE FALSE
  OBVIOUS
<1>1. PICK m \in bad : \A k \in bad : m <= k
  <2>1. bad \subseteq Nat
    OBVIOUS
  <2> HIDE DEF bad
  <2> QED BY <2>1, Least
<1>2. CASE m = 0
  <2>1. Powers([i \in 0 .. 0 |-> 1], 0)
    BY DEF Powers
  <2> QED BY <1>1, <1>2, <2>1
<1>3. CASE m # 0
  <2>1. m - 1 \in Nat /\ m \in Nat /\ m - 1 \notin bad
    BY <1>1, <1>3
  <2>2. PICK f : Powers(f, m - 1)
    BY <2>1
  <2> DEFINE g == [i \in 0 .. m |-> IF i = m THEN 2 * f[m - 1] ELSE f[i]]
  <2>3. \A i \in 0 .. (m - 1) : f[i] \in Nat
    BY <2>2 DEF Powers
  <2>4. g \in [0 .. m -> Nat]
    <3>1. \A i \in 0 .. m : i = m \/ i \in 0 .. (m - 1)
      BY <2>1
    <3>2. m - 1 \in 0 .. (m - 1) /\ 2 * f[m - 1] \in Nat
      BY <2>1, <2>3
    <3> QED BY <2>3, <3>1, <3>2
  <2>5. ASSUME NEW i \in 0 .. m PROVE g[i] = IF i = 0 THEN 1 ELSE 2 * g[i - 1]
    <3>1. CASE i = m
      <4>1. m - 1 \in 0 .. m /\ m - 1 # m
        BY <2>1
      <4> QED BY <1>3, <3>1, <4>1
    <3>2. CASE i # m
      <4>1. i \in 0 .. (m - 1) /\ (i # 0 => i - 1 \in 0 .. (m - 1) /\ i - 1 \in 0 .. m /\ i - 1 # m)
        BY <2>1, <3>2
      <4>2. f[i] = IF i = 0 THEN 1 ELSE 2 * f[i - 1]
        BY <2>2, <4>1 DEF Powers
      <4> QED BY <3>2, <4>1, <4>2
    <3> QED BY <3>1, <3>2
  <2>6. Powers(g, m)
    BY <2>4, <2>5 DEF Powers
  <2> QED BY <1>1, <2>6
<1> QED BY <1>2, <1>3

LEMMA PowersUnique ==
    ASSUME NEW n \in Nat, NEW m \in Nat, n <= m, NEW f, Powers(f, n), NEW g, Powers(g, m)
    PROVE  \A i \in 0 .. n : f[i] = g[i]
<1> DEFINE bad == {i \in 0 .. n : f[i] # g[i]}
<1> SUFFICES ASSUME bad # {} PROVE FALSE
  OBVIOUS
<1>1. PICK i \in bad : \A k \in bad : i <= k
  <2>1. bad \subseteq Nat
    OBVIOUS
  <2> HIDE DEF bad
  <2> QED BY <2>1, Least
<1>2. i \in 0 .. n /\ i \in 0 .. m /\ f[i] # g[i]
  BY <1>1
<1>3. i # 0
  BY <1>2 DEF Powers
<1>4. i - 1 \in 0 .. n /\ i - 1 \notin bad
  <2>1. i - 1 \in 0 .. n /\ ~(i <= i - 1)
    BY <1>2, <1>3
  <2> QED BY <1>1, <2>1
<1>5. f[i - 1] = g[i - 1]
  BY <1>4
<1>6. f[i] = 2 * f[i - 1] /\ g[i] = 2 * g[i - 1]
  BY <1>2, <1>3 DEF Powers
<1> QED BY <1>2, <1>5, <1>6

LEMMA PowerIs ==
    /\ PowerOfTwo \in [Nat -> Nat]
    /\ \A i \in Nat : PowerOfTwo[i] = IF i = 0 THEN 1 ELSE 2 * PowerOfTwo[i - 1]
<1> DEFINE upto(n) == CHOOSE f : Powers(f, n)
           p == [n \in Nat |-> upto(n)[n]]
<1>1. \A n \in Nat : Powers(upto(n), n)
  BY PowersExist
<1> HIDE DEF upto
<1>2. p \in [Nat -> Nat]
  <2>1. ASSUME NEW n \in Nat PROVE upto(n)[n] \in Nat
    <3>1. Powers(upto(n), n) /\ n \in 0 .. n
      BY <1>1
    <3> QED BY <3>1 DEF Powers
  <2> QED BY <2>1
<1>3. ASSUME NEW i \in Nat PROVE p[i] = IF i = 0 THEN 1 ELSE 2 * p[i - 1]
  <2>1. upto(i)[i] = IF i = 0 THEN 1 ELSE 2 * upto(i)[i - 1]
    <3>1. Powers(upto(i), i) /\ i \in 0 .. i
      BY <1>1
    <3> QED BY <3>1 DEF Powers
  <2>2. CASE i = 0
    BY <2>1, <2>2
  <2>3. CASE i # 0
    <3>1. i - 1 \in Nat /\ i - 1 <= i /\ i - 1 \in 0 .. (i - 1)
      BY <2>3
    <3>2. Powers(upto(i), i) /\ Powers(upto(i - 1), i - 1)
      BY <1>1, <3>1
    <3>3. upto(i - 1)[i - 1] = upto(i)[i - 1]
      BY <3>1, <3>2, PowersUnique
    <3>4. p[i] = upto(i)[i] /\ p[i - 1] = upto(i - 1)[i - 1]
      BY <3>1
    <3> QED BY <2>1, <2>3, <3>3, <3>4
  <2> QED BY <2>2, <2>3
<1>4. p = [i \in Nat |-> IF i = 0 THEN 1 ELSE 2 * p[i - 1]]
  BY <1>3
<1> HIDE DEF p
<1>5. PowerOfTwo = [i \in Nat |-> IF i = 0 THEN 1 ELSE 2 * PowerOfTwo[i - 1]]
  BY <1>4 DEF PowerOfTwo
<1>6. \A i \in Nat : PowerOfTwo[i] = IF i = 0 THEN 1 ELSE 2 * PowerOfTwo[i - 1]
  BY <1>5
<1>7. ASSUME NEW i \in Nat PROVE PowerOfTwo[i] \in Nat
  <2> DEFINE bad == {m \in Nat : PowerOfTwo[m] \notin Nat}
  <2> SUFFICES ASSUME bad # {} PROVE FALSE
    OBVIOUS
  <2>1. PICK m \in bad : \A k \in bad : m <= k
    <3>1. bad \subseteq Nat
      OBVIOUS
    <3> HIDE DEF bad
    <3> QED BY <3>1, Least
  <2>2. PowerOfTwo[m] = IF m = 0 THEN 1 ELSE 2 * PowerOfTwo[m - 1]
    BY <1>6, <2>1
  <2>3. m # 0
    BY <2>1, <2>2
  <2>4. m - 1 \in Nat /\ ~(m <= m - 1)
    BY <2>1, <2>3
  <2>5. PowerOfTwo[m - 1] \in Nat
    BY <2>1, <2>4
  <2> QED BY <2>1, <2>2, <2>3, <2>5
<1> QED BY <1>5, <1>6, <1>7

\* Powers grow, and faster than their exponents.
LEMMA PowersGrow ==
    /\ \A i \in Nat : PowerOfTwo[i] > i
    /\ \A i, j \in Nat : i <= j => PowerOfTwo[i] <= PowerOfTwo[j]
<1>1. ASSUME NEW i \in Nat PROVE PowerOfTwo[i] > i
  <2> DEFINE bad == {m \in Nat : ~(PowerOfTwo[m] > m)}
  <2> SUFFICES ASSUME bad # {} PROVE FALSE
    OBVIOUS
  <2>1. PICK m \in bad : \A k \in bad : m <= k
    <3>1. bad \subseteq Nat
      OBVIOUS
    <3> HIDE DEF bad
    <3> QED BY <3>1, Least
  <2>2. PowerOfTwo[m] = IF m = 0 THEN 1 ELSE 2 * PowerOfTwo[m - 1]
    BY PowerIs, <2>1
  <2>3. m # 0
    BY <2>1, <2>2
  <2>4. m - 1 \in Nat /\ ~(m <= m - 1)
    BY <2>1, <2>3
  <2>5. PowerOfTwo[m - 1] > m - 1 /\ PowerOfTwo[m - 1] \in Nat
    BY <2>1, <2>4, PowerIs
  <2> QED BY <2>1, <2>2, <2>3, <2>5
<1>2. ASSUME NEW i \in Nat, NEW j \in Nat, i <= j PROVE PowerOfTwo[i] <= PowerOfTwo[j]
  <2> DEFINE bad == {m \in Nat : i <= m /\ ~(PowerOfTwo[i] <= PowerOfTwo[m])}
  <2> SUFFICES ASSUME bad # {} PROVE FALSE
    BY <1>2
  <2>1. PICK m \in bad : \A k \in bad : m <= k
    <3>1. bad \subseteq Nat
      OBVIOUS
    <3> HIDE DEF bad
    <3> QED BY <3>1, Least
  <2>2. m \in Nat /\ i <= m /\ ~(PowerOfTwo[i] <= PowerOfTwo[m]) /\ PowerOfTwo[i] \in Nat
    BY <2>1, PowerIs
  <2>3. m # i
    BY <2>2
  <2>4. m - 1 \in Nat /\ i <= m - 1 /\ ~(m <= m - 1) /\ m # 0
    BY <2>2, <2>3
  <2>5. PowerOfTwo[i] <= PowerOfTwo[m - 1] /\ PowerOfTwo[m - 1] \in Nat
    BY <2>1, <2>4, PowerIs
  <2>6. PowerOfTwo[m] = 2 * PowerOfTwo[m - 1]
    BY <2>2, <2>4, PowerIs
  <2> QED BY <2>2, <2>5, <2>6
<1> QED BY <1>1, <1>2

\* What a constructor has returned has seen no event.
LEMMA NewPolicy ==
    ASSUME NEW p \in Policies
    PROVE  /\ p \in Policy
           /\ p.kind = "count_based" => p.current_count = 0
           /\ p.kind = "time_window" => p.event_timestamps = << >>
           /\ p.kind = "exponential_backoff" => p.event_count = 0 /\ p.next_allowed = 1
           /\ p.kind = "token_bucket" => p.tokens = p.capacity /\ p.last_refill = NoInstant
<1>1. p \in Policy /\ Reset(p) = p
  BY PoliciesAssumption
<1>2. p.kind = "count_based" => p.current_count = 0
  BY <1>1, KindOf, ResetOf DEF ResetCountBased, CountBasedPolicy
<1>3. p.kind = "time_window" => p.event_timestamps = << >>
  BY <1>1, KindOf, ResetOf DEF ResetTimeWindow, TimeWindowPolicy
<1>4. ASSUME p.kind = "exponential_backoff" PROVE p.event_count = 0 /\ p.next_allowed = 1
  <2>1. p \in ExponentialBackoffPolicy /\ p = [p EXCEPT !.event_count = 0, !.next_allowed = 1]
    BY <1>1, <1>4, KindOf, ResetOf DEF ResetExponentialBackoff
  <2> QED BY <2>1 DEF ExponentialBackoffPolicy
<1>5. p.kind = "token_bucket" => p.tokens = p.capacity /\ p.last_refill = NoInstant
  BY <1>1, KindOf, ResetOf DEF ResetTokenBucket, TokenBucketPolicy
<1> QED BY <1>1, <1>2, <1>3, <1>4, <1>5

\* reset keeps the kind and the parameters.
LEMMA Parameters ==
    ASSUME NEW p \in Policy, NEW d \in Policy, Reset(p) = d
    PROVE  /\ p.kind = d.kind
           /\ p.kind = "count_based" => p.max_count = d.max_count
           /\ p.kind = "time_window" =>
                p.max_events = d.max_events /\ p.window_duration = d.window_duration
           /\ p.kind = "token_bucket" => p.capacity = d.capacity /\ p.refill_rate = d.refill_rate
<1>1. p.kind = "count_based" => p.kind = d.kind /\ p.max_count = d.max_count
  BY KindOf, ResetOf DEF ResetCountBased, CountBasedPolicy
<1>2. p.kind = "time_window" =>
        p.kind = d.kind /\ p.max_events = d.max_events /\ p.window_duration = d.window_duration
  BY KindOf, ResetOf DEF ResetTimeWindow, TimeWindowPolicy
<1>3. p.kind = "exponential_backoff" => p.kind = d.kind
  BY KindOf, ResetOf DEF ResetExponentialBackoff, ExponentialBackoffPolicy
<1>4. p.kind = "token_bucket" =>
        p.kind = d.kind /\ p.capacity = d.capacity /\ p.refill_rate = d.refill_rate
  BY KindOf, ResetOf, ZenonT(60) DEF ResetTokenBucket, TokenBucketPolicy
<1> QED BY <1>1, <1>2, <1>3, <1>4, KindOf

LEMMA CountNew ==
    ASSUME NEW p \in Policies
    PROVE  CountKept(p, 0, 0)
<1>1. p \in Policy /\ PowerOfTwo[0] = 1
  BY NewPolicy, PowerIs
<1>2. p.kind = "count_based" => p.max_count \in Nat
  BY <1>1, KindOf DEF CountBasedPolicy
<1> QED BY <1>1, <1>2, NewPolicy DEF CountKept

LEMMA CountRegister ==
    ASSUME NEW p \in Policy, NEW at \in Nat, NEW r, r = RegisterEvent(p, at),
           NEW k \in Nat, NEW n \in Nat, CountKept(p, k, n)
    PROVE  /\ r.allow => CountKept(r.policy, k + 1, n + 1)
           /\ ~r.allow => CountKept(r.policy, k, n + 1)
<1>1. CASE p.kind = "count_based"
  <2>1. p \in CountBasedPolicy
    BY <1>1, KindOf
  <2>2. /\ r.policy \in CountBasedPolicy
        /\ r.policy.max_count = p.max_count
        /\ r.policy.current_count = p.current_count + 1
        /\ r.allow <=> p.current_count + 1 <= p.max_count
    BY <2>1, RegisterCount
  <2>3. r.policy.kind = "count_based" /\ p.max_count \in Nat
    BY <2>1, <2>2 DEF CountBasedPolicy
  <2>4. p.current_count = n /\ k = IF n < p.max_count THEN n ELSE p.max_count
    BY <1>1 DEF CountKept
  <2> QED BY <2>2, <2>3, <2>4 DEF CountKept
<1>2. CASE p.kind = "exponential_backoff"
  <2>1. p \in ExponentialBackoffPolicy
    BY <1>2, KindOf
  <2>2. /\ r.policy \in ExponentialBackoffPolicy
        /\ r.allow <=> p.event_count + 1 = p.next_allowed
        /\ r.policy.event_count = p.event_count + 1
        /\ r.allow => r.policy.next_allowed = 2 * p.next_allowed
        /\ ~r.allow => r.policy.next_allowed = p.next_allowed
    BY <2>1, RegisterBackoff
  <2>3. r.policy.kind = "exponential_backoff"
    BY <2>2 DEF ExponentialBackoffPolicy
  <2>4. /\ p.event_count = n /\ p.next_allowed = PowerOfTwo[k]
        /\ n < PowerOfTwo[k] /\ (k > 0 => PowerOfTwo[k - 1] <= n)
    BY <1>2 DEF CountKept
  <2>5. /\ PowerOfTwo[k] \in Nat /\ k + 1 \in Nat /\ k + 1 # 0 /\ (k + 1) - 1 = k
        /\ k > 0 => PowerOfTwo[k - 1] \in Nat
    BY PowerIs
  <2>6. PowerOfTwo[k + 1] = 2 * PowerOfTwo[k]
    BY <2>5, PowerIs
  <2>7. ASSUME r.allow PROVE CountKept(r.policy, k + 1, n + 1)
    <3>1. n + 1 = PowerOfTwo[k] /\ r.policy.next_allowed = PowerOfTwo[k + 1]
      BY <2>2, <2>4, <2>6, <2>7
    <3>2. n + 1 < PowerOfTwo[k + 1] /\ PowerOfTwo[(k + 1) - 1] <= n + 1
      BY <2>5, <2>6, <3>1
    <3> QED BY <2>2, <2>3, <2>4, <3>1, <3>2 DEF CountKept
  <2>8. ASSUME ~r.allow PROVE CountKept(r.policy, k, n + 1)
    <3>1. n + 1 # PowerOfTwo[k] /\ r.policy.next_allowed = PowerOfTwo[k]
      BY <2>2, <2>4, <2>8
    <3>2. n + 1 < PowerOfTwo[k] /\ (k > 0 => PowerOfTwo[k - 1] <= n + 1)
      BY <2>4, <2>5, <3>1
    <3> QED BY <2>2, <2>3, <2>4, <3>1, <3>2 DEF CountKept
  <2> QED BY <2>7, <2>8
<1>3. CASE p.kind = "time_window"
  <2>1. r.policy \in TimeWindowPolicy
    BY <1>3, KindOf, RegisterWindow
  <2> QED BY <2>1 DEF CountKept, TimeWindowPolicy
<1>4. CASE p.kind = "token_bucket"
  <2>1. r.policy \in TokenBucketPolicy
    BY <1>4, KindOf, RegisterBucket
  <2> QED BY <2>1 DEF CountKept, TokenBucketPolicy
<1> QED BY <1>1, <1>2, <1>3, <1>4, KindOf

LEMMA CountStep == TypeOK /\ LocalInv /\ CountInv /\ [Next]_vars => CountInv'
<1> SUFFICES ASSUME TypeOK, LocalInv, CountInv, [Next]_vars, NEW x \in Signatures
             PROVE  CountKept(policy[x], Len(granted[x]), Len(granted[x]) + suppressed[x])'
  BY DEF CountInv
<1>a. CountKept(policy[x], Len(granted[x]), Len(granted[x]) + suppressed[x])
  BY DEF CountInv
<1>1. ASSUME NEW t \in Threads, RegisterAndRecord(t)
      PROVE  CountKept(policy[x], Len(granted[x]), Len(granted[x]) + suppressed[x])'
  <2>0. PICK s \in Signatures : \E r : Accessed(t, s, r)
    BY <1>1, Accessor
  <2>1. PICK r : Accessed(t, s, r)
    BY <2>0
  <2>2. CASE x = s
    <3>1. granted[x] \in Seq(Nat) /\ Len(granted[x]) \in Nat /\ suppressed[x] \in Nat
      BY DEF TypeOK
    <3>a. /\ policy[x] \in Policy /\ now[t] \in Nat /\ r = RegisterEvent(policy[x], now[t])
          /\ Len(granted[x]) + suppressed[x] \in Nat
      BY <2>1, <2>2, <3>1 DEF Accessed
    <3>2. /\ r.allow => CountKept(r.policy, Len(granted[x]) + 1, (Len(granted[x]) + suppressed[x]) + 1)
          /\ ~r.allow => CountKept(r.policy, Len(granted[x]), (Len(granted[x]) + suppressed[x]) + 1)
      BY <1>a, <3>1, <3>a, CountRegister
    <3>3. policy'[x] = r.policy /\ r.allow \in BOOLEAN
      BY <2>1, <2>2 DEF Accessed, TypeOK
    <3>4. CASE r.allow
      <4>1. granted'[x] = Append(granted[x], now[t]) /\ suppressed'[x] = suppressed[x]
        BY <2>1, <2>2, <3>4 DEF Accessed, TypeOK
      <4>2. Len(granted'[x]) = Len(granted[x]) + 1
        BY <3>1, <3>a, <4>1
      <4>3. Len(granted'[x]) + suppressed'[x] = (Len(granted[x]) + suppressed[x]) + 1
        BY <3>1, <4>1, <4>2
      <4> QED BY <3>2, <3>3, <3>4, <4>2, <4>3
    <3>5. CASE ~r.allow
      <4>1. granted'[x] = granted[x] /\ suppressed'[x] = suppressed[x] + 1
        BY <2>1, <2>2, <3>5 DEF Accessed, TypeOK
      <4>2. Len(granted'[x]) = Len(granted[x])
        BY <4>1
      <4>3. Len(granted'[x]) + suppressed'[x] = (Len(granted[x]) + suppressed[x]) + 1
        <5>1. Len(granted[x]) + (suppressed[x] + 1) = (Len(granted[x]) + suppressed[x]) + 1
          BY <3>1
        <5> QED BY <4>1, <4>2, <5>1
      <4> QED BY <3>2, <3>3, <3>5, <4>1, <4>2, <4>3
    <3> QED BY <3>3, <3>4, <3>5
  <2>3. CASE x # s
    <3>1. policy'[x] = policy[x] /\ granted'[x] = granted[x] /\ suppressed'[x] = suppressed[x]
      BY <2>1, <2>3 DEF Accessed, TypeOK
    <3> QED BY <1>a, <3>1
  <2> QED BY <2>2, <2>3
<1>2. ASSUME NEW s \in Signatures, Evict(s)
      PROVE  CountKept(policy[x], Len(granted[x]), Len(granted[x]) + suppressed[x])'
  <2>1. CASE x = s
    <3>1. policy'[x] = default_policy /\ granted'[x] = << >> /\ suppressed'[x] = 0
      BY <1>2, <2>1 DEF Evict, TypeOK
    <3>2. CountKept(default_policy, 0, 0)
      BY CountNew DEF TypeOK
    <3>3. Len(granted'[x]) = 0 /\ Len(granted'[x]) + suppressed'[x] = 0
      BY <3>1
    <3> QED BY <3>1, <3>2, <3>3
  <2>2. CASE x # s
    <3>1. policy'[x] = policy[x] /\ granted'[x] = granted[x] /\ suppressed'[x] = suppressed[x]
      BY <1>2, <2>2 DEF Evict, TypeOK
    <3> QED BY <1>a, <3>1
  <2> QED BY <2>1, <2>2
<1>3. CASE UNCHANGED entry
  BY <1>3, <1>a DEF entry
<1> QED BY <1>1, <1>2, <1>3
        DEF Next, vars, Tick, CheckEvent, FailOpen, Panic, RecordMetric, Snapshot, SnapshotSuppressed,
            SnapshotEvicted, ResetMetrics, ResetSuppressed, ResetEvicted, Reading

LEMMA MinOfTwo ==
    ASSUME NEW a \in Nat, NEW b \in Nat
    PROVE  Min({a, b}) = IF a < b THEN a ELSE b
<1> DEFINE m == IF a < b THEN a ELSE b
<1>1. m \in {a, b} /\ \A y \in {a, b} : m <= y
  OBVIOUS
<1>2. \A x \in {a, b} : (\A y \in {a, b} : x <= y) => x = m
  OBVIOUS
<1> HIDE DEF m
<1> QED BY <1>1, <1>2 DEF Min, m

\* The first k powers of two are those up to n.
LEMMA PowersUpTo ==
    ASSUME NEW n \in Nat, NEW k \in Nat, n < PowerOfTwo[k], k > 0 => PowerOfTwo[k - 1] <= n
    PROVE  Cardinality({i \in 0 .. n : PowerOfTwo[i] <= n}) = k
<1>1. ASSUME NEW i \in 0 .. n, PowerOfTwo[i] <= n PROVE i \in 0 .. (k - 1)
  <2>1. i \in Nat /\ PowerOfTwo[i] \in Nat /\ PowerOfTwo[k] \in Nat
    BY PowerIs
  <2>2. ~(k <= i)
    <3>1. k <= i => PowerOfTwo[k] <= PowerOfTwo[i]
      BY <2>1, PowersGrow
    <3> QED BY <1>1, <2>1, <3>1
  <2> QED BY <2>1, <2>2
<1>2. ASSUME NEW i \in 0 .. (k - 1) PROVE i \in 0 .. n /\ PowerOfTwo[i] <= n
  <2>1. i \in Nat /\ k - 1 \in Nat /\ i <= k - 1 /\ k > 0
    OBVIOUS
  <2>2. PowerOfTwo[i] \in Nat /\ PowerOfTwo[k - 1] \in Nat
    BY <2>1, PowerIs
  <2>3. PowerOfTwo[i] <= PowerOfTwo[k - 1] /\ i < PowerOfTwo[i]
    BY <2>1, PowersGrow
  <2> QED BY <2>1, <2>2, <2>3
<1>3. {i \in 0 .. n : PowerOfTwo[i] <= n} = 0 .. (k - 1)
  BY <1>1, <1>2
<1>4. Cardinality(0 .. (k - 1)) = k
  <2>1. 0 \in Int /\ k - 1 \in Int
    OBVIOUS
  <2>2. Cardinality(0 .. (k - 1)) = IF 0 > k - 1 THEN 0 ELSE (k - 1) - 0 + 1
    BY <2>1, FS_Interval
  <2> QED BY <2>2
<1> QED BY <1>3, <1>4

\* A count-based entry allows its first max_count events and no others, one
\* with exponential backoff the 1st, 2nd, 4th, 8th, ..., for as long as it
\* lives and in whatever order the threads come (register_event).
THEOREM SchedulesAreKept == Spec => []ScheduleKept
<1>1. Init => CountInv
  <2> SUFFICES ASSUME Init, NEW s \in Signatures
               PROVE  CountKept(policy[s], Len(granted[s]), Len(granted[s]) + suppressed[s])
    BY DEF CountInv
  <2>1. default_policy \in Policies /\ policy[s] = default_policy /\ granted[s] = << >> /\ suppressed[s] = 0
    BY DEF Init
  <2>2. Len(granted[s]) = 0 /\ Len(granted[s]) + suppressed[s] = 0
    BY <2>1
  <2> QED BY <2>1, <2>2, CountNew
<1>2. TypeOK /\ CountInv => ScheduleKept
  <2> SUFFICES ASSUME TypeOK, CountInv, NEW s \in Signatures, NEW k, k = Len(granted[s]),
                      NEW n, n = k + suppressed[s]
               PROVE  /\ default_policy.kind = "count_based" => k = Min({n, default_policy.max_count})
                      /\ default_policy.kind = "exponential_backoff" =>
                            k = Cardinality({i \in 0 .. n : PowerOfTwo[i] <= n})
    BY DEF ScheduleKept
  <2>1. k \in Nat /\ n \in Nat /\ policy[s] \in Policy /\ Reset(policy[s]) = default_policy
    BY DEF TypeOK
  <2>2. default_policy \in Policy /\ CountKept(policy[s], k, n)
    BY PoliciesAssumption DEF TypeOK, CountInv
  <2>3. /\ policy[s].kind = default_policy.kind
        /\ policy[s].kind = "count_based" => policy[s].max_count = default_policy.max_count
    BY <2>1, <2>2, Parameters
  <2>4. default_policy.kind = "count_based" => k = Min({n, default_policy.max_count})
    <3>1. default_policy.kind = "count_based" => default_policy.max_count \in Nat
      BY <2>2, KindOf DEF CountBasedPolicy
    <3> QED BY <2>1, <2>2, <2>3, <3>1, MinOfTwo DEF CountKept
  <2>5. default_policy.kind = "exponential_backoff" => k = Cardinality({i \in 0 .. n : PowerOfTwo[i] <= n})
    BY <2>1, <2>2, <2>3, PowersUpTo DEF CountKept
  <2> QED BY <2>4, <2>5
<1>3. CountersInv => TypeOK /\ LocalInv
  BY DEF CountersInv
<1> QED BY <1>1, <1>2, <1>3, CountersKept, CountStep, PTL DEF Spec

-----------------------------------------------------------------------------
(* Time windows. *)

LEMMA AscendingAppend ==
    ASSUME NEW g \in Seq(Nat), NEW at \in Nat, NEW later \in Nat, at <= later, Ascending(g, at)
    PROVE  Ascending(g, later) /\ Ascending(Append(g, later), later)
<1> DEFINE h == Append(g, later)
<1>1. \A i \in 1 .. Len(g) : g[i] \in Nat /\ g[i] <= later
  BY DEF Ascending
<1>2. /\ Len(h) = Len(g) + 1 /\ Len(g) \in Nat
      /\ \A i \in 1 .. Len(h) : h[i] = IF i <= Len(g) THEN g[i] ELSE later
  OBVIOUS
<1> HIDE DEF h
<1>3. \A i \in 1 .. Len(h) : h[i] <= later
  BY <1>1, <1>2
<1>4. ASSUME NEW i \in 1 .. Len(h), NEW j \in 1 .. Len(h), i <= j PROVE h[i] <= h[j]
  <2>1. CASE j <= Len(g)
    <3>1. i \in 1 .. Len(g) /\ j \in 1 .. Len(g) /\ h[i] = g[i] /\ h[j] = g[j]
      BY <1>2, <1>4, <2>1
    <3> QED BY <1>4, <3>1 DEF Ascending
  <2>2. CASE ~(j <= Len(g))
    BY <1>2, <1>3, <2>2
  <2> QED BY <2>1, <2>2
<1>5. Ascending(h, later)
  BY <1>3, <1>4 DEF Ascending
<1>6. Ascending(g, later)
  BY <1>1 DEF Ascending
<1> QED BY <1>5, <1>6 DEF h

\* What is left of a window are the allowed timestamps inside it.
LEMMA WindowLive ==
    ASSUME NEW p \in TimeWindowPolicy, NEW g \in Seq(Nat), NEW at \in Nat, NEW later \in Nat,
           at <= later, Ascending(g, at), WindowKept(p, g, at),
           NEW live, live = Unexpired(p, later), NEW n, n = Len(g) - Len(live)
    PROVE  /\ live \in Seq(Nat) /\ n \in Nat
           /\ Len(live) <= p.max_events
           /\ \A i \in 1 .. Len(live) : live[i] = g[n + i]
           /\ \A i \in 1 .. n : g[i] + p.window_duration < later
           /\ \A i \in (n + 1) .. Len(g) : later - p.window_duration <= g[i]
<1> DEFINE stamps == p.event_timestamps
           w == p.window_duration
           d == Len(g) - Len(stamps)
<1>1. /\ stamps \in Seq(Nat) /\ w \in Nat /\ p.max_events \in Nat /\ Len(stamps) \in Nat
      /\ \A i \in 1 .. Len(stamps) : stamps[i] \in Nat
  BY DEF TimeWindowPolicy
<1>2. /\ d >= 0 /\ Len(stamps) <= p.max_events
      /\ \A i \in 1 .. Len(stamps) : stamps[i] = g[d + i]
      /\ \A i \in 1 .. d : g[i] + w < at
  BY DEF WindowKept
<1>3. PICK k \in 0 .. Len(stamps) :
         /\ live = SubSeq(stamps, k + 1, Len(stamps))
         /\ \A i \in 1 .. k : Elapsed(later, stamps[i]) > w
         /\ k < Len(stamps) => Elapsed(later, stamps[k + 1]) <= w
  BY UnexpiredIsSuffix
<1>4. live \in Seq(Nat) /\ Len(live) = Len(stamps) - k /\ \A i \in 1 .. Len(live) : live[i] = stamps[k + i]
  BY <1>1, <1>3
<1>5. Len(g) \in Nat /\ \A i \in 1 .. Len(g) : g[i] \in Nat
  OBVIOUS
<1> HIDE DEF stamps, w
<1>6. d \in Nat /\ n = d + k /\ Len(g) = d + Len(stamps)
  BY <1>1, <1>2, <1>4, <1>5
<1> HIDE DEF d
<1>7. ASSUME NEW i \in 1 .. Len(live) PROVE live[i] = g[n + i]
  <2>1. k + i \in 1 .. Len(stamps) /\ d + (k + i) = n + i
    BY <1>1, <1>4, <1>6
  <2> QED BY <1>2, <1>4, <2>1
<1>8. ASSUME NEW i \in 1 .. n PROVE g[i] + w < later
  <2>1. i \in 1 .. Len(g) /\ g[i] \in Nat
    BY <1>1, <1>5, <1>6
  <2>2. CASE i <= d
    BY <1>1, <1>2, <1>6, <2>1, <2>2
  <2>3. CASE ~(i <= d)
    <3>1. i - d \in 1 .. k /\ i - d \in 1 .. Len(stamps) /\ d + (i - d) = i
      BY <1>1, <1>6, <2>3
    <3>2. Elapsed(later, g[i]) > w
      BY <1>2, <1>3, <3>1
    <3> QED BY <1>1, <2>1, <3>2 DEF Elapsed
  <2> QED BY <2>2, <2>3
<1>9. ASSUME NEW i \in (n + 1) .. Len(g) PROVE later - w <= g[i]
  <2>0. n \in Nat /\ k \in Nat /\ i \in Int /\ n + 1 <= i /\ i <= Len(g) /\ k <= Len(stamps)
    BY <1>1, <1>5, <1>6
  <2>1. /\ k < Len(stamps) /\ k + 1 \in 1 .. Len(stamps) /\ d + (k + 1) = n + 1
        /\ n + 1 \in 1 .. Len(g) /\ i \in 1 .. Len(g) /\ n + 1 <= i
    <3>1. d + k + 1 <= d + Len(stamps) /\ d \in Nat
      BY <1>6, <2>0
    <3>2. k + 1 <= Len(stamps)
      BY <1>1, <2>0, <3>1
    <3>3. d + (k + 1) = n + 1
      <4>1. d + (k + 1) = (d + k) + 1
        BY <2>0, <3>1
      <4> QED BY <1>6, <4>1
    <3> QED BY <1>1, <1>5, <2>0, <3>2, <3>3, SMTT(30)
  <2>2. Elapsed(later, g[n + 1]) <= w
    BY <1>2, <1>3, <2>1
  <2>3. g[n + 1] <= g[i] /\ g[n + 1] \in Nat /\ g[i] \in Nat
    BY <1>5, <2>1 DEF Ascending
  <2>4. later \in Nat /\ w \in Nat
    BY <1>1
  <2> QED BY <2>2, <2>3, <2>4, SMTT(30) DEF Elapsed
<1>10. Len(live) <= p.max_events /\ n \in Nat
  <2>1. k \in Nat /\ Len(live) = Len(stamps) - k /\ Len(stamps) \in Nat /\ p.max_events \in Nat
    BY <1>1, <1>4
  <2>2. Len(stamps) <= p.max_events
    BY <1>2
  <2> QED BY <1>6, <2>1, <2>2
<1> QED BY <1>4, <1>7, <1>8, <1>9, <1>10 DEF w

LEMMA WindowRegister ==
    ASSUME NEW p \in TimeWindowPolicy, NEW g \in Seq(Nat), NEW at \in Nat, NEW later \in Nat,
           at <= later, Ascending(g, at), WindowKept(p, g, at), NEW r, r = RegisterEvent(p, later)
    PROVE  /\ r.allow => WindowKept(r.policy, Append(g, later), later)
           /\ ~r.allow => /\ WindowKept(r.policy, g, later)
                          /\ Cardinality(GrantedIn(g, later - p.window_duration, later)) = p.max_events
<1> DEFINE live == Unexpired(p, later)
           w == p.window_duration
           n == Len(g) - Len(live)
<1>1. /\ live \in Seq(Nat) /\ n \in Nat
      /\ Len(live) <= p.max_events
      /\ \A i \in 1 .. Len(live) : live[i] = g[n + i]
      /\ \A i \in 1 .. n : g[i] + w < later
      /\ \A i \in (n + 1) .. Len(g) : later - w <= g[i]
  BY WindowLive
<1>2. /\ r.policy \in TimeWindowPolicy
      /\ r.policy.max_events = p.max_events
      /\ r.policy.window_duration = w
      /\ r.allow <=> Len(live) < p.max_events
      /\ r.allow => r.policy.event_timestamps = Append(live, later)
      /\ ~r.allow => r.policy.event_timestamps = live
  BY RegisterWindow
<1>3. /\ Len(g) \in Nat /\ Len(live) \in Nat /\ w \in Nat /\ p.max_events \in Nat
      /\ \A i \in 1 .. Len(g) : g[i] \in Nat /\ g[i] <= later
      /\ \A i \in 1 .. Len(g) : i + p.max_events <= Len(g) => g[i] + w < g[i + p.max_events]
  BY <1>1 DEF TimeWindowPolicy, Ascending, WindowKept
<1> HIDE DEF live, w
<1>4. n + Len(live) = Len(g)
  BY <1>3
<1>5. ASSUME r.allow PROVE WindowKept(r.policy, Append(g, later), later)
  <2> DEFINE h == Append(g, later)
             new == Append(live, later)
  <2>a. Len(h) = Len(g) + 1 /\ \A i \in 1 .. Len(h) : h[i] = IF i <= Len(g) THEN g[i] ELSE later
    OBVIOUS
  <2>b. Len(new) = Len(live) + 1 /\ \A i \in 1 .. Len(new) : new[i] = IF i <= Len(live) THEN live[i] ELSE later
    BY <1>1
  <2> HIDE DEF h, new
  <2>1. /\ Len(h) = Len(g) + 1 /\ Len(new) = Len(live) + 1
        /\ \A i \in 1 .. Len(h) : h[i] = IF i <= Len(g) THEN g[i] ELSE later
        /\ \A i \in 1 .. Len(new) : new[i] = IF i <= Len(live) THEN live[i] ELSE later
    BY <2>a, <2>b
  <2>2. r.policy.event_timestamps = new /\ Len(live) < p.max_events
    BY <1>2, <1>5 DEF new
  <2>3. Len(h) - Len(new) = n
    BY <1>3, <2>1
  <2> HIDE DEF n
  <2>4. ASSUME NEW i \in 1 .. Len(new) PROVE new[i] = h[n + i]
    <3>1. n + i \in 1 .. Len(h) /\ (i <= Len(live) <=> n + i <= Len(g))
      BY <1>1, <1>3, <1>4, <2>1
    <3>2. i <= Len(live) => i \in 1 .. Len(live)
      BY <1>3
    <3> QED BY <1>1, <2>1, <3>1, <3>2
  <2>5. ASSUME NEW i \in 1 .. n PROVE h[i] + w < later
    <3>1. i \in 1 .. Len(h) /\ i <= Len(g)
      BY <1>1, <1>3, <1>4, <2>1
    <3> QED BY <1>1, <2>1, <3>1
  <2>6. ASSUME NEW i \in 1 .. Len(h), i + p.max_events <= Len(h)
        PROVE  h[i] + w < h[i + p.max_events]
    <3>1. i \in 1 .. Len(g) /\ i + p.max_events \in 1 .. Len(h)
      BY <1>3, <2>1, <2>2, <2>6
    <3>2. CASE i + p.max_events <= Len(g)
      <4>1. h[i] = g[i] /\ h[i + p.max_events] = g[i + p.max_events]
        BY <1>3, <2>1, <3>1, <3>2
      <4> QED BY <1>3, <3>1, <3>2, <4>1
    <3>3. CASE ~(i + p.max_events <= Len(g))
      <4>1. h[i + p.max_events] = later /\ i \in 1 .. n
        BY <1>1, <1>3, <1>4, <2>1, <2>2, <3>1, <3>3
      <4> QED BY <2>5, <4>1
    <3> QED BY <3>2, <3>3
  <2>7. WindowKept(r.policy, h, later)
    <3>1. Len(h) - Len(r.policy.event_timestamps) >= 0
      BY <1>1, <2>2, <2>3
    <3>2. Len(r.policy.event_timestamps) <= r.policy.max_events
      BY <1>2, <1>3, <2>1, <2>2
    <3> QED BY <1>2, <2>2, <2>3, <2>4, <2>5, <2>6, <3>1, <3>2 DEF WindowKept
  <2> QED BY <2>7 DEF h
<1>6. ASSUME ~r.allow PROVE WindowKept(r.policy, g, later)
  <2>1. r.policy.event_timestamps = live
    BY <1>2, <1>6
  <2>2. Len(g) - Len(r.policy.event_timestamps) = n /\ n >= 0
    BY <1>1, <2>1
  <2> HIDE DEF n
  <2> QED BY <1>1, <1>2, <1>3, <2>1, <2>2 DEF WindowKept
<1>7. ASSUME ~r.allow PROVE Cardinality(GrantedIn(g, later - w, later)) = p.max_events
  <2>1. Len(live) = p.max_events
    BY <1>1, <1>2, <1>3, <1>7
  <2> HIDE DEF n
  <2>2. ASSUME NEW i \in 1 .. Len(g)
        PROVE  g[i] \in (later - w) .. later <=> i \in (n + 1) .. Len(g)
    <3>1. CASE i \in 1 .. n
      BY <1>1, <1>3, <3>1
    <3>2. CASE i \in (n + 1) .. Len(g)
      BY <1>1, <1>3, <3>2
    <3>3. i \in 1 .. n \/ i \in (n + 1) .. Len(g)
      BY <1>1, <1>3, <1>4
    <3> QED BY <3>1, <3>2, <3>3
  <2>3. \A i \in (n + 1) .. Len(g) : i \in 1 .. Len(g)
    BY <1>1
  <2>4. GrantedIn(g, later - w, later) = (n + 1) .. Len(g)
    BY <2>2, <2>3 DEF GrantedIn
  <2>5. Cardinality((n + 1) .. Len(g)) = IF n + 1 > Len(g) THEN 0 ELSE Len(g) - (n + 1) + 1
    <3>1. n + 1 \in Int /\ Len(g) \in Int
      BY <1>1, <1>3
    <3> QED BY <3>1, FS_Interval
  <2>6. (IF n + 1 > Len(g) THEN 0 ELSE Len(g) - (n + 1) + 1) = Len(live)
    BY <1>1, <1>3, <1>4
  <2> QED BY <2>1, <2>4, <2>5, <2>6
<1> QED BY <1>5, <1>6, <1>7 DEF w

\* Events that are max_events apart are more than the window apart.
LEMMA WindowBound ==
    ASSUME NEW p \in TimeWindowPolicy, NEW g \in Seq(Nat), NEW at \in Nat,
           Ascending(g, at), WindowKept(p, g, at), NEW first \in Nat
    PROVE  Cardinality(GrantedIn(g, first, first + p.window_duration)) <= p.max_events
<1> DEFINE w == p.window_duration
           inside == GrantedIn(g, first, first + w)
<1>1. /\ Len(g) \in Nat /\ w \in Nat /\ p.max_events \in Nat
      /\ \A i \in 1 .. Len(g) : g[i] \in Nat
      /\ \A i \in 1 .. Len(g) : i + p.max_events <= Len(g) => g[i] + w < g[i + p.max_events]
      /\ \A i, j \in 1 .. Len(g) : i <= j => g[i] <= g[j]
  BY DEF TimeWindowPolicy, Ascending, WindowKept
<1>2. \A i \in inside : i \in 1 .. Len(g) /\ first <= g[i] /\ g[i] <= first + w
  BY <1>1 DEF GrantedIn
<1> HIDE DEF w, inside
<1>3. CASE inside = {}
  <2>1. Cardinality(inside) = 0
    BY <1>3, FS_EmptySet
  <2> QED BY <1>1, <2>1 DEF inside, w
<1>4. CASE inside # {}
  <2>1. PICK m \in inside : \A j \in inside : m <= j
    <3>1. inside \subseteq Nat
      BY <1>2
    <3> QED BY <1>4, <3>1, Least
  <2>2. ASSUME NEW j \in inside PROVE j \in m .. (m + p.max_events - 1)
    <3>1. m \in 1 .. Len(g) /\ j \in 1 .. Len(g) /\ m <= j
      BY <1>2, <2>1
    <3>2. SUFFICES ASSUME m + p.max_events <= j PROVE FALSE
      BY <1>1, <3>1
    <3>3. m + p.max_events \in 1 .. Len(g)
      BY <1>1, <3>1, <3>2
    <3>4. g[m] + w < g[m + p.max_events] /\ g[m + p.max_events] <= g[j]
      BY <1>1, <3>1, <3>2, <3>3
    <3>5. first <= g[m] /\ g[j] <= first + w
      BY <1>2, <2>1
    <3>6. g[m] \in Nat /\ g[j] \in Nat /\ g[m + p.max_events] \in Nat
      BY <1>1, <3>1, <3>3
    <3>7. first \in Nat /\ w \in Nat
      BY <1>1
    <3> QED BY <3>4, <3>5, <3>6, <3>7, SMTT(30)
  <2>3. inside \subseteq m .. (m + p.max_events - 1)
    BY <2>2
  <2>4. m \in Int /\ m + p.max_events - 1 \in Int
    BY <1>1, <1>2, <2>1
  <2>5. /\ IsFiniteSet(m .. (m + p.max_events - 1))
        /\ Cardinality(m .. (m + p.max_events - 1)) =
              IF m > m + p.max_events - 1 THEN 0 ELSE (m + p.max_events - 1) - m + 1
    BY <2>4, FS_Interval
  <2>6. Cardinality(inside) <= Cardinality(m .. (m + p.max_events - 1)) /\ Cardinality(inside) \in Nat
    BY <2>3, <2>5, FS_Subset, FS_CardinalityType
  <2> QED BY <1>1, <2>4, <2>5, <2>6 DEF inside, w
<1> QED BY <1>3, <1>4

-----------------------------------------------------------------------------
(* Token buckets. *)

LEMMA GrantedTyped ==
    ASSUME NEW g \in Seq(Nat), NEW first, NEW last
    PROVE  /\ IsFiniteSet(GrantedIn(g, first, last)) /\ Cardinality(GrantedIn(g, first, last)) \in Nat
           /\ Spent(g, first, last) \in Nat
           /\ (GrantedIn(g, first, last) = {} => Spent(g, first, last) = 0)
<1>1. GrantedIn(g, first, last) \subseteq 1 .. Len(g) /\ IsFiniteSet(1 .. Len(g))
  BY FS_Interval DEF GrantedIn
<1>2. IsFiniteSet(GrantedIn(g, first, last)) /\ Cardinality(GrantedIn(g, first, last)) \in Nat
  BY <1>1, FS_Subset, FS_CardinalityType
<1>3. Spent(g, first, last) \in Nat
  BY <1>2, Products, TokenUnitAssumption DEF Spent
<1>4. GrantedIn(g, first, last) = {} => Spent(g, first, last) = 0
  BY FS_EmptySet, TokenUnitAssumption DEF Spent
<1> QED BY <1>2, <1>3, <1>4

LEMMA SpentAppend ==
    ASSUME NEW g \in Seq(Nat), NEW at \in Nat, NEW first \in Nat, NEW last \in Nat
    PROVE  Spent(Append(g, at), first, last)
           = Spent(g, first, last) + (IF at \in first .. last THEN TokenUnit ELSE 0)
<1> DEFINE h == Append(g, at)
           n == Len(g) + 1
           old == GrantedIn(g, first, last)
<1>1. n \in Nat /\ Len(h) = n /\ \A i \in 1 .. n : h[i] = IF i <= Len(g) THEN g[i] ELSE at
  OBVIOUS
<1>2. \A i : i \in 1 .. n <=> i \in 1 .. Len(g) \/ i = n
  OBVIOUS
<1>3. \A i \in 1 .. Len(g) : h[i] = g[i] /\ i # n
  BY <1>1
<1>4. h[n] = at /\ n \notin old
  BY <1>1 DEF GrantedIn
<1>5. IsFiniteSet(old) /\ Cardinality(old) \in Nat
  BY GrantedTyped
<1> HIDE DEF h, n
<1>6. CASE at \in first .. last
  <2>1. GrantedIn(h, first, last) = old \cup {n}
    BY <1>1, <1>2, <1>3, <1>4, <1>6 DEF GrantedIn
  <2> HIDE DEF old
  <2>2. Cardinality(old \cup {n}) = Cardinality(old) + 1
    BY <1>4, <1>5, FS_AddElement
  <2>3. TokenUnit * (Cardinality(old) + 1) = TokenUnit * Cardinality(old) + TokenUnit
    BY <1>5, TokenUnitAssumption
  <2> QED BY <1>6, <2>1, <2>2, <2>3 DEF Spent, old, h
<1>7. CASE ~(at \in first .. last)
  <2>1. GrantedIn(h, first, last) = old
    BY <1>1, <1>2, <1>3, <1>4, <1>7 DEF GrantedIn
  <2>2. TokenUnit * Cardinality(old) + 0 = TokenUnit * Cardinality(old)
    <3>1. TokenUnit * Cardinality(old) \in Nat
      BY <1>5, Products, TokenUnitAssumption
    <3> QED BY <3>1
  <2> QED BY <1>7, <2>1, <2>2 DEF Spent, old, h
<1> QED BY <1>6, <1>7

\* Nothing has been granted after the newest timestamp.
LEMMA SpentBeyond ==
    ASSUME NEW g \in Seq(Nat), NEW at \in Nat, Ascending(g, at),
           NEW first \in Nat, NEW last \in Nat, at <= last
    PROVE  /\ Spent(g, first, last) = Spent(g, first, at)
           /\ at < first => Spent(g, first, last) = 0
<1>1. \A i \in 1 .. Len(g) : g[i] \in Nat /\ g[i] <= at
  BY DEF Ascending
<1>2. GrantedIn(g, first, last) = GrantedIn(g, first, at)
  BY <1>1 DEF GrantedIn
<1>3. at < first => GrantedIn(g, first, last) = {}
  BY <1>1 DEF GrantedIn
<1> QED BY <1>2, <1>3, GrantedTyped DEF Spent

LEMMA SupplyTyped ==
    ASSUME NEW p \in TokenBucketPolicy, NEW a \in Nat, NEW b \in Nat, a <= b
    PROVE  /\ (b - a) * p.refill_rate \in Nat
           /\ Supply(p, a, b) \in Nat /\ p.capacity <= Supply(p, a, b)
           /\ Supply(p, a, a) = p.capacity
<1>1. p.capacity \in Nat /\ p.refill_rate \in Nat /\ b - a \in Nat
  BY DEF TokenBucketPolicy
<1>2. (b - a) * p.refill_rate \in Nat
  BY <1>1, Products
<1>3. (a - a) * p.refill_rate = 0
  BY <1>1
<1> QED BY <1>1, <1>2, <1>3 DEF Supply

\* What refills in two intervals is what refills in the one they make up.
LEMMA SupplyAdds ==
    ASSUME NEW p \in TokenBucketPolicy, NEW a \in Nat, NEW b \in Nat, NEW c \in Nat, a <= b, b <= c
    PROVE  /\ Supply(p, a, c) = Supply(p, a, b) + (c - b) * p.refill_rate
           /\ Supply(p, a, b) <= Supply(p, a, c)
<1>1. p.capacity \in Nat /\ p.refill_rate \in Nat
  BY DEF TokenBucketPolicy
<1>2. (b - a) * p.refill_rate \in Nat /\ (c - b) * p.refill_rate \in Nat
  BY SupplyTyped
<1>3. (c - a) * p.refill_rate = (b - a) * p.refill_rate + (c - b) * p.refill_rate
  BY <1>1
<1> QED BY <1>1, <1>2, <1>3 DEF Supply

\* BucketKept, with t tokens at at.
Balanced(p, t, g, at) ==
    /\ t <= p.capacity
    /\ \A first \in 0 .. at : Spent(g, first, at) + t <= Supply(p, first, at)
    /\ \E first \in 0 .. at : Spent(g, first, at) + t = Supply(p, first, at)
    /\ \A last \in 0 .. at : \A first \in 0 .. last : Spent(g, first, last) <= Supply(p, first, last)

LEMMA BucketFills ==
    ASSUME NEW p \in TokenBucketPolicy, NEW g \in Seq(Nat), NEW at \in Nat, NEW later \in Nat,
           at <= later, Ascending(g, at), BucketKept(p, g, at)
    PROVE  Balanced(p, Filled(p, later), g, later)
<1> DEFINE t == Filled(p, later)
           refill == (later - at) * p.refill_rate
<1>1. /\ p.tokens \in Nat /\ p.capacity \in Nat /\ p.refill_rate \in Nat
      /\ p.last_refill \in Nat \cup {NoInstant}
  BY DEF TokenBucketPolicy
<1>2. t \in Nat /\ refill \in Nat
  BY <1>1, FilledTyped, SupplyTyped
<1>3. /\ p.tokens <= p.capacity
      /\ p.last_refill = NoInstant => g = << >> /\ p.tokens = p.capacity
      /\ p.last_refill # NoInstant => p.last_refill = at
      /\ \A first \in 0 .. at : Spent(g, first, at) + p.tokens <= Supply(p, first, at)
      /\ \E first \in 0 .. at : Spent(g, first, at) + p.tokens = Supply(p, first, at)
      /\ \A last \in 0 .. at : \A first \in 0 .. last : Spent(g, first, last) <= Supply(p, first, last)
  BY DEF BucketKept
<1>4. \/ t = p.capacity /\ g = << >>
      \/ t = p.tokens + refill /\ t < p.capacity
      \/ t = p.capacity /\ t <= p.tokens + refill
  <2>1. CASE p.last_refill = NoInstant
    BY <1>3, <2>1 DEF Filled
  <2>2. CASE p.last_refill # NoInstant
    <3>1. p.last_refill = at /\ ~(later < at)
      BY <1>3, <2>2
    <3>2. t = IF p.tokens + refill < p.capacity THEN p.tokens + refill ELSE p.capacity
      BY <2>2, <3>1 DEF Filled
    <3> HIDE DEF t, refill
    <3> QED BY <1>1, <1>2, <3>2
  <2> QED BY <2>1, <2>2
<1> HIDE DEF t
<1>5. \A first \in 0 .. later : Spent(g, first, later) \in Nat /\ Spent(g, first, at) \in Nat
  BY GrantedTyped
<1>6. ASSUME g = << >>, NEW first, NEW last PROVE Spent(g, first, last) = 0
  <2>1. GrantedIn(g, first, last) = {}
    BY <1>6 DEF GrantedIn
  <2> QED BY <2>1, GrantedTyped
<1>7. t <= p.capacity
  BY <1>1, <1>4
<1>8. ASSUME NEW first \in 0 .. later PROVE Spent(g, first, later) + t <= Supply(p, first, later)
  <2>1. Supply(p, first, later) \in Nat /\ p.capacity <= Supply(p, first, later)
    <3>1. first \in Nat /\ first <= later
      OBVIOUS
    <3> QED BY <3>1, SupplyTyped
  <2>2. CASE g = << >> \/ at < first
    <3>1. Spent(g, first, later) = 0
      BY <1>6, <2>2, SpentBeyond
    <3> QED BY <1>1, <1>2, <1>7, <2>1, <3>1
  <2>3. CASE g # << >> /\ first \in 0 .. at
    <3>1. Spent(g, first, later) = Spent(g, first, at)
      BY SpentBeyond
    <3>2. Supply(p, first, later) = Supply(p, first, at) + refill /\ Supply(p, first, at) \in Nat
      <4>1. first \in Nat /\ first <= at
        BY <2>3
      <4> QED BY <4>1, SupplyTyped, SupplyAdds
    <3>3. Spent(g, first, at) + p.tokens <= Supply(p, first, at)
      BY <1>3, <2>3
    <3>4. t <= p.tokens + refill
      <4> HIDE DEF refill
      <4> QED BY <1>1, <1>2, <1>4, <2>3
    <3> DEFINE a == Spent(g, first, at)
               b == Supply(p, first, at)
               c == p.tokens
    <3>5. a \in Nat /\ b \in Nat /\ c \in Nat /\ refill \in Nat /\ t \in Nat
      BY <1>1, <1>2, <1>5, <3>2
    <3>6. a + c <= b /\ t <= c + refill
      BY <3>3, <3>4
    <3>7. Spent(g, first, later) = a /\ Supply(p, first, later) = b + refill
      BY <3>1, <3>2
    <3> HIDE DEF a, b, c, refill
    <3>8. a + t <= b + refill
      BY <3>5, <3>6
    <3> QED BY <3>7, <3>8
  <2> QED BY <2>2, <2>3
<1>9. \E first \in 0 .. later : Spent(g, first, later) + t = Supply(p, first, later)
  <2>1. CASE t = p.capacity /\ (g = << >> \/ at < later)
    <3>1. Spent(g, later, later) = 0 /\ Supply(p, later, later) = p.capacity /\ later \in 0 .. later
      <4>1. Spent(g, later, later) = 0
        BY <1>6, <2>1, SpentBeyond
      <4>2. Supply(p, later, later) = p.capacity /\ later \in 0 .. later
        <5>1. at <= later /\ Supply(p, later, later) = p.capacity + (later - later) * p.refill_rate
          BY DEF Supply
        <5>2. (later - later) * p.refill_rate = 0
          BY <1>1
        <5> QED BY <1>1, <5>1, <5>2
      <4> QED BY <4>1, <4>2
    <3>2. Spent(g, later, later) + t = Supply(p, later, later)
      BY <1>1, <2>1, <3>1
    <3> QED BY <3>1, <3>2
  <2>2. CASE t = p.tokens + refill
    <3>1. PICK first \in 0 .. at : Spent(g, first, at) + p.tokens = Supply(p, first, at)
      BY <1>3
    <3>2. first \in 0 .. later
      OBVIOUS
    <3>3. Spent(g, first, later) = Spent(g, first, at)
      BY <3>2, SpentBeyond
    <3>4. Supply(p, first, later) = Supply(p, first, at) + refill /\ Supply(p, first, at) \in Nat
      <4>1. first \in Nat /\ first <= at
        OBVIOUS
      <4> QED BY <4>1, SupplyTyped, SupplyAdds
    <3>a. Spent(g, first, at) \in Nat
      BY GrantedTyped
    <3> HIDE DEF refill
    <3>5. Spent(g, first, later) + t = Supply(p, first, later)
      BY <1>1, <1>2, <2>2, <3>1, <3>3, <3>4, <3>a
    <3> QED BY <3>2, <3>5
  <2>3. CASE t = p.capacity /\ t <= p.tokens + refill /\ ~(at < later)
    <3>1. at = later
      BY <2>3
    <3>2. refill = 0
      BY <1>1, <3>1
    <3> HIDE DEF refill
    <3>3. t = p.tokens
      BY <1>1, <1>3, <2>3, <3>2
    <3> QED BY <1>3, <3>1, <3>3
  <2> QED BY <1>4, <2>1, <2>2, <2>3
<1>10. ASSUME NEW last \in 0 .. later, NEW first \in 0 .. last
       PROVE  Spent(g, first, last) <= Supply(p, first, last)
  <2>1. CASE last <= at
    BY <1>3, <2>1
  <2>2. CASE at < last
    <3>a. first \in Nat /\ last \in Nat /\ first <= last
      OBVIOUS
    <3>1. Supply(p, first, last) \in Nat
      BY <3>a, SupplyTyped
    <3>2. CASE at < first
      <4>1. Spent(g, first, last) = 0
        BY <2>2, <3>2, SpentBeyond
      <4> QED BY <3>1, <4>1
    <3>3. CASE first \in 0 .. at
      <4>1. Spent(g, first, last) = Spent(g, first, at) /\ Spent(g, first, at) \in Nat
        BY <2>2, SpentBeyond, GrantedTyped
      <4>2. Spent(g, first, at) <= Supply(p, first, at) /\ at \in 0 .. at
        BY <1>3, <3>3
      <4>3. Supply(p, first, at) <= Supply(p, first, last) /\ Supply(p, first, at) \in Nat
        <5>1. first <= at /\ at <= last
          BY <2>2, <3>3
        <5>2. Supply(p, first, at) \in Nat
          BY <3>a, <5>1, SupplyTyped
        <5>3. Supply(p, first, at) <= Supply(p, first, last)
          BY <3>a, <5>1, SupplyAdds
        <5> QED BY <5>2, <5>3
      <4> QED BY <3>1, <4>1, <4>2, <4>3
    <3> QED BY <3>2, <3>3
  <2> QED BY <2>1, <2>2
<1>11. Balanced(p, t, g, later)
  BY <1>7, <1>8, <1>9, <1>10 DEF Balanced
<1> QED BY <1>11 DEF t

\* A token taken for an event leaves the account balanced.
LEMMA BalancedTake ==
    ASSUME NEW p \in TokenBucketPolicy, NEW g \in Seq(Nat), NEW at \in Nat,
           NEW t \in Nat, NEW u \in Nat, t = u + TokenUnit, Balanced(p, t, g, at)
    PROVE  Balanced(p, u, Append(g, at), at)
<1>0. TokenUnit \in Nat /\ p.capacity \in Nat
  BY TokenUnitAssumption DEF TokenBucketPolicy
<1>1. ASSUME NEW first \in 0 .. at
      PROVE  /\ Spent(g, first, at) \in Nat /\ Supply(p, first, at) \in Nat
             /\ Spent(Append(g, at), first, at) = Spent(g, first, at) + TokenUnit
             /\ Spent(Append(g, at), first, at) + u = Spent(g, first, at) + t
  <2>1. Spent(g, first, at) \in Nat /\ Supply(p, first, at) \in Nat
    <3>1. first \in Nat /\ first <= at
      OBVIOUS
    <3> QED BY <3>1, GrantedTyped, SupplyTyped
  <2>2. at \in first .. at /\ first \in Nat
    OBVIOUS
  <2>3. Spent(Append(g, at), first, at) = Spent(g, first, at) + TokenUnit
    BY <2>2, SpentAppend
  <2> QED BY <1>0, <2>1, <2>3
<1>2. u <= p.capacity
  BY <1>0 DEF Balanced
<1>3. \A first \in 0 .. at : Spent(Append(g, at), first, at) + u <= Supply(p, first, at)
  BY <1>1 DEF Balanced
<1>4. \E first \in 0 .. at : Spent(Append(g, at), first, at) + u = Supply(p, first, at)
  BY <1>1 DEF Balanced
<1>5. ASSUME NEW last \in 0 .. at, NEW first \in 0 .. last
      PROVE  Spent(Append(g, at), first, last) <= Supply(p, first, last)
  <2>1. CASE last = at
    BY <1>0, <1>1, <1>3, <2>1
  <2>2. CASE last # at
    <3>1. Spent(Append(g, at), first, last) = Spent(g, first, last) + 0
      BY <2>2, SpentAppend
    <3>2. Spent(g, first, last) \in Nat /\ Spent(g, first, last) <= Supply(p, first, last)
      BY GrantedTyped DEF Balanced
    <3> QED BY <3>1, <3>2
  <2> QED BY <2>1, <2>2
<1> QED BY <1>2, <1>3, <1>4, <1>5 DEF Balanced

LEMMA BucketRegister ==
    ASSUME NEW p \in TokenBucketPolicy, NEW g \in Seq(Nat), NEW at \in Nat, NEW later \in Nat,
           at <= later, Ascending(g, at), BucketKept(p, g, at), NEW r, r = RegisterEvent(p, later)
    PROVE  /\ r.allow => BucketKept(r.policy, Append(g, later), later)
           /\ ~r.allow => /\ BucketKept(r.policy, g, later)
                          /\ \E first \in 0 .. later :
                                Supply(p, first, later)
                                    < TokenUnit * (Cardinality(GrantedIn(g, first, later)) + 1)
<1> DEFINE q == r.policy
           t == Filled(p, later)
<1>1. /\ q \in TokenBucketPolicy
      /\ q.capacity = p.capacity /\ q.refill_rate = p.refill_rate /\ q.last_refill = later
      /\ r.allow <=> t >= TokenUnit
      /\ r.allow => q.tokens = t - TokenUnit
      /\ ~r.allow => q.tokens = t
  BY RegisterBucket
<1>2. Balanced(p, t, g, later) /\ t \in Nat
  BY BucketFills, FilledTyped
<1> HIDE DEF q, t
<1>3. later # NoInstant
  BY DEF NoInstant
<1>4. ASSUME NEW h, Balanced(p, q.tokens, h, later) PROVE BucketKept(q, h, later)
  BY <1>1, <1>3, <1>4 DEF Balanced, BucketKept, Supply
<1>5. ASSUME r.allow PROVE BucketKept(q, Append(g, later), later)
  <2>1. q.tokens \in Nat /\ t = q.tokens + TokenUnit
    BY <1>1, <1>2, <1>5, TokenUnitAssumption
  <2>2. Balanced(p, q.tokens, Append(g, later), later)
    BY <1>2, <2>1, BalancedTake
  <2> QED BY <1>4, <2>2
<1>6. ASSUME ~r.allow PROVE BucketKept(q, g, later)
  BY <1>1, <1>2, <1>4, <1>6
<1>7. ASSUME ~r.allow
      PROVE  \E first \in 0 .. later :
                Supply(p, first, later) < TokenUnit * (Cardinality(GrantedIn(g, first, later)) + 1)
  <2>1. PICK first \in 0 .. later : Spent(g, first, later) + t = Supply(p, first, later)
    BY <1>2 DEF Balanced
  <2>2. Cardinality(GrantedIn(g, first, later)) \in Nat /\ Spent(g, first, later) \in Nat
    BY GrantedTyped
  <2>3. TokenUnit * (Cardinality(GrantedIn(g, first, later)) + 1) = Spent(g, first, later) + TokenUnit
    BY <2>2, TokenUnitAssumption DEF Spent
  <2>4. ~(t >= TokenUnit)
    BY <1>1, <1>7
  <2>5. Supply(p, first, later) < Spent(g, first, later) + TokenUnit
    BY <1>2, <2>1, <2>2, <2>4, TokenUnitAssumption
  <2> QED BY <2>3, <2>5
<1> QED BY <1>5, <1>6, <1>7 DEF q

\* No interval has been granted more than its supply.
LEMMA BucketBound ==
    ASSUME NEW p \in TokenBucketPolicy, NEW g \in Seq(Nat), NEW at \in Nat,
           Ascending(g, at), BucketKept(p, g, at), NEW last \in Nat, NEW first \in 0 .. last
    PROVE  Spent(g, first, last) <= Supply(p, first, last)
<1>1. CASE last <= at
  BY <1>1 DEF BucketKept
<1>2. CASE at < last
  <2>1. Balanced(p, Filled(p, last), g, last)
    BY <1>2, BucketFills
  <2>2. last \in 0 .. last
    OBVIOUS
  <2> QED BY <2>1, <2>2 DEF Balanced
<1> QED BY <1>1, <1>2

-----------------------------------------------------------------------------
(* Intervals. *)

\* The entry of policy p suppresses at at only when its interval is used up.
UsedUp(p, g, at) ==
    /\ p.kind = "time_window" =>
          Cardinality(GrantedIn(g, at - p.window_duration, at)) = p.max_events
    /\ p.kind = "token_bucket" =>
          \E first \in 0 .. at :
              Supply(p, first, at) < TokenUnit * (Cardinality(GrantedIn(g, first, at)) + 1)

LEMMA IntervalNew ==
    ASSUME NEW p \in Policies
    PROVE  IntervalKept(p, << >>, 0)
<1>1. p \in Policy
  BY NewPolicy
<1>2. Ascending(<< >>, 0)
  BY DEF Ascending
<1>3. ASSUME p.kind = "time_window" PROVE WindowKept(p, << >>, 0)
  <2>1. p.event_timestamps = << >> /\ p.max_events \in Nat
    BY <1>1, <1>3, NewPolicy, KindOf DEF TimeWindowPolicy
  <2> QED BY <2>1 DEF WindowKept
<1>4. ASSUME p.kind = "token_bucket" PROVE BucketKept(p, << >>, 0)
  <2>1. p \in TokenBucketPolicy /\ p.tokens = p.capacity /\ p.last_refill = NoInstant
    BY <1>1, <1>4, NewPolicy, KindOf
  <2>2. p.capacity \in Nat /\ << >> \in Seq(Nat)
    BY <2>1 DEF TokenBucketPolicy
  <2>3. Spent(<< >>, 0, 0) = 0
    <3>1. GrantedIn(<< >>, 0, 0) = {}
      BY DEF GrantedIn
    <3> QED BY <2>2, <3>1, GrantedTyped
  <2>4. Supply(p, 0, 0) = p.capacity
    <3>1. 0 \in Nat /\ 0 <= 0
      OBVIOUS
    <3> QED BY <2>1, <3>1, SupplyTyped
  <2>5. \A i : i \in 0 .. 0 <=> i = 0
    OBVIOUS
  <2> QED BY <2>1, <2>2, <2>3, <2>4, <2>5 DEF BucketKept
<1> QED BY <1>2, <1>3, <1>4 DEF IntervalKept

LEMMA IntervalRegister ==
    ASSUME NEW p \in Policy, NEW g \in Seq(Nat), NEW at \in Nat, NEW later \in Nat,
           at <= later, IntervalKept(p, g, at), NEW r, r = RegisterEvent(p, later)
    PROVE  /\ r.allow => IntervalKept(r.policy, Append(g, later), later)
           /\ ~r.allow => IntervalKept(r.policy, g, later) /\ UsedUp(p, g, later)
<1>1. Ascending(g, at) /\ Ascending(g, later) /\ Ascending(Append(g, later), later)
  BY AscendingAppend DEF IntervalKept
<1>2. CASE p.kind = "count_based"
  <2>1. r.policy \in CountBasedPolicy
    BY <1>2, KindOf, RegisterCount
  <2>2. r.policy.kind = "count_based"
    BY <2>1 DEF CountBasedPolicy
  <2> QED BY <1>1, <1>2, <2>2 DEF IntervalKept, UsedUp
<1>3. CASE p.kind = "exponential_backoff"
  <2>1. r.policy \in ExponentialBackoffPolicy
    BY <1>3, KindOf, RegisterBackoff
  <2>2. r.policy.kind = "exponential_backoff"
    BY <2>1 DEF ExponentialBackoffPolicy
  <2> QED BY <1>1, <1>3, <2>2 DEF IntervalKept, UsedUp
<1>4. CASE p.kind = "time_window"
  <2>1. p \in TimeWindowPolicy /\ WindowKept(p, g, at)
    BY <1>4, KindOf DEF IntervalKept
  <2>2. r.policy \in TimeWindowPolicy
    BY <2>1, RegisterWindow
  <2>3. r.policy.kind = "time_window"
    BY <2>2 DEF TimeWindowPolicy
  <2>4. /\ r.allow => WindowKept(r.policy, Append(g, later), later)
        /\ ~r.allow => /\ WindowKept(r.policy, g, later)
                       /\ Cardinality(GrantedIn(g, later - p.window_duration, later)) = p.max_events
    BY <1>1, <2>1, WindowRegister
  <2> QED BY <1>1, <1>4, <2>3, <2>4 DEF IntervalKept, UsedUp
<1>5. CASE p.kind = "token_bucket"
  <2>1. p \in TokenBucketPolicy /\ BucketKept(p, g, at)
    BY <1>5, KindOf DEF IntervalKept
  <2>2. r.policy \in TokenBucketPolicy
    BY <2>1, RegisterBucket
  <2>3. r.policy.kind = "token_bucket"
    BY <2>2 DEF TokenBucketPolicy
  <2>4. /\ r.allow => BucketKept(r.policy, Append(g, later), later)
        /\ ~r.allow => /\ BucketKept(r.policy, g, later)
                       /\ \E first \in 0 .. later :
                             Supply(p, first, later)
                                 < TokenUnit * (Cardinality(GrantedIn(g, first, later)) + 1)
    BY <1>1, <2>1, BucketRegister
  <2> QED BY <1>1, <1>5, <2>3, <2>4 DEF IntervalKept, UsedUp
<1> QED BY <1>2, <1>3, <1>4, <1>5, KindOf

\* A step of the accessor, for an entry that has not been overtaken.
LEMMA IntervalAccess ==
    ASSUME TypeOK, LocalInv, IntervalInv, NEW t \in Threads, RegisterAndRecord(t),
           NEW x \in Signatures, x \notin overtaken'
    PROVE  /\ x \notin overtaken
           /\ IntervalKept(policy[x], granted[x], newest[x])'
           /\ suppressed'[x] = suppressed[x] + 1 =>
                 UsedUp(policy[x], granted[x], newest'[x]) /\ newest'[x] \in Nat
<1>0. PICK s \in Signatures : \E r : Accessed(t, s, r)
  BY Accessor
<1>1. PICK r : Accessed(t, s, r)
  BY <1>0
<1>2. x \notin overtaken
  BY <1>1 DEF Accessed
<1>3. IntervalKept(policy[x], granted[x], newest[x])
  BY <1>2 DEF IntervalInv
<1>4. granted[x] \in Seq(Nat) /\ newest[x] \in Nat /\ suppressed[x] \in Nat
  BY DEF TypeOK
<1>5. CASE x = s
  <2>1. newest[x] <= now[t] /\ now[t] \in Nat
    <3>1. ~(now[t] < newest[x]) /\ now[t] \in Nat
      BY <1>1, <1>5 DEF Accessed
    <3> QED BY <1>4, <3>1
  <2>2. newest'[x] = now[t]
    <3>1. newest'[x] = IF now[t] > newest[x] THEN now[t] ELSE newest[x]
      BY <1>1, <1>5 DEF Accessed, TypeOK
    <3> QED BY <1>4, <2>1, <3>1
  <2>3. policy[x] \in Policy /\ r = RegisterEvent(policy[x], now[t]) /\ policy'[x] = r.policy /\ r.allow \in BOOLEAN
    BY <1>1, <1>5 DEF Accessed, TypeOK
  <2>4. /\ r.allow => IntervalKept(r.policy, Append(granted[x], now[t]), now[t])
        /\ ~r.allow => IntervalKept(r.policy, granted[x], now[t]) /\ UsedUp(policy[x], granted[x], now[t])
    BY <1>3, <1>4, <2>1, <2>3, IntervalRegister
  <2>5. CASE r.allow
    <3>1. granted'[x] = Append(granted[x], now[t]) /\ suppressed'[x] = suppressed[x]
      BY <1>1, <1>5, <2>5 DEF Accessed, TypeOK
    <3>2. suppressed'[x] # suppressed[x] + 1
      BY <1>4, <3>1
    <3> QED BY <1>2, <2>2, <2>3, <2>4, <2>5, <3>1, <3>2
  <2>6. CASE ~r.allow
    <3>1. granted'[x] = granted[x]
      BY <1>1, <1>5, <2>6 DEF Accessed, TypeOK
    <3> QED BY <1>2, <2>1, <2>2, <2>3, <2>4, <2>6, <3>1
  <2> QED BY <2>3, <2>5, <2>6
<1>6. CASE x # s
  <2>1. /\ policy'[x] = policy[x] /\ granted'[x] = granted[x] /\ newest'[x] = newest[x]
        /\ suppressed'[x] = suppressed[x]
    BY <1>1, <1>6 DEF Accessed, TypeOK
  <2>2. suppressed'[x] # suppressed[x] + 1
    BY <1>4, <2>1
  <2> QED BY <1>2, <1>3, <2>1, <2>2
<1> QED BY <1>5, <1>6

\* Every other step leaves the entries alone, or evicts one.
LEMMA OtherSteps ==
    [Next]_vars => \/ \E t \in Threads : RegisterAndRecord(t)
                   \/ \E s \in Signatures : Evict(s)
                   \/ UNCHANGED entry
  BY DEF Next, vars, Tick, CheckEvent, FailOpen, Panic, RecordMetric, Snapshot, SnapshotSuppressed,
         SnapshotEvicted, ResetMetrics, ResetSuppressed, ResetEvicted, Reading

LEMMA IntervalStep == TypeOK /\ LocalInv /\ IntervalInv /\ [Next]_vars => IntervalInv'
<1> SUFFICES ASSUME TypeOK, LocalInv, IntervalInv, [Next]_vars,
                    NEW x \in Signatures, x \notin overtaken'
             PROVE  IntervalKept(policy[x], granted[x], newest[x])'
  BY DEF IntervalInv
<1>1. ASSUME NEW t \in Threads, RegisterAndRecord(t)
      PROVE  IntervalKept(policy[x], granted[x], newest[x])'
  BY <1>1, IntervalAccess
<1>2. ASSUME NEW s \in Signatures, Evict(s)
      PROVE  IntervalKept(policy[x], granted[x], newest[x])'
  <2>1. CASE x = s
    <3>1. policy'[x] = default_policy /\ granted'[x] = << >> /\ newest'[x] = 0
      BY <1>2, <2>1 DEF Evict, TypeOK
    <3>2. IntervalKept(default_policy, << >>, 0)
      BY IntervalNew DEF TypeOK
    <3> QED BY <3>1, <3>2
  <2>2. CASE x # s
    <3>1. policy'[x] = policy[x] /\ granted'[x] = granted[x] /\ newest'[x] = newest[x]
      BY <1>2, <2>2 DEF Evict, TypeOK
    <3>2. x \notin overtaken
      BY <1>2, <2>2 DEF Evict
    <3> QED BY <3>1, <3>2 DEF IntervalInv
  <2> QED BY <2>1, <2>2
<1>3. CASE UNCHANGED entry
  BY <1>3 DEF entry, IntervalInv
<1> QED BY <1>1, <1>2, <1>3, OtherSteps

LEMMA IntervalsKept == Spec => [](CountersInv /\ IntervalInv)
<1>1. Init => IntervalInv
  <2> SUFFICES ASSUME Init, NEW s \in Signatures
               PROVE  IntervalKept(policy[s], granted[s], newest[s])
    BY DEF IntervalInv
  <2>1. default_policy \in Policies /\ policy[s] = default_policy /\ granted[s] = << >> /\ newest[s] = 0
    BY DEF Init
  <2> QED BY <2>1, IntervalNew
<1>2. CountersInv => TypeOK /\ LocalInv
  BY DEF CountersInv
<1> QED BY <1>1, <1>2, CountersKept, IntervalStep, PTL DEF Spec

\* No interval gets more than its policy grants: for a time window max_events,
\* for a token bucket the capacity and what the interval refills, as long as
\* the timestamps reach the entry in order (TimeWindowPolicy and
\* TokenBucketPolicy::register_event).
THEOREM IntervalsAreBounded == Spec => []IntervalBound
<1>1. CountersInv /\ IntervalInv => IntervalBound
  <2> SUFFICES ASSUME TypeOK, IntervalInv, NEW s \in Signatures \ overtaken, NEW first \in 0 .. MaxClock
               PROVE  /\ default_policy.kind = "time_window" =>
                            Cardinality(GrantedIn(granted[s], first, first + default_policy.window_duration))
                                <= default_policy.max_events
                      /\ default_policy.kind = "token_bucket" =>
                            \A last \in first .. MaxClock :
                                TokenUnit * Cardinality(GrantedIn(granted[s], first, last))
                                    <= default_policy.capacity + (last - first) * default_policy.refill_rate
    BY DEF IntervalBound, CountersInv
  <2> DEFINE p == policy[s]
             g == granted[s]
  <2>1. p \in Policy /\ g \in Seq(Nat) /\ newest[s] \in Nat /\ first \in Nat
    BY DEF TypeOK
  <2>2. IntervalKept(p, g, newest[s])
    BY DEF IntervalInv
  <2>3. Reset(p) = default_policy /\ default_policy \in Policy
    BY PoliciesAssumption DEF TypeOK
  <2>4. /\ p.kind = default_policy.kind
        /\ p.kind = "time_window" =>
             p.max_events = default_policy.max_events /\ p.window_duration = default_policy.window_duration
        /\ p.kind = "token_bucket" =>
             p.capacity = default_policy.capacity /\ p.refill_rate = default_policy.refill_rate
    BY <2>1, <2>3, Parameters
  <2> HIDE DEF p
  <2>5. ASSUME p.kind = "time_window"
        PROVE  Cardinality(GrantedIn(g, first, first + p.window_duration)) <= p.max_events
    <3>1. p \in TimeWindowPolicy /\ Ascending(g, newest[s]) /\ WindowKept(p, g, newest[s])
      BY <2>1, <2>2, <2>5, KindOf DEF IntervalKept
    <3> HIDE DEF g
    <3> QED BY <2>1, <3>1, WindowBound
  <2>6. ASSUME p.kind = "token_bucket", NEW last \in first .. MaxClock
        PROVE  TokenUnit * Cardinality(GrantedIn(g, first, last))
                   <= p.capacity + (last - first) * p.refill_rate
    <3>1. p \in TokenBucketPolicy /\ Ascending(g, newest[s]) /\ BucketKept(p, g, newest[s])
      BY <2>1, <2>2, <2>6, KindOf DEF IntervalKept
    <3>2. last \in Nat /\ first \in 0 .. last
      BY <2>1, LimiterBounds
    <3> HIDE DEF g
    <3>3. Spent(g, first, last) <= Supply(p, first, last)
      BY <2>1, <3>1, <3>2, BucketBound
    <3> QED BY <3>3 DEF Spent, Supply
  <2> QED BY <2>4, <2>5, <2>6
<1> QED BY <1>1, IntervalsKept, PTL

\* An event is suppressed only when its interval is used up: the policies
\* refuse nothing that they could grant (register_event, record_suppression).
THEOREM NothingRefusedEarly == Spec => SuppressesOnlyWhenUsedUp
<1> DEFINE Step ==
      \A s \in Signatures \ overtaken' : suppressed'[s] = suppressed[s] + 1 =>
          LET at == newest'[s]
          IN  /\ default_policy.kind = "time_window" =>
                    Cardinality(GrantedIn(granted[s], at - default_policy.window_duration, at))
                        = default_policy.max_events
              /\ default_policy.kind = "token_bucket" =>
                    \E first \in 0 .. at :
                        default_policy.capacity + (at - first) * default_policy.refill_rate
                            < TokenUnit * (Cardinality(GrantedIn(granted[s], first, at)) + 1)
<1>1. CountersInv /\ IntervalInv /\ [Next]_vars => Step
  <2> SUFFICES ASSUME TypeOK, LocalInv, IntervalInv, [Next]_vars, NEW s \in Signatures, s \notin overtaken',
                      suppressed'[s] = suppressed[s] + 1, NEW at, at = newest'[s]
               PROVE  /\ default_policy.kind = "time_window" =>
                            Cardinality(GrantedIn(granted[s], at - default_policy.window_duration, at))
                                = default_policy.max_events
                      /\ default_policy.kind = "token_bucket" =>
                            \E first \in 0 .. at :
                                default_policy.capacity + (at - first) * default_policy.refill_rate
                                    < TokenUnit * (Cardinality(GrantedIn(granted[s], first, at)) + 1)
    BY DEF CountersInv
  <2>1. suppressed[s] \in Nat /\ suppressed'[s] # suppressed[s]
    BY DEF TypeOK
  <2>2. PICK t \in Threads : RegisterAndRecord(t)
    <3>1. ASSUME NEW e \in Signatures, Evict(e) PROVE suppressed'[s] # suppressed[s] + 1
      <4>1. suppressed'[s] = 0 \/ suppressed'[s] = suppressed[s]
        BY <3>1 DEF Evict, TypeOK
      <4> QED BY <2>1, <4>1
    <3>2. ~(UNCHANGED entry)
      BY <2>1 DEF entry
    <3> QED BY <3>1, <3>2, OtherSteps
  <2> DEFINE p == policy[s]
             g == granted[s]
  <2>3. UsedUp(p, g, at)
    BY <2>2, IntervalAccess
  <2>4. p \in Policy /\ Reset(p) = default_policy /\ default_policy \in Policy
    BY PoliciesAssumption DEF TypeOK
  <2> HIDE DEF p
  <2>5. /\ p.kind = default_policy.kind
        /\ p.kind = "time_window" =>
             p.max_events = default_policy.max_events /\ p.window_duration = default_policy.window_duration
        /\ p.kind = "token_bucket" =>
             p.capacity = default_policy.capacity /\ p.refill_rate = default_policy.refill_rate
    BY <2>4, Parameters
  <2> HIDE DEF g
  <2>6. /\ default_policy.kind = "time_window" =>
              Cardinality(GrantedIn(g, at - default_policy.window_duration, at)) = default_policy.max_events
        /\ default_policy.kind = "token_bucket" =>
              \E first \in 0 .. at :
                  default_policy.capacity + (at - first) * default_policy.refill_rate
                      < TokenUnit * (Cardinality(GrantedIn(g, first, at)) + 1)
    BY <2>3, <2>5 DEF UsedUp, Supply
  <2> QED BY <2>6 DEF g
<1>2. Spec => [][Step]_vars
  <2> HIDE DEF Step
  <2> QED BY <1>1, IntervalsKept, PTL DEF Spec
<1> QED BY <1>2 DEF SuppressesOnlyWhenUsedUp

=========================================================================
