------------------------- MODULE RedisStorageProofs -------------------------
(***************************************************************************)
(* What the shared storage guarantees for every number of threads,         *)
(* processes and signatures, any policy, and however often commands fail,  *)
(* entries expire and copies overwrite each other.                         *)
(***************************************************************************)
EXTENDS RedisStorage, TLAPS

-----------------------------------------------------------------------------
(* The policies. *)

\* The kind of a policy tells which of the four it is.
LEMMA KindOf ==
    ASSUME NEW p \in Policy
    PROVE  /\ p.kind \in {"count_based", "time_window", "exponential_backoff", "token_bucket"}
           /\ p.kind = "count_based" => p \in CountBasedPolicy
           /\ p.kind = "time_window" => p \in TimeWindowPolicy
           /\ p.kind = "exponential_backoff" => p \in ExponentialBackoffPolicy
           /\ p.kind = "token_bucket" => p \in TokenBucketPolicy
  BY DEF Policy, CountBasedPolicy, TimeWindowPolicy, ExponentialBackoffPolicy, TokenBucketPolicy

\* reset, kind by kind.
LEMMA ResetOf ==
    ASSUME NEW p \in Policy
    PROVE  /\ p.kind = "count_based" => Reset(p) = ResetCountBased(p)
           /\ p.kind = "time_window" => Reset(p) = ResetTimeWindow(p)
           /\ p.kind = "exponential_backoff" => Reset(p) = ResetExponentialBackoff(p)
           /\ p.kind = "token_bucket" => Reset(p) = ResetTokenBucket(p)
           /\ Reset(p).kind = p.kind
<1>1. /\ p.kind = "count_based" => Reset(p) = ResetCountBased(p)
      /\ p.kind = "time_window" => Reset(p) = ResetTimeWindow(p)
      /\ p.kind = "exponential_backoff" => Reset(p) = ResetExponentialBackoff(p)
      /\ p.kind = "token_bucket" => Reset(p) = ResetTokenBucket(p)
  BY DEF Reset
<1>2. p.kind = "count_based" => ResetCountBased(p).kind = p.kind
  BY KindOf DEF ResetCountBased, CountBasedPolicy
<1>3. p.kind = "time_window" => ResetTimeWindow(p).kind = p.kind
  BY KindOf DEF ResetTimeWindow, TimeWindowPolicy
<1>4. p.kind = "exponential_backoff" => ResetExponentialBackoff(p).kind = p.kind
  BY KindOf DEF ResetExponentialBackoff, ExponentialBackoffPolicy
<1>5. p.kind = "token_bucket" => ResetTokenBucket(p).kind = p.kind
  BY KindOf DEF ResetTokenBucket, TokenBucketPolicy
<1> QED BY <1>1, <1>2, <1>3, <1>4, <1>5, KindOf

\* A decision and the policy it leaves.
LEMMA Parts ==
    ASSUME NEW a, NEW q, NEW r, r = [allow |-> a, policy |-> q]
    PROVE  r.allow = a /\ r.policy = q
  OBVIOUS

\* register_event of a count keeps the limit and counts one event.
LEMMA RegisterCount ==
    ASSUME NEW p \in CountBasedPolicy, NEW r, r = RegisterEvent(p, 0)
    PROVE  /\ r.policy \in CountBasedPolicy /\ Reset(r.policy) = Reset(p)
           /\ r.policy.max_count = p.max_count
           /\ r.policy.current_count = p.current_count + 1
           /\ r.allow = (p.current_count + 1 <= p.max_count)
<1>1. p.kind = "count_based" /\ r = RegisterCountBased(p)
  BY DEF RegisterEvent, CountBasedPolicy
<1>2. /\ r.policy \in CountBasedPolicy /\ r.policy.max_count = p.max_count
      /\ r.policy.current_count = p.current_count + 1
      /\ r.allow = (p.current_count + 1 <= p.max_count)
  BY <1>1 DEF RegisterCountBased, CountBasedPolicy
<1>3. Reset(r.policy) = ResetCountBased(r.policy) /\ Reset(p) = ResetCountBased(p)
  BY <1>1, <1>2, ResetOf DEF Policy, CountBasedPolicy
<1>4. ResetCountBased(r.policy) = ResetCountBased(p)
  BY <1>1, <1>2 DEF ResetCountBased, RegisterCountBased, CountBasedPolicy
<1> QED BY <1>2, <1>3, <1>4

LEMMA RegisterBackoff ==
    ASSUME NEW p \in ExponentialBackoffPolicy, NEW r, r = RegisterEvent(p, 0)
    PROVE  /\ r.policy \in ExponentialBackoffPolicy /\ Reset(r.policy) = Reset(p)
           /\ r.allow = (p.event_count + 1 = p.next_allowed)
           /\ r.policy.event_count = p.event_count + 1
           /\ r.policy.next_allowed = IF r.allow THEN 2 * p.next_allowed ELSE p.next_allowed
<1>1. p.kind = "exponential_backoff" /\ r = RegisterExponentialBackoff(p)
  BY DEF RegisterEvent, ExponentialBackoffPolicy
<1>2. /\ r.policy \in ExponentialBackoffPolicy
      /\ r.policy.event_count = p.event_count + 1
      /\ r.allow = (p.event_count + 1 = p.next_allowed)
      /\ r.policy.next_allowed = IF r.allow THEN 2 * p.next_allowed ELSE p.next_allowed
  <2>1. /\ r.allow = (p.event_count + 1 = p.next_allowed)
        /\ r.policy = [p EXCEPT !.event_count = @ + 1,
                                !.next_allowed = IF p.event_count + 1 = p.next_allowed THEN 2 * @ ELSE @]
    BY <1>1, Parts DEF RegisterExponentialBackoff
  <2>2. CASE p.event_count + 1 = p.next_allowed
    <3>1. r.allow /\ r.policy = [p EXCEPT !.event_count = @ + 1, !.next_allowed = 2 * @]
      BY <2>1, <2>2
    <3>2. /\ r.policy \in ExponentialBackoffPolicy
          /\ r.policy.event_count = p.event_count + 1 /\ r.policy.next_allowed = 2 * p.next_allowed
      <4>1. p.event_count + 1 \in Nat /\ 2 * p.next_allowed \in Nat
        BY DEF ExponentialBackoffPolicy
      <4>2. r.policy = [p EXCEPT !.event_count = p.event_count + 1, !.next_allowed = 2 * p.next_allowed]
        BY <3>1
      <4> QED BY <4>1, <4>2 DEF ExponentialBackoffPolicy
    <3> QED BY <2>1, <3>1, <3>2
  <2>3. CASE p.event_count + 1 # p.next_allowed
    <3>1. ~r.allow /\ r.policy = [p EXCEPT !.event_count = @ + 1]
      BY <2>1, <2>3 DEF ExponentialBackoffPolicy
    <3>2. /\ r.policy \in ExponentialBackoffPolicy
          /\ r.policy.event_count = p.event_count + 1 /\ r.policy.next_allowed = p.next_allowed
      BY <3>1 DEF ExponentialBackoffPolicy
    <3> QED BY <2>1, <3>1, <3>2
  <2> QED BY <2>2, <2>3
<1>3. Reset(r.policy) = ResetExponentialBackoff(r.policy) /\ Reset(p) = ResetExponentialBackoff(p)
  BY <1>1, <1>2, ResetOf DEF Policy, ExponentialBackoffPolicy
<1>4. ResetExponentialBackoff(r.policy) = ResetExponentialBackoff(p)
  BY <1>1, <1>2 DEF ResetExponentialBackoff, RegisterExponentialBackoff, ExponentialBackoffPolicy
<1> QED BY <1>2, <1>3, <1>4

\* A new window allows its first event.
LEMMA RegisterWindow ==
    ASSUME NEW p \in TimeWindowPolicy, p.event_timestamps = << >>, p.max_events > 0,
           NEW r, r = RegisterEvent(p, 0)
    PROVE  /\ r.policy \in TimeWindowPolicy /\ Reset(r.policy) = Reset(p) /\ r.allow
<1>1. p.kind = "time_window" /\ r = RegisterTimeWindow(p, 0)
  BY DEF RegisterEvent, TimeWindowPolicy
<1>2. Unexpired(p, 0) = << >>
  BY DEF Unexpired
<1>3. r = [allow |-> TRUE, policy |-> [p EXCEPT !.event_timestamps = <<0>>]]
  <2>1. Len(<< >>) < p.max_events /\ Append(<< >>, 0) = <<0>>
    BY DEF TimeWindowPolicy
  <2> QED BY <1>1, <1>2, <2>1 DEF RegisterTimeWindow
<1>4. r.policy \in TimeWindowPolicy /\ r.allow
  <2>1. r.allow /\ r.policy = [p EXCEPT !.event_timestamps = <<0>>]
    BY <1>3, Parts
  <2>2. <<0>> \in Seq(Nat)
    OBVIOUS
  <2> QED BY <2>1, <2>2 DEF TimeWindowPolicy
<1>5. Reset(r.policy) = ResetTimeWindow(r.policy) /\ Reset(p) = ResetTimeWindow(p)
  BY <1>1, <1>4, ResetOf DEF Policy, TimeWindowPolicy
<1>6. ResetTimeWindow(r.policy) = ResetTimeWindow(p)
  BY <1>3 DEF ResetTimeWindow, TimeWindowPolicy
<1> QED BY <1>4, <1>5, <1>6

\* A new bucket refuses its first event only when it cannot hold a token.
LEMMA RegisterBucket ==
    ASSUME NEW p \in TokenBucketPolicy, p.last_refill = NoInstant, p.tokens = p.capacity,
           NEW r, r = RegisterEvent(p, 0)
    PROVE  /\ r.policy \in TokenBucketPolicy /\ Reset(r.policy) = Reset(p)
           /\ r.allow = (p.capacity >= TokenUnit)
<1>1. p.kind = "token_bucket" /\ r = RegisterTokenBucket(p, 0)
  BY DEF RegisterEvent, TokenBucketPolicy
<1>2. Refilled(p, 0) = [p EXCEPT !.last_refill = 0]
  BY DEF Refilled, TokenBucketPolicy
<1>3. r = [allow |-> p.capacity >= TokenUnit,
           policy |-> [p EXCEPT !.last_refill = 0,
                                !.tokens = IF p.capacity >= TokenUnit THEN p.capacity - TokenUnit ELSE p.capacity]]
  BY <1>1, <1>2 DEF RegisterTokenBucket, TokenBucketPolicy
<1>4. r.policy \in TokenBucketPolicy /\ r.allow = (p.capacity >= TokenUnit)
  <2>1. /\ r.allow = (p.capacity >= TokenUnit)
        /\ r.policy = [p EXCEPT !.last_refill = 0,
                                !.tokens = IF p.capacity >= TokenUnit THEN p.capacity - TokenUnit ELSE p.capacity]
    BY <1>3, Parts
  <2>2. 0 \in Nat \cup {NoInstant}
    OBVIOUS
  <2>3. (IF p.capacity >= TokenUnit THEN p.capacity - TokenUnit ELSE p.capacity) \in Nat
    BY TokenUnitAssumption DEF TokenBucketPolicy
  <2>4. r.policy \in TokenBucketPolicy
    BY <2>1, <2>2, <2>3 DEF TokenBucketPolicy
  <2> QED BY <2>1, <2>4
<1>5. Reset(r.policy) = ResetTokenBucket(r.policy) /\ Reset(p) = ResetTokenBucket(p)
  BY <1>1, <1>4, ResetOf DEF Policy, TokenBucketPolicy
<1>6. ResetTokenBucket(r.policy) = ResetTokenBucket(p)
  <2>1. r.policy = [p EXCEPT !.last_refill = 0,
                             !.tokens = IF p.capacity >= TokenUnit THEN p.capacity - TokenUnit ELSE p.capacity]
    BY <1>3, Parts
  <2> QED BY <2>1 DEF ResetTokenBucket, TokenBucketPolicy
<1> QED BY <1>4, <1>5, <1>6

\* What the constructors return.
LEMMA NewPolicy ==
    ASSUME NEW p \in DefaultPolicies
    PROVE  /\ p \in Policy /\ Reset(p) = p
           /\ p.kind = "count_based" => p.current_count = 0
           /\ p.kind = "time_window" => p.event_timestamps = << >> /\ p.max_events > 0
           /\ p.kind = "exponential_backoff" => p.event_count = 0 /\ p.next_allowed = 1
           /\ p.kind = "token_bucket" => p.tokens = p.capacity /\ p.last_refill = NoInstant
<1>1. p \in Policy /\ Reset(p) = p /\ ConstructorError(p) = ""
  BY RedisPolicyAssumption
<1>2. p.kind = "count_based" => p.current_count = 0
  BY <1>1, KindOf, ResetOf DEF ResetCountBased, CountBasedPolicy
<1>3. p.kind = "time_window" => p.event_timestamps = << >>
  BY <1>1, KindOf, ResetOf DEF ResetTimeWindow, TimeWindowPolicy
<1>4. p.kind = "exponential_backoff" => p.event_count = 0 /\ p.next_allowed = 1
  BY <1>1, KindOf, ResetOf DEF ResetExponentialBackoff, ExponentialBackoffPolicy
<1>5. p.kind = "token_bucket" => p.tokens = p.capacity /\ p.last_refill = NoInstant
  BY <1>1, KindOf, ResetOf DEF ResetTokenBucket, TokenBucketPolicy
<1>6. ASSUME p.kind = "time_window" PROVE p.max_events > 0
  <2>1. p.max_events \in Nat
    BY <1>1, <1>6, KindOf DEF TimeWindowPolicy
  <2>2. p.max_events # 0
    BY <1>1, <1>6 DEF ConstructorError
  <2> QED BY <2>1, <2>2
<1> QED BY <1>1, <1>2, <1>3, <1>4, <1>5, <1>6

\* register_event on a copy of a policy that may be old but has counted no
\* more than was allowed: it suppresses only over the limit, and again counts
\* no more than is allowed.
LEMMA Register ==
    ASSUME NEW d \in DefaultPolicies, NEW p \in Policy, Reset(p) = d,
           "seq" \in Visitor(p.kind) \/ p = d,
           NEW n \in Nat, WithinGranted(p, n),
           NEW r, r = RegisterEvent(p, 0)
    PROVE  /\ r.policy \in Policy /\ Reset(r.policy) = d
           /\ r.allow => WithinGranted(r.policy, n + 1)
           /\ ~r.allow => WithinGranted(r.policy, n) /\ n >= Burst(d)
<1>0. p.kind = d.kind
  BY ResetOf
<1>1. CASE p.kind = "count_based"
  <2>1. p \in CountBasedPolicy
    BY <1>1, KindOf
  <2>2. /\ r.policy \in CountBasedPolicy /\ Reset(r.policy) = d
        /\ r.policy.max_count = p.max_count
        /\ r.policy.current_count = p.current_count + 1
        /\ r.allow = (p.current_count + 1 <= p.max_count)
    BY <2>1, RegisterCount
  <2>3. p.max_count = d.max_count
    BY <1>1, <2>1, ResetOf DEF ResetCountBased, CountBasedPolicy
  <2>4. p.current_count <= n \/ p.max_count <= n
    BY <1>1 DEF WithinGranted
  <2>5. p.current_count \in Nat /\ p.max_count \in Nat /\ r.policy.kind = "count_based"
    BY <2>1, <2>2 DEF CountBasedPolicy
  <2>6. r.allow => WithinGranted(r.policy, n + 1)
    BY <2>2, <2>4, <2>5 DEF WithinGranted
  <2>7. ~r.allow => p.max_count <= n
    <3>1. ~r.allow => ~(p.current_count + 1 <= p.max_count)
      BY <2>2, Zenon
    <3> QED BY <2>4, <2>5, <3>1
  <2>8. ~r.allow => WithinGranted(r.policy, n)
    BY <2>2, <2>5, <2>7 DEF WithinGranted
  <2>9. ~r.allow => n >= Burst(d)
    BY <1>0, <1>1, <2>3, <2>5, <2>7 DEF Burst
  <2> QED BY <2>2, <2>6, <2>8, <2>9 DEF Policy
<1>2. CASE p.kind = "exponential_backoff"
  <2>1. p \in ExponentialBackoffPolicy
    BY <1>2, KindOf
  <2>2. /\ r.policy \in ExponentialBackoffPolicy /\ Reset(r.policy) = d
        /\ r.allow = (p.event_count + 1 = p.next_allowed)
        /\ r.policy.event_count = p.event_count + 1
        /\ r.policy.next_allowed = IF r.allow THEN 2 * p.next_allowed ELSE p.next_allowed
    BY <2>1, RegisterBackoff
  <2>3. r.policy.kind = "exponential_backoff" /\ Burst(d) = 2
    BY <1>0, <1>2, <2>2 DEF ExponentialBackoffPolicy, Burst
  <2>4. \/ p.event_count = 0 /\ p.next_allowed = 1
        \/ p.event_count = 1 /\ p.next_allowed = 2 /\ n >= 1
        \/ n >= 2
    BY <1>2 DEF WithinGranted
  <2>5. ~r.allow => n >= 2
    <3>1. ~r.allow => ~(p.event_count + 1 = p.next_allowed)
      BY <2>2, Zenon
    <3> QED BY <2>4, <3>1
  <2>6. r.allow => WithinGranted(r.policy, n + 1)
    <3>1. CASE n >= 2
      BY <2>3, <3>1 DEF WithinGranted
    <3>2. CASE p.event_count = 0 /\ p.next_allowed = 1
      BY <2>2, <2>3, <3>2 DEF WithinGranted
    <3>3. CASE p.event_count = 1 /\ p.next_allowed = 2 /\ n >= 1
      BY <2>3, <3>3 DEF WithinGranted
    <3> QED BY <2>4, <3>1, <3>2, <3>3
  <2>7. ~r.allow => WithinGranted(r.policy, n)
    BY <2>3, <2>5 DEF WithinGranted
  <2> QED BY <2>2, <2>3, <2>5, <2>6, <2>7 DEF Policy
<1>3. CASE p.kind = "time_window"
  <2>1. p = d /\ p \in TimeWindowPolicy /\ p.event_timestamps = << >> /\ p.max_events > 0
    BY <1>3, KindOf, NewPolicy DEF Visitor, TimeWindowVisitor
  <2>2. r.policy \in TimeWindowPolicy /\ Reset(r.policy) = d /\ r.allow
    BY <2>1, RegisterWindow
  <2>3. WithinGranted(r.policy, n + 1)
    BY <2>2 DEF WithinGranted, TimeWindowPolicy
  <2> QED BY <2>2, <2>3 DEF Policy
<1>4. CASE p.kind = "token_bucket"
  <2>1. p = d /\ p \in TokenBucketPolicy /\ p.last_refill = NoInstant /\ p.tokens = p.capacity
    BY <1>4, KindOf, NewPolicy DEF Visitor, TokenBucketVisitor
  <2>2. /\ r.policy \in TokenBucketPolicy /\ Reset(r.policy) = d
        /\ r.allow = (p.capacity >= TokenUnit)
    BY <2>1, RegisterBucket
  <2>3. WithinGranted(r.policy, n + 1) /\ WithinGranted(r.policy, n)
    BY <2>2 DEF WithinGranted, TokenBucketPolicy
  <2>4. ~r.allow => Burst(d) = 0
    <3>1. p.capacity \in Nat /\ Burst(d) = p.capacity \div TokenUnit
      BY <1>4, <2>1 DEF Burst, TokenBucketPolicy
    <3>2. ASSUME NEW c \in Nat, c < TokenUnit PROVE c \div TokenUnit = 0
      BY <3>2, TokenUnitAssumption
    <3>3. ~r.allow => ~(p.capacity >= TokenUnit)
      BY <2>2, Zenon
    <3> QED BY <3>1, <3>2, <3>3, TokenUnitAssumption
  <2> QED BY <2>2, <2>3, <2>4 DEF Policy
<1> QED BY <1>1, <1>2, <1>3, <1>4, KindOf

-----------------------------------------------------------------------------
(* The copies of an entry. *)

\* A policy is serialized as one of its kind and limits, with the same count.
LEMMA SerializedKeeps ==
    ASSUME NEW p \in Policy, NEW n \in Nat, WithinGranted(p, n)
    PROVE  /\ SerializedPolicy(p) \in Policy
           /\ Reset(SerializedPolicy(p)) = Reset(p)
           /\ WithinGranted(SerializedPolicy(p), n)
<1>1. CASE p.kind \in {"count_based", "exponential_backoff"}
  BY <1>1 DEF SerializedPolicy
<1>2. CASE p.kind = "time_window"
  <2> DEFINE stamps == [i \in DOMAIN p.event_timestamps |-> Elapsed(p.event_timestamps[i], p.event_timestamps[1])]
  <2>1. p \in TimeWindowPolicy /\ SerializedPolicy(p) = [p EXCEPT !.event_timestamps = stamps]
    BY <1>2, KindOf DEF SerializedPolicy, SerializedTimeWindow
  <2>2. p.event_timestamps \in Seq(Nat)
    BY <2>1 DEF TimeWindowPolicy
  <2>3. DOMAIN p.event_timestamps = 1 .. Len(p.event_timestamps) /\ Len(p.event_timestamps) \in Nat
    BY <2>2
  <2>4. \A i \in 1 .. Len(p.event_timestamps) : Elapsed(p.event_timestamps[i], p.event_timestamps[1]) \in Nat
    BY <2>2 DEF Elapsed
  <2>5. stamps \in Seq(Nat)
    BY <2>3, <2>4
  <2> HIDE DEF stamps
  <2>6. SerializedPolicy(p) \in TimeWindowPolicy /\ SerializedPolicy(p).kind = "time_window"
    BY <2>1, <2>5 DEF TimeWindowPolicy
  <2>7. ResetTimeWindow(SerializedPolicy(p)) = ResetTimeWindow(p)
    BY <2>1 DEF ResetTimeWindow, TimeWindowPolicy
  <2> QED BY <1>2, <2>6, <2>7, ResetOf DEF Policy, WithinGranted
<1>3. CASE p.kind = "token_bucket"
  <2>1. p \in TokenBucketPolicy /\ SerializedPolicy(p) = [p EXCEPT !.last_refill = NoInstant]
    BY <1>3, KindOf DEF SerializedPolicy, SerializedTokenBucket
  <2>2. SerializedPolicy(p) \in TokenBucketPolicy /\ SerializedPolicy(p).kind = "token_bucket"
    BY <2>1 DEF TokenBucketPolicy
  <2>3. ResetTokenBucket(SerializedPolicy(p)) = ResetTokenBucket(p)
    BY <2>1 DEF ResetTokenBucket, TokenBucketPolicy
  <2> QED BY <1>3, <2>2, <2>3, ResetOf DEF Policy, WithinGranted
<1> QED BY <1>1, <1>2, <1>3, KindOf

LEMMA CopySerialized ==
    ASSUME NEW value, NEW p, NEW n \in Nat, NEW m \in Nat, IsCopy(value, p, n, m)
    PROVE  IsCopy(Serialized(value), p, n, m)
<1>1. value \in Entry /\ value.policy \in Policy
  BY DEF IsCopy, Entry
<1>2. /\ SerializedPolicy(value.policy) \in Policy
      /\ Reset(SerializedPolicy(value.policy)) = Reset(value.policy)
      /\ WithinGranted(SerializedPolicy(value.policy), n)
  BY <1>1, SerializedKeeps DEF IsCopy
<1>3. /\ Serialized(value) \in Entry
      /\ Serialized(value).policy = SerializedPolicy(value.policy)
      /\ Serialized(value).suppressed_count = value.suppressed_count
      /\ Serialized(value).reported_count = value.reported_count
  BY <1>1, <1>2 DEF Serialized, Entry
<1> QED BY <1>2, <1>3 DEF IsCopy

\* An old copy stays one as more events are allowed and suppressed.
LEMMA CopyGrows ==
    ASSUME NEW value, NEW p, NEW n \in Nat, NEW m \in Nat, IsCopy(value, p, n, m),
           NEW more \in Nat, NEW most \in Nat, n <= more, m <= most
    PROVE  IsCopy(value, p, more, most)
<1>1. value \in Entry /\ value.policy \in Policy /\ value.suppressed_count \in Nat
  BY DEF IsCopy, Entry
<1>2. WithinGranted(value.policy, n)
  BY DEF IsCopy
<1>3. WithinGranted(value.policy, more)
  <2>1. CASE value.policy.kind = "count_based"
    <3>1. value.policy.current_count \in Nat /\ value.policy.max_count \in Nat
      BY <1>1, <2>1, KindOf DEF CountBasedPolicy
    <3> QED BY <1>2, <2>1, <3>1 DEF WithinGranted
  <2>2. CASE value.policy.kind # "count_based"
    BY <1>2, <2>2 DEF WithinGranted
  <2> QED BY <2>1, <2>2
<1> QED BY <1>1, <1>3 DEF IsCopy

\* What is read back is what was written.
LEMMA CopyRestored ==
    ASSUME NEW value, NEW p, NEW n \in Nat, NEW m \in Nat, IsCopy(value, p, n, m)
    PROVE  Restored(value) = value
  BY DEF IsCopy, Restored, Entry

\* A claim reports all that was suppressed.
LEMMA CopyClaimed ==
    ASSUME NEW value, NEW p, NEW n \in Nat, NEW m \in Nat, IsCopy(value, p, n, m)
    PROVE  IsCopy([value EXCEPT !.reported_count = value.suppressed_count], p, n, m)
  BY DEF IsCopy, Entry

\* A new entry is a copy of any.
LEMMA CopyNew ==
    ASSUME default_policy \in DefaultPolicies, NEW n \in Nat, NEW m \in Nat
    PROVE  IsCopy(NewState, default_policy, n, m)
<1>1. default_policy \in Policy /\ Reset(default_policy) = default_policy
  BY NewPolicy
<1>2. WithinGranted(default_policy, n)
  <2>1. default_policy.kind = "count_based" => default_policy.current_count = 0
    BY NewPolicy
  <2>2. default_policy.kind = "exponential_backoff" =>
          default_policy.event_count = 0 /\ default_policy.next_allowed = 1
    BY NewPolicy
  <2> QED BY <2>1, <2>2 DEF WithinGranted
<1> QED BY <1>1, <1>2 DEF IsCopy, NewState, Entry

-----------------------------------------------------------------------------
(* The invariant. *)

\* The frame of a thread that takes no step.
LEMMA FrameKept ==
    ASSUME CopiesInv, default_policy' = default_policy,
           granted' \in [Hashes -> Nat], denied' \in [Hashes -> Nat],
           \A h \in Hashes : granted[h] <= granted'[h] /\ denied[h] <= denied'[h],
           NEW u \in Threads,
           pc'[u] = pc[u], hash'[u] = hash[u], key'[u] = key[u], local'[u] = local[u]
    PROVE  FrameOf(u)'
<1>1. FrameOf(u) /\ granted \in [Hashes -> Nat] /\ denied \in [Hashes -> Nat]
  BY DEF CopiesInv, TypeOK
<1>2. ASSUME pc[u] \in {"access", "set", "walk_set"}
      PROVE  IsCopy(local[u], default_policy, granted'[hash[u]], denied'[hash[u]])
  <2>1. hash[u] \in Hashes /\ IsCopy(local[u], default_policy, granted[hash[u]], denied[hash[u]])
    BY <1>1, <1>2 DEF FrameOf, CopyOf
  <2>2. /\ granted[hash[u]] \in Nat /\ denied[hash[u]] \in Nat
        /\ granted'[hash[u]] \in Nat /\ denied'[hash[u]] \in Nat
        /\ granted[hash[u]] <= granted'[hash[u]] /\ denied[hash[u]] <= denied'[hash[u]]
    BY <1>1, <2>1
  <2> QED BY <2>1, <2>2, CopyGrows
<1> QED BY <1>1, <1>2 DEF FrameOf, CopyOf, Readable

\* A step of thread t that decides nothing and writes nothing but copies.
LEMMA StepOf ==
    ASSUME CopiesInv, TypeOK', NEW t \in Threads, UNCHANGED <<default_policy, granted, denied>>,
           \A u \in Threads : u # t =>
              pc'[u] = pc[u] /\ hash'[u] = hash[u] /\ key'[u] = key[u] /\ local'[u] = local[u],
           \A h \in Hashes : store'[h] # None => store'[h] = store[h] \/ CopyOf(store'[h], h),
           FrameOf(t)'
    PROVE  CopiesInv'
<1>1. \A h \in Hashes : granted[h] <= granted'[h] /\ denied[h] <= denied'[h]
  BY DEF CopiesInv, TypeOK
<1>2. granted' \in [Hashes -> Nat] /\ denied' \in [Hashes -> Nat]
  BY DEF TypeOK
<1>3. \A u \in Threads : FrameOf(u)'
  <2> SUFFICES ASSUME NEW u \in Threads, u # t PROVE FrameOf(u)'
    OBVIOUS
  <2> QED BY <1>1, <1>2, FrameKept
<1>4. SuppressesOnlyOverLimit'
  BY DEF CopiesInv, SuppressesOnlyOverLimit
<1>5. \A h \in Hashes : store'[h] # None => CopyOf(store[h], h)' 
  BY DEF CopiesInv, CopyOf
<1> QED BY <1>3, <1>4, <1>5 DEF CopiesInv

LEMMA CopiesInit == Init => CopiesInv
  BY RedisBounds DEF Init, CopiesInv, TypeOK, SuppressesOnlyOverLimit, FrameOf

LEMMA StartStep ==
    ASSUME CopiesInv, NEW t \in Threads,
           (\E h \in Hashes : Call(t, h)) \/ StartClear(t) \/ StartRetain(t) \/ EndRetain(t)
    PROVE  CopiesInv'
<1>1. CASE \E h \in Hashes : Call(t, h)
  <2>1. TypeOK'
    BY <1>1 DEF Call, Goto, CopiesInv, TypeOK, connection, decisions
  <2>2. FrameOf(t)'
    BY <1>1 DEF Call, Goto, CopiesInv, TypeOK, FrameOf
  <2> QED BY <1>1, <2>1, <2>2, StepOf DEF Call, Goto, CopiesInv, TypeOK, connection, decisions
<1>2. ASSUME NEW step \in {"clear", "walk"}, Scan(t, step) PROVE CopiesInv'
  <2>1. TypeOK'
    BY <1>2, NoneAssumption, ProcessAssumption DEF Scan, Free, Acquire, Present, Goto, CopiesInv, TypeOK, decisions
  <2>2. FrameOf(t)'
    BY <1>2 DEF Scan, Goto, CopiesInv, TypeOK, FrameOf
  <2> QED BY <1>2, <2>1, <2>2, StepOf DEF Scan, Goto, CopiesInv, TypeOK, decisions
<1>3. CASE EndRetain(t)
  <2>1. TypeOK'
    BY <1>3, NoneAssumption, ProcessAssumption DEF EndRetain, Release, Goto, CopiesInv, TypeOK, frame, decisions
  <2>2. FrameOf(t)'
    BY <1>3 DEF EndRetain, Goto, CopiesInv, TypeOK, FrameOf
  <2> QED BY <1>3, <2>1, <2>2, StepOf DEF EndRetain, Goto, CopiesInv, TypeOK, frame, decisions
<1> QED BY <1>1, <1>2, <1>3 DEF StartClear, StartRetain

LEMMA ReadStep ==
    ASSUME CopiesInv, NEW t \in Threads, Get(t) \/ DeleteCorrupted(t)
    PROVE  CopiesInv'
<1>0. /\ hash[t] \in Hashes /\ default_policy \in DefaultPolicies
      /\ granted[hash[t]] \in Nat /\ denied[hash[t]] \in Nat
      /\ local \in [Threads -> Entry \cup {None}] 
      /\ pc \in [Threads -> {"idle", "get", "del", "access", "set", "warn",
                             "clear", "walk", "walk_del", "walk_set", "walk_warn"}]
  BY DEF CopiesInv, FrameOf, TypeOK, Get, DeleteCorrupted
<1>1. IsCopy(NewState, default_policy, granted[hash[t]], denied[hash[t]]) /\ NewState \in Entry
      /\ NewState.policy = default_policy
  BY <1>0, CopyNew DEF IsCopy, NewState
\* Both leave the thread a copy, or nothing yet.
<1>2. CASE pc' = [pc EXCEPT ![t] = "access"] /\ local' = [local EXCEPT ![t] = NewState]
  <2>1. UNCHANGED <<hash, key, todo, decisions, default_policy>>
    BY DEF Get, DeleteCorrupted
  <2>2. FrameOf(t)'
    BY <1>0, <1>1, <1>2, <2>1 DEF FrameOf, CopyOf, decisions
  <2>3. /\ lock' \in [{Process[u] : u \in Threads} -> Threads \cup {None}]
        /\ \A p \in DOMAIN lock' : lock'[p] = None \/ Process[lock'[p]] = p
    BY <1>2, ProcessAssumption DEF Get, DeleteCorrupted, Goto, Acquire, Release, CopiesInv, TypeOK
  <2>4. /\ store' \in [Hashes -> Entry \cup {None}]
        /\ \A h \in Hashes : store'[h] # None => store'[h] = store[h]
    BY <1>0 DEF Get, DeleteCorrupted, CopiesInv, TypeOK
  <2>5. TypeOK'
    BY <1>1, <1>2, <2>1, <2>3, <2>4 DEF CopiesInv, TypeOK, decisions
  <2> QED BY <1>0, <1>2, <2>1, <2>2, <2>4, <2>5, StepOf DEF decisions
<1>3. CASE Get(t) /\ store[hash[t]] # None /\ Readable(store[hash[t]])
           /\ pc' = [pc EXCEPT ![t] = "access"]
           /\ local' = [local EXCEPT ![t] = Restored(store[hash[t]])]
  <2>0. UNCHANGED <<hash, key, todo, decisions, default_policy, store, lock>>
    BY <1>3, <1>0 DEF Get, Goto, Acquire
  <2>1. IsCopy(store[hash[t]], default_policy, granted[hash[t]], denied[hash[t]])
    BY <1>0, <1>3 DEF CopiesInv, CopyOf
  <2>2. Restored(store[hash[t]]) = store[hash[t]] /\ store[hash[t]] \in Entry
    BY <1>0, <2>1, CopyRestored DEF IsCopy
  <2>3. FrameOf(t)'
    BY <1>0, <1>3, <2>0, <2>1, <2>2 DEF FrameOf, CopyOf, decisions
  <2>4. TypeOK'
    BY <1>3, <2>0, <2>2 DEF CopiesInv, TypeOK, decisions
  <2> QED BY <1>0, <1>3, <2>0, <2>3, <2>4, StepOf DEF decisions
<1>4. CASE Get(t) /\ pc' = [pc EXCEPT ![t] = "del"] /\ Acquire(t) /\ local' = local
  <2>0. UNCHANGED <<hash, key, todo, decisions, default_policy, store, local>>
    BY <1>4 DEF Get
  <2>1. FrameOf(t)'
    BY <1>0, <1>4, <2>0 DEF FrameOf
  <2>2. TypeOK'
    BY <1>4, <2>0, ProcessAssumption DEF CopiesInv, TypeOK, Acquire, decisions
  <2> QED BY <1>0, <1>4, <2>0, <2>1, <2>2, StepOf DEF decisions
<1> QED BY <1>2, <1>3, <1>4 DEF Get, DeleteCorrupted, Goto

LEMMA WriteStep ==
    ASSUME CopiesInv, NEW t \in Threads, Set(t) \/ Warn(t)
    PROVE  CopiesInv'
<1>0. /\ hash[t] \in Hashes /\ default_policy \in DefaultPolicies
      /\ granted \in [Hashes -> Nat] /\ denied \in [Hashes -> Nat]
      /\ granted[hash[t]] \in Nat /\ denied[hash[t]] \in Nat
      /\ local \in [Threads -> Entry \cup {None}]
  BY DEF CopiesInv, FrameOf, TypeOK, Set, Warn
<1>1. UNCHANGED <<lock, decisions, default_policy, key, todo>>
  BY DEF Set, Warn, Done, connection, frame
\* The thread is left without a copy, and with a signature if it goes on.
<1>2. FrameOf(t)'
  BY <1>0, HashAssumption DEF Set, Warn, Done, Goto, frame, FrameOf, CopiesInv, TypeOK
<1>3. /\ store' \in [Hashes -> Entry \cup {None}]
      /\ \A h \in Hashes : store'[h] # None => store'[h] = store[h] \/ CopyOf(store'[h], h)
  <2>1. CASE UNCHANGED store
    BY <2>1 DEF CopiesInv, TypeOK
  <2>2. CASE Set(t) /\ store' = [store EXCEPT ![hash[t]] = Serialized(local[t])]
    <3>1. IsCopy(local[t], default_policy, granted[hash[t]], denied[hash[t]])
      BY <2>2 DEF CopiesInv, FrameOf, CopyOf, Set
    <3>2. IsCopy(Serialized(local[t]), default_policy, granted[hash[t]], denied[hash[t]])
      BY <1>0, <3>1, CopySerialized
    <3> QED BY <1>0, <2>2, <3>2 DEF IsCopy, CopyOf, CopiesInv, TypeOK
  <2> QED BY <2>1, <2>2 DEF Set, Warn, connection
<1>4. \A h \in Hashes : store'[h] # None =>
          Reset(store'[h].policy) = default_policy /\ store'[h].reported_count <= store'[h].suppressed_count
  BY <1>3 DEF CopyOf, IsCopy, CopiesInv, TypeOK
<1>5. /\ pc' \in [Threads -> {"idle", "get", "del", "access", "set", "warn",
                              "clear", "walk", "walk_del", "walk_set", "walk_warn"}]
      /\ hash' \in [Threads -> Hashes \cup {None}]
      /\ local' \in [Threads -> Entry \cup {None}]
  BY HashAssumption, RedisBounds DEF Set, Warn, Done, Goto, frame, CopiesInv, TypeOK
<1>6. TypeOK'
  BY <1>1, <1>3, <1>4, <1>5 DEF CopiesInv, TypeOK, decisions
<1>7. \A u \in Threads : u # t =>
          pc'[u] = pc[u] /\ hash'[u] = hash[u] /\ key'[u] = key[u] /\ local'[u] = local[u]
  BY DEF Set, Warn, Done, Goto, frame, CopiesInv, TypeOK
<1> QED BY <1>1, <1>2, <1>3, <1>6, <1>7, StepOf DEF decisions

\* The accessor: what it decides keeps the limit, and every copy stays one.
LEMMA AccessStep ==
    ASSUME CopiesInv, NEW t \in Threads, Access(t)
    PROVE  CopiesInv'
<1> DEFINE h == hash[t]
           r == RegisterEvent(local[t].policy, 0)
           n == granted[h]
           m == denied[h]
           copy == [local[t] EXCEPT !.policy = r.policy,
                                    !.suppressed_count = IF r.allow THEN @ ELSE @ + 1]
<1>0. /\ h \in Hashes /\ default_policy \in DefaultPolicies
      /\ granted \in [Hashes -> Nat] /\ denied \in [Hashes -> Nat]
      /\ n \in Nat /\ m \in Nat
      /\ local \in [Threads -> Entry \cup {None}] /\ pc[t] = "access"
      /\ IsCopy(local[t], default_policy, n, m) /\ local[t] \in Entry
      /\ Readable(local[t]) \/ local[t].policy = default_policy
  BY DEF CopiesInv, FrameOf, TypeOK, Access, CopyOf, IsCopy
<1>1. /\ local' = [local EXCEPT ![t] = copy]
      /\ granted' = [granted EXCEPT ![h] = IF r.allow THEN n + 1 ELSE n]
      /\ denied' = [denied EXCEPT ![h] = IF r.allow THEN m ELSE m + 1]
      /\ pc' = [pc EXCEPT ![t] = "set"]
      /\ UNCHANGED <<store, lock, hash, key, todo, default_policy>>
  <2>1. local' = [local EXCEPT ![t] = copy]
    BY <1>0 DEF Access
  <2> QED BY <1>0, <2>1 DEF Access, Goto, connection
<1>2. /\ r.policy \in Policy /\ Reset(r.policy) = default_policy
      /\ r.allow => WithinGranted(r.policy, n + 1)
      /\ ~r.allow => WithinGranted(r.policy, n) /\ n >= Burst(default_policy)
  <2>1. /\ local[t].policy \in Policy /\ Reset(local[t].policy) = default_policy
        /\ WithinGranted(local[t].policy, n)
        /\ "seq" \in Visitor(local[t].policy.kind) \/ local[t].policy = default_policy
    BY <1>0 DEF IsCopy, Entry, Readable
  <2> HIDE DEF n
  <2> QED BY <1>0, <2>1, Register
<1>3. granted' \in [Hashes -> Nat] /\ denied' \in [Hashes -> Nat]
  <2> HIDE DEF r, h
  <2> QED BY <1>0, <1>1
<1>4. /\ granted'[h] = IF r.allow THEN n + 1 ELSE n
      /\ denied'[h] = IF r.allow THEN m ELSE m + 1
      /\ \A g \in Hashes : granted[g] <= granted'[g] /\ denied[g] <= denied'[g]
  <2> HIDE DEF r, h
  <2> QED BY <1>0, <1>1
<1>5. IsCopy(copy, default_policy, granted'[h], denied'[h])
  <2>1. local[t].suppressed_count \in Nat /\ local[t].reported_count \in Nat
        /\ local[t].suppressed_count <= m /\ local[t].reported_count <= local[t].suppressed_count
    BY <1>0 DEF IsCopy, Entry
  <2>2. /\ copy.policy = r.policy /\ copy.reported_count = local[t].reported_count
        /\ copy.suppressed_count = IF r.allow THEN local[t].suppressed_count ELSE local[t].suppressed_count + 1
    <3> HIDE DEF r
    <3> QED BY <1>0 DEF Entry
  <2>3. copy \in Entry
    <3>1. ASSUME NEW q \in Policy, NEW c \in Nat
          PROVE  [local[t] EXCEPT !.policy = q, !.suppressed_count = c] \in Entry
      BY <1>0 DEF Entry
    <3>2. (IF r.allow THEN local[t].suppressed_count ELSE local[t].suppressed_count + 1) \in Nat
      BY <2>1
    <3> HIDE DEF r
    <3> QED BY <1>2, <3>1, <3>2
  <2> HIDE DEF copy, r, n, m, h
  <2> QED BY <1>0, <1>2, <1>4, <2>1, <2>2, <2>3 DEF IsCopy
<1>6. FrameOf(t)'
  <2>1. hash'[t] = h /\ local'[t] = copy /\ pc'[t] = "set"
    BY <1>0, <1>1 DEF CopiesInv, TypeOK
  <2> HIDE DEF copy, h
  <2> QED BY <1>0, <1>1, <1>5, <2>1 DEF FrameOf, CopyOf
<1>7. \A u \in Threads : FrameOf(u)'
  <2> SUFFICES ASSUME NEW u \in Threads, u # t PROVE FrameOf(u)'
    BY <1>6
  <2>1. pc'[u] = pc[u] /\ hash'[u] = hash[u] /\ key'[u] = key[u] /\ local'[u] = local[u]
    <3> HIDE DEF copy
    <3> QED BY <1>0, <1>1 DEF CopiesInv, TypeOK
  <2> HIDE DEF copy, h, r
  <2> QED BY <1>1, <1>3, <1>4, <2>1, FrameKept
<1>8. \A g \in Hashes : store'[g] # None => CopyOf(store[g], g)'
  <2> SUFFICES ASSUME NEW g \in Hashes, store[g] # None
               PROVE  IsCopy(store[g], default_policy, granted'[g], denied'[g])
    BY <1>1 DEF CopyOf
  <2>1. IsCopy(store[g], default_policy, granted[g], denied[g])
    BY DEF CopiesInv, CopyOf
  <2>2. granted[g] \in Nat /\ denied[g] \in Nat /\ granted'[g] \in Nat /\ denied'[g] \in Nat
    BY <1>0, <1>3
  <2> QED BY <1>4, <2>1, <2>2, CopyGrows
<1>9. SuppressesOnlyOverLimit'
  <2> SUFFICES ASSUME NEW g \in Hashes, denied'[g] > 0
               PROVE  granted'[g] >= Burst(default_policy)
    BY <1>1 DEF SuppressesOnlyOverLimit
  <2>1. denied[g] > 0 => granted[g] >= Burst(default_policy)
    BY DEF CopiesInv, SuppressesOnlyOverLimit
  <2>0. Burst(default_policy) \in Nat
    <3>1. default_policy \in Policy
      BY <1>0, NewPolicy
    <3>2. \A c \in Nat : c \div TokenUnit \in Nat
      BY TokenUnitAssumption
    <3> QED BY <3>1, <3>2, KindOf DEF Burst, CountBasedPolicy, TimeWindowPolicy, TokenBucketPolicy
  <2>2. CASE denied[g] > 0
    <3>1. granted[g] \in Nat /\ granted'[g] \in Nat /\ granted[g] <= granted'[g]
      BY <1>0, <1>3, <1>4
    <3> QED BY <2>0, <2>1, <2>2, <3>1
  <2>3. CASE ~(denied[g] > 0)
    <3>1. denied[g] = 0
      BY <1>0, <2>3
    <3>2. g = h /\ ~r.allow
      <4> HIDE DEF r, h
      <4> QED BY <1>0, <1>1, <3>1
    <3> HIDE DEF r
    <3> QED BY <1>2, <1>4, <3>2
  <2> QED BY <2>2, <2>3
<1>10. TypeOK'
  <2>1. copy \in Entry
    BY <1>5 DEF IsCopy
  <2> HIDE DEF copy, h, r
  <2> QED BY <1>1, <1>3, <2>1 DEF CopiesInv, TypeOK
<1> QED BY <1>7, <1>8, <1>9, <1>10 DEF CopiesInv

\* clear, and the end of a TTL: what is removed is nobody's copy.
LEMMA RemoveStep ==
    ASSUME CopiesInv,
           (\E t \in Threads : ClearKeys(t)) \/ (\E h \in Hashes : Expire(h))
    PROVE  CopiesInv'
<1>1. ASSUME NEW t \in Threads, ClearKeys(t) PROVE CopiesInv'
  <2>1. UNCHANGED <<hash, key, local, decisions, default_policy>>
        /\ pc' = [pc EXCEPT ![t] = "idle"]
    BY <1>1 DEF ClearKeys, Goto
  <2>2. /\ store' \in [Hashes -> Entry \cup {None}]
        /\ \A h \in Hashes : store'[h] # None => store'[h] = store[h]
    BY <1>1 DEF ClearKeys, CopiesInv, TypeOK
  <2>3. TypeOK'
    BY <1>1, <2>1, <2>2, ProcessAssumption DEF ClearKeys, Release, CopiesInv, TypeOK, decisions
  <2>4. FrameOf(t)'
    BY <2>1 DEF FrameOf, CopiesInv, TypeOK
  <2> QED BY <2>1, <2>2, <2>3, <2>4, StepOf DEF CopiesInv, TypeOK, decisions
<1>2. ASSUME NEW h \in Hashes, Expire(h) PROVE CopiesInv'
  <2>1. UNCHANGED <<lock, pc, hash, key, local, todo, granted, denied, default_policy>>
        /\ store' = [store EXCEPT ![h] = None]
    BY <1>2 DEF Expire, Delete, frame, decisions
  <2>2. TypeOK'
    BY <2>1 DEF CopiesInv, TypeOK
  <2>3. \A t \in Threads : FrameOf(t)'
    BY <2>1 DEF CopiesInv, FrameOf, CopyOf, Readable
  <2>4. \A g \in Hashes : store'[g] # None => CopyOf(store[g], g)'
    BY <2>1 DEF CopiesInv, TypeOK, CopyOf
  <2>5. SuppressesOnlyOverLimit'
    BY <2>1 DEF CopiesInv, SuppressesOnlyOverLimit
  <2> QED BY <2>2, <2>3, <2>4, <2>5 DEF CopiesInv
<1> QED BY <1>1, <1>2

\* retain: the walk reads and writes the entry of the signature it parsed, and
\* removes the key it scanned.
LEMMA WalkStep ==
    ASSUME CopiesInv, NEW t \in Threads,
           WalkGet(t) \/ WalkDeleteCorrupted(t) \/ WalkSet(t) \/ WalkWarn(t)
    PROVE  CopiesInv'
<1>0. /\ granted \in [Hashes -> Nat] /\ denied \in [Hashes -> Nat]
      /\ local \in [Threads -> Entry \cup {None}]
  BY DEF CopiesInv, TypeOK
<1>1. CASE WalkGet(t)
  <2>1. UNCHANGED <<store, lock, granted, denied, default_policy>>
    BY <1>1 DEF WalkGet, connection, decisions
  <2>2. PICK k \in todo[t] :
            /\ todo' = [todo EXCEPT ![t] = @ \ {k}]
            /\ \/ UNCHANGED <<pc, hash, key, local>>
               \/ /\ ParsedHash(k) \in Hashes /\ store[ParsedHash(k)] # None
                  /\ hash' = [hash EXCEPT ![t] = ParsedHash(k)]
                  /\ key' = [key EXCEPT ![t] = k]
                  /\ local' = [local EXCEPT ![t] = IF Readable(store[ParsedHash(k)])
                                                      THEN Restored(store[ParsedHash(k)]) ELSE None]
                  /\ pc' = [pc EXCEPT ![t] = IF Readable(store[ParsedHash(k)]) THEN "walk_set" ELSE "walk_del"]
    BY <1>1 DEF WalkGet, Goto
  <2>3. k \in Hashes
    BY DEF CopiesInv, TypeOK
  <2>4. CASE UNCHANGED <<pc, hash, key, local>>
    <3>1. TypeOK'
      BY <2>1, <2>2, <2>4 DEF CopiesInv, TypeOK
    <3>2. FrameOf(t)'
      BY <2>1, <2>4 DEF FrameOf, CopiesInv, CopyOf, Readable
    <3> QED BY <2>1, <2>4, <3>1, <3>2, StepOf
  <2>5. ASSUME NEW h, h = ParsedHash(k), h \in Hashes, store[h] # None,
               hash' = [hash EXCEPT ![t] = h], key' = [key EXCEPT ![t] = k],
               local' = [local EXCEPT ![t] = IF Readable(store[h]) THEN Restored(store[h]) ELSE None],
               pc' = [pc EXCEPT ![t] = IF Readable(store[h]) THEN "walk_set" ELSE "walk_del"]
        PROVE  CopiesInv'
    <3>1. IsCopy(store[h], default_policy, granted[h], denied[h])
      BY <2>5 DEF CopiesInv, CopyOf
    <3>2. Restored(store[h]) = store[h] /\ store[h] \in Entry
      BY <1>0, <2>5, <3>1, CopyRestored DEF IsCopy
    <3>3. TypeOK'
      BY <2>1, <2>2, <2>3, <2>5, <3>2 DEF CopiesInv, TypeOK
    <3>4. FrameOf(t)'
      <4>1. hash'[t] = h /\ key'[t] = k
        BY <2>5 DEF CopiesInv, TypeOK
      <4>2. CASE Readable(store[h])
        <5>1. local'[t] = store[h] /\ pc'[t] = "walk_set"
          BY <1>0, <2>5, <3>2, <4>2 DEF CopiesInv, TypeOK
        <5> QED BY <2>1, <2>3, <2>5, <3>1, <4>1, <4>2, <5>1 DEF FrameOf, CopyOf, Readable
      <4>3. CASE ~Readable(store[h])
        <5>1. pc'[t] = "walk_del"
          BY <2>5, <4>3 DEF CopiesInv, TypeOK
        <5> QED BY <2>5, <4>1, <5>1 DEF FrameOf
      <4> QED BY <4>2, <4>3
    <3>5. \A u \in Threads : u # t =>
              pc'[u] = pc[u] /\ hash'[u] = hash[u] /\ key'[u] = key[u] /\ local'[u] = local[u]
      BY <2>5 DEF CopiesInv, TypeOK
    <3> QED BY <2>1, <3>3, <3>4, <3>5, StepOf
  <2> QED BY <2>2, <2>4, <2>5
<1>2. CASE WalkDeleteCorrupted(t) \/ WalkSet(t) \/ WalkWarn(t)
  <2>0. UNCHANGED <<lock, todo, granted, denied, default_policy>>
    BY <1>2 DEF WalkDeleteCorrupted, WalkSet, WalkWarn, Continue, frame, connection, decisions
  <2>1. hash[t] \in Hashes /\ (WalkSet(t) => key[t] \in Hashes)
    BY <1>2 DEF CopiesInv, FrameOf, WalkDeleteCorrupted, WalkSet, WalkWarn
  <2>2. FrameOf(t)'
    BY <1>2, <2>1, HashAssumption DEF WalkDeleteCorrupted, WalkSet, WalkWarn, Continue, Goto, frame,
                                      FrameOf, CopiesInv, TypeOK
  <2>3. /\ pc' \in [Threads -> {"idle", "get", "del", "access", "set", "warn",
                                "clear", "walk", "walk_del", "walk_set", "walk_warn"}]
        /\ hash' \in [Threads -> Hashes \cup {None}]
        /\ key' \in [Threads -> Hashes \cup {None}]
        /\ local' \in [Threads -> Entry \cup {None}]
        /\ \A u \in Threads : u # t =>
              pc'[u] = pc[u] /\ hash'[u] = hash[u] /\ key'[u] = key[u] /\ local'[u] = local[u]
    BY <1>2, HashAssumption, SMTT(30) DEF WalkDeleteCorrupted, WalkSet, WalkWarn, Continue, Goto, frame,
                                CopiesInv, TypeOK
  <2>4. /\ store' \in [Hashes -> Entry \cup {None}]
        /\ \A h \in Hashes : store'[h] # None => store'[h] = store[h] \/ CopyOf(store'[h], h)
    <3>1. CASE UNCHANGED store
      BY <3>1 DEF CopiesInv, TypeOK
    <3>2. CASE \E h \in Hashes : store' = [store EXCEPT ![h] = None]
      BY <3>2 DEF CopiesInv, TypeOK
    <3>3. CASE /\ WalkSet(t)
               /\ store' = [store EXCEPT ![hash[t]] =
                               [local[t] EXCEPT !.reported_count = local[t].suppressed_count]]
      <4>1. IsCopy(local[t], default_policy, granted[hash[t]], denied[hash[t]])
        BY <3>3 DEF CopiesInv, FrameOf, CopyOf, WalkSet
      <4>2. IsCopy([local[t] EXCEPT !.reported_count = local[t].suppressed_count],
                   default_policy, granted[hash[t]], denied[hash[t]])
        BY <1>0, <2>1, <4>1, CopyClaimed
      <4> QED BY <2>1, <3>3, <4>2 DEF IsCopy, CopyOf, CopiesInv, TypeOK
    <3> QED BY <1>2, <2>1, <3>1, <3>2, <3>3 DEF WalkDeleteCorrupted, WalkSet, WalkWarn, Delete, connection
  <2>5. TypeOK'
    BY <2>0, <2>3, <2>4 DEF CopiesInv, TypeOK, CopyOf, IsCopy
  <2> QED BY <2>0, <2>2, <2>3, <2>4, <2>5, StepOf
<1> QED BY <1>1, <1>2

LEMMA CopiesStep == CopiesInv /\ [Next]_vars => CopiesInv'
<1> SUFFICES ASSUME CopiesInv, [Next]_vars PROVE CopiesInv'
  OBVIOUS
<1>1. CASE UNCHANGED vars
  <2>1. UNCHANGED <<default_policy, store, lock, pc, hash, key, local, todo, granted, denied>>
    BY <1>1 DEF vars, connection, frame, decisions
  <2> QED BY <2>1 DEF CopiesInv, TypeOK, SuppressesOnlyOverLimit, FrameOf, CopyOf, Readable
<1> QED
  BY <1>1, StartStep, ReadStep, AccessStep, WriteStep, RemoveStep, WalkStep DEF Next, ThreadStep

\* The storage keeps its types: in particular what is in Redis is a policy with
\* the limits of the layer and never reports more than was suppressed.
THEOREM TypeCorrect == Spec => []TypeOK
<1>1. CopiesInv => TypeOK
  BY DEF CopiesInv
<1> QED BY CopiesInit, CopiesStep, <1>1, PTL DEF Spec

\* No event is suppressed before the burst of its signature was allowed, for
\* any number of processes that overwrite each other's entries.
THEOREM SuppressedOverLimit == Spec => []SuppressesOnlyOverLimit
<1>1. CopiesInv => SuppressesOnlyOverLimit
  BY DEF CopiesInv
<1> QED BY CopiesInit, CopiesStep, <1>1, PTL DEF Spec

\* No suppression is counted twice in Redis, whichever copies are written and
\* in whichever order.
THEOREM CountedAtMostOnce == Spec => []NeverOverCounts
<1>1. CopiesInv => NeverOverCounts
  BY DEF CopiesInv, NeverOverCounts, CopyOf, IsCopy
<1> QED BY CopiesInit, CopiesStep, <1>1, PTL DEF Spec
=============================================================================
