--------------------------- MODULE MCThrottleLayer ---------------------------
(* Instances of ThrottleLayer for TLC. *)
EXTENDS ThrottleLayer

Bucket == TokenBucket(2, 1)

\* A count, and a bucket of half a token.
SmallPolicies == {CountBased(2), TokenBucket(1, 1)}

\* Zero limits, which build() does not check, and one strategy of each kind.
EveryStrategy ==
    {LruEviction(0), PriorityEviction(2), MemoryEviction(3), PriorityWithMemoryEviction(3, 2)}

SpanLists == {<<"user", "", "user">>, <<>>}

Exclusions == {<<"", "id">>, <<"signature", "message", "">>}

Targets == {<<"audit", "", "audit">>, <<>>}

\* Two events of one callsite in two spans, and one of an audit log.
Logs ==
    {[target |-> "app", context |-> [user |-> u], fields |-> [id |-> u, message |-> "m"]] : u \in {1, 2}}
    \cup {[target |-> "audit", context |-> <<>>, fields |-> [message |-> "m"]]}

ByTarget == [t \in {"app", "audit", "summary", "custom", "terse"} |-> IF t = "audit" THEN 1 ELSE 0]
=============================================================================
