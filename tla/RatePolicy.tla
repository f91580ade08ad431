----------------------------- MODULE RatePolicy -----------------------------
(***************************************************************************)
(* The four rate limiting policies of src/domain/policy.rs.                *)
(*                                                                         *)
(* A policy value is a record; register_event is a function from a value   *)
(* and a timestamp to a decision and the next value.  Timestamps are       *)
(* naturals.  The f64 amounts of the token bucket are whole numbers of     *)
(* 1/TokenUnit tokens, its refill rate is such an amount per clock tick    *)
(* (rounding is not modelled).  The 64-bit event counters do not reach     *)
(* their limit.                                                            *)
(***************************************************************************)
EXTENDS Integers, Sequences, FiniteSetsExt

CONSTANT TokenUnit  \* parts of a token that the amounts are counted in

ASSUME TokenUnitAssumption == TokenUnit \in Nat \ {0}

\* last_refill = None
NoInstant == -1

\* PolicyError
PolicyError ==
    {"ZeroMaxCount", "ZeroMaxEvents", "ZeroWindowDuration", "ZeroCapacity", "ZeroRefillRate"}

CountBased(max_count) ==
    [kind |-> "count_based", max_count |-> max_count, current_count |-> 0]

TimeWindow(max_events, window_duration) ==
    [kind |-> "time_window", max_events |-> max_events, window_duration |-> window_duration,
     event_timestamps |-> <<>>]

ExponentialBackoff == [kind |-> "exponential_backoff", event_count |-> 0, next_allowed |-> 1]

TokenBucket(capacity, refill_rate) ==
    [kind |-> "token_bucket", capacity |-> capacity, refill_rate |-> refill_rate,
     tokens |-> capacity, last_refill |-> NoInstant]

\* The values of the policies.
CountBasedPolicy == [kind : {"count_based"}, max_count : Nat, current_count : Nat]

TimeWindowPolicy ==
    [kind : {"time_window"}, max_events : Nat, window_duration : Nat, event_timestamps : Seq(Nat)]

ExponentialBackoffPolicy ==
    [kind : {"exponential_backoff"}, event_count : Nat, next_allowed : Nat]

TokenBucketPolicy ==
    [kind : {"token_bucket"}, capacity : Nat, refill_rate : Nat, tokens : Nat,
     last_refill : Nat \cup {NoInstant}]

Policy == CountBasedPolicy \cup TimeWindowPolicy \cup ExponentialBackoffPolicy \cup TokenBucketPolicy

\* What the constructors check, in this order; "" when they return Ok.
ConstructorError(p) ==
    CASE p.kind = "count_based" /\ p.max_count = 0 -> "ZeroMaxCount"
      [] p.kind = "time_window" /\ p.max_events = 0 -> "ZeroMaxEvents"
      [] p.kind = "time_window" /\ p.max_events > 0 /\ p.window_duration = 0 -> "ZeroWindowDuration"
      [] p.kind = "token_bucket" /\ p.capacity <= 0 -> "ZeroCapacity"
      [] p.kind = "token_bucket" /\ p.capacity > 0 /\ p.refill_rate <= 0 -> "ZeroRefillRate"
      [] OTHER -> ""

ResetCountBased(p) == [p EXCEPT !.current_count = 0]

ResetTimeWindow(p) == [p EXCEPT !.event_timestamps = <<>>]

ResetExponentialBackoff(p) == [p EXCEPT !.event_count = 0, !.next_allowed = 1]

ResetTokenBucket(p) == [p EXCEPT !.tokens = p.capacity, !.last_refill = NoInstant]

\* Policy::reset
Reset(p) ==
    CASE p.kind = "count_based"         -> ResetCountBased(p)
      [] p.kind = "time_window"         -> ResetTimeWindow(p)
      [] p.kind = "exponential_backoff" -> ResetExponentialBackoff(p)
      [] p.kind = "token_bucket"        -> ResetTokenBucket(p)

Elapsed(now, earlier) == IF now > earlier THEN now - earlier ELSE 0

\* Mutant: a timestamp expires when the window has just passed.
UnexpiredExclusive(p, now) ==
    LET s == p.event_timestamps
        inside == {i \in 1 .. Len(s) : Elapsed(now, s[i]) < p.window_duration}
    IN  IF inside = {} THEN <<>> ELSE SubSeq(s, Min(inside), Len(s))

\* expire_old_events drops timestamps from the front, up to the first that is
\* inside the window.
Unexpired(p, now) ==
    LET s == p.event_timestamps
        inside == {i \in 1 .. Len(s) : Elapsed(now, s[i]) <= p.window_duration}
    IN  IF inside = {} THEN <<>> ELSE SubSeq(s, Min(inside), Len(s))

\* Mutant: a refill of less than a token is dropped.
RefilledWhole(p, now) ==
    LET added == (now - p.last_refill) * p.refill_rate
        amount == p.tokens + (IF added < TokenUnit THEN 0 ELSE added)
    IN  [p EXCEPT
            !.tokens = IF p.last_refill = NoInstant \/ now < p.last_refill THEN @
                       ELSE IF amount < p.capacity THEN amount ELSE p.capacity,
            !.last_refill = now]

\* refill; when the timestamp lies before the last one, only the time moves.
Refilled(p, now) ==
    LET amount == p.tokens + (now - p.last_refill) * p.refill_rate
    IN  [p EXCEPT
            !.tokens = IF p.last_refill = NoInstant \/ now < p.last_refill THEN @
                       ELSE IF amount < p.capacity THEN amount ELSE p.capacity,
            !.last_refill = now]

\* Mutant: one event too few.
RegisterCountBelow(p) ==
    [allow  |-> p.current_count + 1 < p.max_count,
     policy |-> [p EXCEPT !.current_count = @ + 1]]

RegisterCountBased(p) ==
    [allow  |-> p.current_count + 1 <= p.max_count,
     policy |-> [p EXCEPT !.current_count = @ + 1]]

RegisterTimeWindow(p, now) ==
    LET live == Unexpired(p, now)
        allow == Len(live) < p.max_events
    IN  [allow  |-> allow,
         policy |-> [p EXCEPT !.event_timestamps = IF allow THEN Append(live, now) ELSE live]]

\* Mutant: the interval does not grow.
RegisterLinearBackoff(p) ==
    LET allow == p.event_count + 1 = p.next_allowed
    IN  [allow  |-> allow,
         policy |-> [p EXCEPT !.event_count = @ + 1,
                              !.next_allowed = IF allow THEN @ + 1 ELSE @]]

RegisterExponentialBackoff(p) ==
    LET allow == p.event_count + 1 = p.next_allowed
    IN  [allow  |-> allow,
         policy |-> [p EXCEPT !.event_count = @ + 1,
                              !.next_allowed = IF allow THEN 2 * @ ELSE @]]

\* Mutant: a part of a token is enough.
RegisterPartialToken(p, now) ==
    LET filled == Refilled(p, now)
        allow == filled.tokens > 0
    IN  [allow  |-> allow,
         policy |-> [filled EXCEPT !.tokens = IF allow THEN @ - TokenUnit ELSE @]]

RegisterTokenBucket(p, now) ==
    LET filled == Refilled(p, now)
        allow == filled.tokens >= TokenUnit
    IN  [allow  |-> allow,
         policy |-> [filled EXCEPT !.tokens = IF allow THEN @ - TokenUnit ELSE @]]

RegisterEvent(p, now) ==
    CASE p.kind = "count_based"         -> RegisterCountBased(p)
      [] p.kind = "time_window"         -> RegisterTimeWindow(p, now)
      [] p.kind = "exponential_backoff" -> RegisterExponentialBackoff(p)
      [] p.kind = "token_bucket"        -> RegisterTokenBucket(p, now)
=============================================================================
