---------------------------- MODULE RateLimiter ----------------------------
(***************************************************************************)
(* RateLimiter::check_event and SuppressionRegistry::with_event_state:     *)
(* threads that put events through the policy of their signature.          *)
(*                                                                         *)
(* with_event_state reads the clock before it asks the storage for the     *)
(* entry, so a thread applies a timestamp that other threads may have      *)
(* overtaken.  The accessor runs under the lock of the storage shard and   *)
(* is one step.  What the circuit breaker answers is left open here: it    *)
(* may refuse any call, and any operation may panic (module CircuitBreaker *)
(* has its states).  What the storage does to make room is an eviction at  *)
(* any moment (module ShardedStorage has its steps).                       *)
(***************************************************************************)
EXTENDS RatePolicy, FiniteSets

CONSTANTS
    Threads,          \* threads that log events
    Signatures,       \* event signatures
    None,             \* no event
    Policies,         \* default_policy, before the constructor has checked it
    MaxEvents,        \* bound: calls of check_event
    MaxClock,         \* bound: the last instant
    MaxEvictions,     \* bound: evictions
    MaxReadings       \* bound: calls of Metrics::snapshot and reset

ASSUME PoliciesAssumption == Policies \subseteq Policy /\ \A p \in Policies : Reset(p) = p
ASSUME FiniteAssumption == IsFiniteSet(Threads) /\ IsFiniteSet(Signatures)
ASSUME LimiterBounds ==
    MaxEvents \in Nat /\ MaxClock \in Nat /\ MaxEvictions \in Nat /\ MaxReadings \in Nat

VARIABLES
    default_policy,     \* the policy the registry was built with
    policy,             \* signature -> the policy of its entry
    suppressed,         \* signature -> suppressed_count of its entry
    events_allowed,     \* the metrics
    events_suppressed,
    signatures_evicted,
    clock,              \* the monotonic clock (external)
    pc,                 \* thread -> its next step
    event,              \* thread -> the signature of its event
    now,                \* thread -> its reading of the clock
    decision,           \* thread -> was its event allowed?
    monitor,            \* the next step of the thread that reads the metrics
    snapshot,           \* what it has read of them
    granted,            \* history: signature -> timestamps its entry allowed
    newest,             \* history: signature -> newest timestamp its entry has seen
    overtaken,          \* history: signatures whose entry saw an older one later
    checks,             \* history: calls of check_event
    forgotten,          \* history: suppressions in evicted entries
    evictions,          \* history: evictions
    readings,           \* history: calls of snapshot and reset
    settled,            \* history: checks that were over when the snapshot began
    discarded           \* history: what reset has discarded of the metrics

entry == <<policy, suppressed, granted, newest, overtaken>>
metrics == <<events_allowed, events_suppressed, signatures_evicted>>
local == <<event, now, decision>>
reader == <<monitor, snapshot, readings, settled, discarded>>
vars == <<default_policy, entry, metrics, clock, pc, local, checks, forgotten, evictions, reader>>

MetricsSnapshot == [events_allowed : Nat, events_suppressed : Nat, signatures_evicted : Nat]

NoReading == [events_allowed |-> 0, events_suppressed |-> 0, signatures_evicted |-> 0]

TypeOK ==
    /\ default_policy \in Policies
    /\ policy \in [Signatures -> Policy]
    /\ \A s \in Signatures : Reset(policy[s]) = default_policy
    /\ suppressed \in [Signatures -> Nat]
    /\ events_allowed \in Nat
    /\ events_suppressed \in Nat
    /\ signatures_evicted \in Nat
    /\ clock \in Nat
    /\ pc \in [Threads -> {"idle", "access", "metric"}]
    /\ event \in [Threads -> Signatures \cup {None}]
    /\ now \in [Threads -> Nat]
    /\ decision \in [Threads -> BOOLEAN]
    /\ granted \in [Signatures -> Seq(Nat)]
    /\ newest \in [Signatures -> Nat]
    /\ overtaken \in SUBSET Signatures
    /\ checks \in Nat
    /\ forgotten \in Nat
    /\ evictions \in Nat
    /\ monitor \in {"idle", "read_suppressed", "read_evicted", "zero_suppressed", "zero_evicted"}
    /\ snapshot \in MetricsSnapshot
    /\ readings \in Nat
    /\ settled \in Nat
    /\ discarded \in MetricsSnapshot

Init ==
    /\ default_policy \in {p \in Policies : ConstructorError(p) = ""}
    /\ policy = [s \in Signatures |-> default_policy]
    /\ suppressed = [s \in Signatures |-> 0]
    /\ events_allowed = 0
    /\ events_suppressed = 0
    /\ signatures_evicted = 0
    /\ clock = 0
    /\ pc = [t \in Threads |-> "idle"]
    /\ event = [t \in Threads |-> None]
    /\ now = [t \in Threads |-> 0]
    /\ decision = [t \in Threads |-> TRUE]
    /\ granted = [s \in Signatures |-> <<>>]
    /\ newest = [s \in Signatures |-> 0]
    /\ overtaken = {}
    /\ checks = 0
    /\ forgotten = 0
    /\ evictions = 0
    /\ monitor = "idle"
    /\ snapshot = NoReading
    /\ readings = 0
    /\ settled = 0
    /\ discarded = NoReading

Goto(t, step) == pc' = [pc EXCEPT ![t] = step]

Tick ==
    /\ clock < MaxClock
    /\ clock' = clock + 1
    /\ UNCHANGED <<default_policy, entry, metrics, pc, local, checks, forgotten, evictions, reader>>

\* check_event, and with_event_state up to clock.now().
CheckEvent(t, s) ==
    /\ pc[t] = "idle"
    /\ checks < MaxEvents
    /\ checks' = checks + 1
    /\ event' = [event EXCEPT ![t] = s]
    /\ now' = [now EXCEPT ![t] = clock]
    /\ Goto(t, "access")
    /\ UNCHANGED <<default_policy, entry, metrics, clock, decision, forgotten, evictions, reader>>

\* The circuit is open: the event passes unchecked.
FailOpen(t) ==
    /\ pc[t] = "idle"
    /\ checks < MaxEvents
    /\ checks' = checks + 1
    /\ events_allowed' = events_allowed + 1
    /\ UNCHANGED <<default_policy, entry, events_suppressed, signatures_evicted, clock, pc, local, forgotten, evictions, reader>>

\* The accessor: register_event, and record_suppression if it says so.
RegisterAndRecord(t) ==
    LET s == event[t]
        result == RegisterEvent(policy[s], now[t])
    IN  /\ pc[t] = "access"
        /\ policy' = [policy EXCEPT ![s] = result.policy]
        /\ suppressed' = [suppressed EXCEPT ![s] = IF result.allow THEN @ ELSE @ + 1]
        /\ granted' = [granted EXCEPT ![s] = IF result.allow THEN Append(@, now[t]) ELSE @]
        /\ newest' = [newest EXCEPT ![s] = IF now[t] > @ THEN now[t] ELSE @]
        /\ overtaken' = IF now[t] < newest[s] THEN overtaken \cup {s} ELSE overtaken
        /\ decision' = [decision EXCEPT ![t] = result.allow]
        /\ Goto(t, "metric")
        /\ UNCHANGED <<default_policy, metrics, clock, event, now, checks, forgotten, evictions, reader>>

\* Mutant: a panic suppresses the event.
PanicSuppresses(t) ==
    /\ pc[t] = "access"
    /\ decision' = [decision EXCEPT ![t] = FALSE]
    /\ Goto(t, "metric")
    /\ UNCHANGED <<default_policy, entry, metrics, clock, event, now, checks, forgotten, evictions, reader>>

\* The storage panicked before the accessor ran: the event passes.
Panic(t) ==
    /\ pc[t] = "access"
    /\ decision' = [decision EXCEPT ![t] = TRUE]
    /\ Goto(t, "metric")
    /\ UNCHANGED <<default_policy, entry, metrics, clock, event, now, checks, forgotten, evictions, reader>>

\* Mutant: a suppressed event counts as allowed as well.
RecordBoth(t) ==
    /\ pc[t] = "metric"
    /\ events_allowed' = events_allowed + 1
    /\ events_suppressed' = IF decision[t] THEN events_suppressed ELSE events_suppressed + 1
    /\ Goto(t, "idle")
    /\ event' = [event EXCEPT ![t] = None]
    /\ now' = [now EXCEPT ![t] = 0]
    /\ decision' = [decision EXCEPT ![t] = TRUE]
    /\ UNCHANGED <<default_policy, entry, signatures_evicted, clock, checks, forgotten, evictions, reader>>

\* Dead locals return to their initial values.
RecordMetric(t) ==
    /\ pc[t] = "metric"
    /\ events_allowed' = IF decision[t] THEN events_allowed + 1 ELSE events_allowed
    /\ events_suppressed' = IF decision[t] THEN events_suppressed ELSE events_suppressed + 1
    /\ Goto(t, "idle")
    /\ event' = [event EXCEPT ![t] = None]
    /\ now' = [now EXCEPT ![t] = 0]
    /\ decision' = [decision EXCEPT ![t] = TRUE]
    /\ UNCHANGED <<default_policy, entry, signatures_evicted, clock, checks, forgotten, evictions, reader>>

\* The entry is evicted; the next event of the signature finds a new one,
\* made from default_policy.
Evict(s) ==
    /\ evictions < MaxEvictions
    /\ evictions' = evictions + 1
    /\ policy' = [policy EXCEPT ![s] = default_policy]
    /\ forgotten' = forgotten + suppressed[s]
    /\ suppressed' = [suppressed EXCEPT ![s] = 0]
    /\ granted' = [granted EXCEPT ![s] = <<>>]
    /\ newest' = [newest EXCEPT ![s] = 0]
    /\ overtaken' = overtaken \ {s}
    /\ signatures_evicted' = signatures_evicted + 1
    /\ UNCHANGED <<default_policy, events_allowed, events_suppressed, clock, pc, local, checks, reader>>

-----------------------------------------------------------------------------
(* A thread that exports the metrics: snapshot loads and reset zeroes the    *)
(* counters one at a time.                                                   *)

InFlight == {t \in Threads : pc[t] # "idle"}

\* Every check that is over has been counted.
Settled == checks - Cardinality(InFlight)

Reading(step) ==
    /\ monitor' = step
    /\ UNCHANGED <<default_policy, entry, clock, pc, local, checks, forgotten, evictions>>

Snapshot ==
    /\ monitor = "idle"
    /\ readings < MaxReadings
    /\ readings' = readings + 1
    /\ settled' = Settled
    /\ snapshot' = [snapshot EXCEPT !.events_allowed = events_allowed]
    /\ Reading("read_suppressed")
    /\ UNCHANGED <<metrics, discarded>>

SnapshotSuppressed ==
    /\ monitor = "read_suppressed"
    /\ snapshot' = [snapshot EXCEPT !.events_suppressed = events_suppressed]
    /\ Reading("read_evicted")
    /\ UNCHANGED <<metrics, readings, settled, discarded>>

\* The last load; the snapshot is returned.
SnapshotEvicted ==
    /\ monitor = "read_evicted"
    /\ snapshot' = NoReading
    /\ settled' = 0
    /\ Reading("idle")
    /\ UNCHANGED <<metrics, readings, discarded>>

ResetMetrics ==
    /\ monitor = "idle"
    /\ readings < MaxReadings
    /\ readings' = readings + 1
    /\ events_allowed' = 0
    /\ discarded' = [discarded EXCEPT !.events_allowed = @ + events_allowed]
    /\ Reading("zero_suppressed")
    /\ UNCHANGED <<events_suppressed, signatures_evicted, snapshot, settled>>

ResetSuppressed ==
    /\ monitor = "zero_suppressed"
    /\ events_suppressed' = 0
    /\ discarded' = [discarded EXCEPT !.events_suppressed = @ + events_suppressed]
    /\ Reading("zero_evicted")
    /\ UNCHANGED <<events_allowed, signatures_evicted, snapshot, readings, settled>>

ResetEvicted ==
    /\ monitor = "zero_evicted"
    /\ signatures_evicted' = 0
    /\ discarded' = [discarded EXCEPT !.signatures_evicted = @ + signatures_evicted]
    /\ Reading("idle")
    /\ UNCHANGED <<events_allowed, events_suppressed, snapshot, readings, settled>>

-----------------------------------------------------------------------------
Next ==
    \/ Tick
    \/ \E t \in Threads :
          \/ \E s \in Signatures : CheckEvent(t, s)
          \/ FailOpen(t) \/ RegisterAndRecord(t) \/ Panic(t) \/ RecordMetric(t)
    \/ \E s \in Signatures : Evict(s)
    \/ Snapshot \/ SnapshotSuppressed \/ SnapshotEvicted
    \/ ResetMetrics \/ ResetSuppressed \/ ResetEvicted

Spec == Init /\ [][Next]_vars

-----------------------------------------------------------------------------
(* Properties. *)

Total(f, S) == MapThenSumSet(LAMBDA s : f[s], S)

\* The metrics agree with the counters, across panics, bypassed checks,
\* evictions and resets: every event is counted once, as suppressed exactly
\* when an entry recorded it.
MetricsMatchCounters ==
    /\ events_suppressed + discarded.events_suppressed
           + Cardinality({t \in Threads : pc[t] = "metric" /\ ~decision[t]})
       = forgotten + Total(suppressed, Signatures)
    /\ events_allowed + events_suppressed + discarded.events_allowed + discarded.events_suppressed
       = Settled

\* The counters of a snapshot are not read at once, yet its total (total_events)
\* is the number of events settled at some moment while it was taken: events
\* that settle meanwhile may be missed, none is counted twice.
SnapshotConsistent ==
    [][monitor = "read_evicted" =>
          LET total == snapshot.events_allowed + snapshot.events_suppressed
              before == discarded.events_allowed + discarded.events_suppressed
          IN  settled <= total + before /\ total + before <= Settled]_vars

PowerOfTwo[i \in Nat] == IF i = 0 THEN 1 ELSE 2 * PowerOfTwo[i - 1]

\* Policies that count events keep to their schedule: a count-based entry
\* allows its first max_count events and no others, exponential backoff the
\* 1st, 2nd, 4th, 8th, ... event of an entry, whatever happens to the others.
ScheduleKept ==
    \A s \in Signatures :
        LET n == Len(granted[s]) + suppressed[s]
        IN  /\ default_policy.kind = "count_based" =>
                  Len(granted[s]) = Min({n, default_policy.max_count})
            /\ default_policy.kind = "exponential_backoff" =>
                  Len(granted[s]) = Cardinality({i \in 0 .. n : PowerOfTwo[i] <= n})

\* Positions of the allowed events g with a timestamp in first .. last.
GrantedIn(g, first, last) == {i \in 1 .. Len(g) : g[i] \in first .. last}

\* No interval gets more than the policy grants it, as long as no thread
\* applies a timestamp that another has overtaken: a time window max_events
\* ("Allows up to K events within a sliding time window"), a token bucket its
\* capacity and what the interval refills ("Sustained load is limited to
\* refill_rate").
IntervalBound ==
    \A s \in Signatures \ overtaken : \A first \in 0 .. MaxClock :
        /\ default_policy.kind = "time_window" =>
              Cardinality(GrantedIn(granted[s], first, first + default_policy.window_duration))
                  <= default_policy.max_events
        /\ default_policy.kind = "token_bucket" =>
              \A last \in first .. MaxClock :
                  TokenUnit * Cardinality(GrantedIn(granted[s], first, last))
                      <= default_policy.capacity + (last - first) * default_policy.refill_rate

\* An event is suppressed only when its interval is used up: the window before
\* it has max_events, or some interval up to it has left the bucket with less
\* than one token ("After quiet periods, full capacity is restored").  A
\* bucket with a capacity below one token suppresses everything.
SuppressesOnlyWhenUsedUp ==
    [][\A s \in Signatures \ overtaken' : suppressed'[s] = suppressed[s] + 1 =>
          LET at == newest'[s]
          IN  /\ default_policy.kind = "time_window" =>
                    Cardinality(GrantedIn(granted[s], at - default_policy.window_duration, at))
                        = default_policy.max_events
              /\ default_policy.kind = "token_bucket" =>
                    \E first \in 0 .. at :
                        default_policy.capacity + (at - first) * default_policy.refill_rate
                            < TokenUnit * (Cardinality(GrantedIn(granted[s], first, at)) + 1)]_vars

-----------------------------------------------------------------------------
(* What the properties rest on: an inductive invariant, in parts.            *)

LocalInv == \A t \in Threads : pc[t] # "idle" => event[t] \in Signatures

\* What a snapshot has read so far is no more than the counters hold.
SnapshotInv ==
    LET before == discarded.events_allowed + discarded.events_suppressed
    IN  /\ monitor = "read_suppressed" =>
              /\ snapshot.events_allowed <= events_allowed
              /\ settled <= snapshot.events_allowed + events_suppressed + before
        /\ monitor = "read_evicted" =>
              /\ snapshot.events_allowed <= events_allowed
              /\ snapshot.events_suppressed <= events_suppressed
              /\ settled <= snapshot.events_allowed + snapshot.events_suppressed + before

\* The counter of policy p after n events of which k were allowed.
CountKept(p, k, n) ==
    /\ p.kind = "count_based" =>
          /\ p.current_count = n
          /\ k = IF n < p.max_count THEN n ELSE p.max_count
    /\ p.kind = "exponential_backoff" =>
          /\ p.event_count = n
          /\ p.next_allowed = PowerOfTwo[k]
          /\ n < PowerOfTwo[k]
          /\ k > 0 => PowerOfTwo[k - 1] <= n

CountInv ==
    \A s \in Signatures : CountKept(policy[s], Len(granted[s]), Len(granted[s]) + suppressed[s])

\* The timestamps in order, none after at.
Ascending(g, at) ==
    /\ \A i \in 1 .. Len(g) : g[i] <= at
    /\ \A i, j \in 1 .. Len(g) : i <= j => g[i] <= g[j]

\* A window holds the last of the allowed timestamps: the others are outside
\* it, and so is, for each of them, the one max_events before it.
WindowKept(p, g, at) ==
    LET stamps == p.event_timestamps
        dropped == Len(g) - Len(stamps)
    IN  /\ dropped >= 0
        /\ Len(stamps) <= p.max_events
        /\ \A i \in 1 .. Len(stamps) : stamps[i] = g[dropped + i]
        /\ \A i \in 1 .. dropped : g[i] + p.window_duration < at
        /\ \A i \in 1 .. Len(g) : i + p.max_events <= Len(g) =>
              g[i] + p.window_duration < g[i + p.max_events]

\* The tokens of interval first .. last: what it granted, and what it refills.
Spent(g, first, last) == TokenUnit * Cardinality(GrantedIn(g, first, last))

Supply(p, first, last) == p.capacity + (last - first) * p.refill_rate

\* The tokens left are what the tightest interval up to now has left.
BucketKept(p, g, at) ==
    /\ p.tokens <= p.capacity
    /\ p.last_refill = NoInstant => g = <<>> /\ p.tokens = p.capacity
    /\ p.last_refill # NoInstant => p.last_refill = at
    /\ \A first \in 0 .. at : Spent(g, first, at) + p.tokens <= Supply(p, first, at)
    /\ \E first \in 0 .. at : Spent(g, first, at) + p.tokens = Supply(p, first, at)
    /\ \A last \in 0 .. at : \A first \in 0 .. last : Spent(g, first, last) <= Supply(p, first, last)

IntervalKept(p, g, at) ==
    /\ Ascending(g, at)
    /\ p.kind = "time_window" => WindowKept(p, g, at)
    /\ p.kind = "token_bucket" => BucketKept(p, g, at)

IntervalInv == \A s \in Signatures \ overtaken : IntervalKept(policy[s], granted[s], newest[s])
=============================================================================
