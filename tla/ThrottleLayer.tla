---------------------------- MODULE ThrottleLayer ----------------------------
(***************************************************************************)
(* The builder of src/infrastructure/layer.rs and the layer it builds: the *)
(* filter, the limiter, the storage and the emitter task put together.     *)
(*                                                                         *)
(* The builder's methods are called in any order and any number of times,  *)
(* then build() makes a layer or fails.  The application logs events       *)
(* through the layer.  The task claims what is unreported and its          *)
(* formatter logs every summary as an event, through the same filter: the  *)
(* output of the layer is also its input.                                  *)
(*                                                                         *)
(* Each event is handled in one step (RateLimiter, ShardedStorage and      *)
(* SpanContext have the interleavings inside), the circuit stays closed    *)
(* (CircuitBreaker) and the formatter does not panic (SummaryEmission).    *)
(* Time stands still, so that no policy forgets an event.  A signature is  *)
(* the record of what is hashed.                                           *)
(***************************************************************************)
EXTENDS RatePolicy, EvictionPolicy, SuppressionCounter, Functions

CONSTANTS
    None,              \* the Option value None
    DefaultPolicy,     \* builder(): token_bucket(50, 1)
    DefaultSignatures, \* builder(): 10_000
    DefaultInterval,   \* builder(): 30 s
    Policies,          \* arguments of with_policy
    Intervals,         \* arguments of with_summary_interval
    SignatureLimits,   \* arguments of with_max_signatures
    Strategies,        \* arguments of with_eviction_strategy
    SpanFieldLists,    \* arguments of with_span_context_fields
    ExcludedLists,     \* arguments of with_excluded_fields
    TargetLists,       \* arguments of with_exempt_targets
    Events,            \* the events of the application: [target, context, fields]
    SummaryTarget,     \* SUMMARY_TARGET, used by the default formatter
    CustomTarget,      \* the target of the events of a custom formatter
    TerseTarget,       \* the same, of one that does not tell what it reports
    Priority,          \* target -> what priority_fn returns for its events
    EntrySize,         \* estimate_entry_size
    SampleSize,        \* SAMPLE_SIZE
    MaxEvents,         \* bound: events that the application logs
    MaxSummaries       \* bound: the task claims no more after so many summaries

ASSUME DefaultsAssumption ==
    /\ ConstructorError(DefaultPolicy) = ""
    /\ DefaultSignatures \in Nat \ {0} /\ DefaultInterval \in Nat \ {0}
ASSUME ArgumentsAssumption ==
    /\ Strategies \subseteq EvictionPolicy
    /\ Intervals \subseteq Nat /\ SignatureLimits \subseteq Nat
    /\ \A p \in Policies : ConstructorError(p) = ""
\* Every event has a message.
ASSUME EventsAssumption ==
    /\ \A e \in Events : "message" \in DOMAIN e.fields /\ Priority[e.target] \in Nat
    /\ Priority[CustomTarget] \in Nat /\ Priority[TerseTarget] \in Nat
ASSUME LayerNoneAssumption == None \notin Nat \cup EvictionPolicy
ASSUME LayerSizeAssumption == EntrySize \in Nat \ {0} /\ SampleSize \in Nat \ {0}
ASSUME LayerBounds == MaxEvents \in Nat /\ MaxSummaries \in Nat

VARIABLES
    builder,    \* the builder; after build() what it was built from
    built,      \* "not_yet", then "ok" or the error of build()
    layer,      \* the fields of the layer, or None
    storage,    \* signature -> its EventState, for the signatures tracked
    recency,    \* signature -> its place in the order of last access
    handle,     \* emitter_handle: is there one to take?
    task,       \* the emitter task: "none", "waiting", "emitting" or "ended"
    claimed,    \* signature -> its summary, for those of this emission not yet logged
    metrics,    \* events_allowed, events_suppressed, signatures_evicted
    logged,     \* history: events of the application
    bypassed,   \* history: events let pass as the layer's own summaries
    summaries,  \* history: summaries that the formatter logged
    lost        \* history: suppressions of signatures that were evicted

limiter == <<storage, recency, metrics, lost>>
emitter == <<handle, task, claimed>>
history == <<logged, bypassed, summaries>>
vars == <<builder, built, layer, limiter, emitter, history>>

\* TracingRateLimitLayer::builder
DefaultBuilder ==
    [policy                 |-> DefaultPolicy,
     summary_interval       |-> DefaultInterval,
     max_signatures         |-> DefaultSignatures,
     enable_active_emission |-> FALSE,
     summary_formatter      |-> None,
     span_context_fields    |-> {},
     excluded_fields        |-> {},
     eviction_strategy      |-> None,
     exempt_targets         |-> {}]

Init ==
    /\ builder = DefaultBuilder
    /\ built = "not_yet"
    /\ layer = None
    /\ storage = <<>>
    /\ recency = <<>>
    /\ handle = FALSE
    /\ task = "none"
    /\ claimed = <<>>
    /\ metrics = [allowed |-> 0, suppressed |-> 0, evicted |-> 0]
    /\ logged = 0
    /\ bypassed = 0
    /\ summaries = 0
    /\ lost = 0
-----------------------------------------------------------------------------
(* The builder. *)

Set(field, value) ==
    /\ built = "not_yet"
    /\ builder' = [builder EXCEPT ![field] = value]
    /\ UNCHANGED <<built, layer, limiter, emitter, history>>

\* Duplicate and empty names are dropped.
Names(list) == Range(list) \ {""}

WithPolicy == \E p \in Policies : Set("policy", p)
WithSummaryInterval == \E i \in Intervals : Set("summary_interval", i)
WithMaxSignatures == \E n \in SignatureLimits : Set("max_signatures", n)
WithUnlimitedSignatures == Set("max_signatures", None)
WithActiveEmission == \E enabled \in BOOLEAN : Set("enable_active_emission", enabled)
WithSummaryFormatter == \E t \in {CustomTarget, TerseTarget} : Set("summary_formatter", t)
WithSpanContextFields == \E list \in SpanFieldLists : Set("span_context_fields", Names(list))
WithExcludedFields == \E list \in ExcludedLists : Set("excluded_fields", Names(list))
WithExemptTargets == \E list \in TargetLists : Set("exempt_targets", Names(list))
WithEvictionStrategy == \E s \in Strategies : Set("eviction_strategy", s)

\* What build() returns, by the order of its checks.  The limits of a
\* strategy are not checked, and the interval is also when nothing is emitted.
BuildResult(b) ==
    CASE b.max_signatures = 0 -> "ZeroMaxSignatures"
      [] b.max_signatures # 0 /\ b.summary_interval = 0 -> "ZeroSummaryInterval"
      [] OTHER -> "ok"

\* Mutant: max_signatures goes before the strategy.
PolicyOfLimitFirst(b) ==
    IF b.max_signatures # None THEN LruEviction(b.max_signatures)
    ELSE IF b.eviction_strategy # None THEN b.eviction_strategy ELSE NoEviction

\* The adapter of the strategy, else LRU with max_signatures when it is set.
PolicyOf(b) ==
    IF b.eviction_strategy # None THEN b.eviction_strategy
    ELSE IF b.max_signatures # None THEN LruEviction(b.max_signatures) ELSE NoEviction

\* The layer of builder b, with its task when active emission is enabled.
Run(b) ==
    /\ built' = "ok"
    /\ layer' = [policy              |-> b.policy,
                 eviction_policy     |-> PolicyOf(b),
                 span_context_fields |-> b.span_context_fields,
                 excluded_fields     |-> b.excluded_fields,
                 exempt_targets      |-> b.exempt_targets,
                 formatter           |-> IF b.summary_formatter = None
                                            THEN SummaryTarget ELSE b.summary_formatter]
    /\ handle' = b.enable_active_emission
    /\ task' = IF b.enable_active_emission THEN "waiting" ELSE "none"

\* build; new() is this call on the builder of Init.
Build ==
    /\ built = "not_yet"
    /\ built' = BuildResult(builder)
    /\ \/ BuildResult(builder) = "ok" /\ Run(builder)
       \/ BuildResult(builder) # "ok" /\ UNCHANGED <<layer, handle, task>>
    /\ UNCHANGED <<builder, limiter, claimed, history>>

\* with_storage: a storage of the caller's, here one without a limit.
WithStorage ==
    /\ built = "not_yet"
    /\ \E p \in Policies :
          builder' = [DefaultBuilder EXCEPT !.policy = p, !.max_signatures = None]
    /\ Run(builder')
    /\ UNCHANGED <<limiter, claimed, history>>
-----------------------------------------------------------------------------
(* The filter. *)

\* The fields of event e that count: those of the span context that are
\* asked for, under the event's own that are not excluded.
Combined(e, asked, excluded) ==
    LET own == DOMAIN e.fields \ excluded
    IN  [n \in own \cup (DOMAIN e.context \cap asked) |->
            IF n \in own THEN e.fields[n] ELSE e.context[n]]

CombinedFields(e) == Combined(e, layer.span_context_fields, layer.excluded_fields)

\* compute_signature
ComputeSignature(e) == [target |-> e.target, fields |-> CombinedFields(e)]

\* EventMetadata: the message is kept even when it is an excluded field.
EventMetadata(e) ==
    [target |-> e.target, message |-> e.fields["message"], fields |-> CombinedFields(e)]

\* The sum of the values of f.
Total(f) == MapThenSumSet(LAMBDA x : f[x], DOMAIN f)

\* EventState, and EventState::new with the metadata of the first event.
EventState(policy, counter, metadata) ==
    [policy |-> policy, counter |-> counter, metadata |-> metadata]
NewState(e) == EventState(layer.policy, NewCounter(0), EventMetadata(e))

\* with_entry_mut makes room before it inserts.
MustEvict(signature) ==
    /\ signature \notin DOMAIN storage
    /\ \/ TooManyEntries(layer.eviction_policy, Cardinality(DOMAIN storage))
       \/ TooMuchMemory(layer.eviction_policy, EntrySize * Cardinality(DOMAIN storage))

RankOf(s) == Rank(layer.eviction_policy, recency[s], Priority[storage[s].metadata.target])

\* The signatures that evict_one may remove: as in ShardedStorage, those of
\* least rank in some sample of SAMPLE_SIZE entries, or of all entries.
Victims ==
    {s \in DOMAIN storage :
        LET above == {k \in DOMAIN storage : RankOf(s) <= RankOf(k)}
        IN  above = DOMAIN storage \/ Cardinality(above) >= SampleSize}

\* The places in the order of last access once s was accessed and only the
\* other signatures of rest are left.
Accessed(s, rest) ==
    [k \in rest \cup {s} |->
        IF k = s THEN Cardinality(rest \cup {s})
        ELSE Cardinality({j \in rest \ {s} : recency[j] <= recency[k]})]

\* check_event_with_metadata: the entry of the event is made when it is new,
\* after an eviction when the storage is full, and its policy asked.
CheckEvent(e) ==
    LET signature == ComputeSignature(e)
    IN  \E evicted \in IF MustEvict(signature) /\ Victims # {}
                            THEN {{v} : v \in Victims} ELSE {{}} :
            LET rest == DOMAIN storage \ evicted
                state == IF signature \in rest THEN storage[signature] ELSE NewState(e)
                decision == RegisterEvent(state.policy, 0)
                counter == IF decision.allow THEN state.counter
                           ELSE AfterSuppression(state.counter, 0)
            IN  /\ storage' = [s \in rest \cup {signature} |->
                                  IF s = signature
                                      THEN EventState(decision.policy, counter, state.metadata)
                                      ELSE storage[s]]
                /\ recency' = Accessed(signature, rest)
                /\ metrics' = [metrics EXCEPT
                                  !.allowed    = IF decision.allow THEN @ + 1 ELSE @,
                                  !.suppressed = IF decision.allow THEN @ ELSE @ + 1,
                                  !.evicted    = @ + Cardinality(evicted)]
                /\ lost' = lost + Total([s \in evicted |-> storage[s].counter.suppressed_count])

\* Mutants: the summary target goes through the throttle; exempt events are
\* not counted.
EventEnabledRecursive(e) ==
    /\ \/ /\ e.target \in layer.exempt_targets
          /\ metrics' = [metrics EXCEPT !.allowed = @ + 1]
          /\ UNCHANGED <<storage, recency, lost>>
       \/ /\ e.target \notin layer.exempt_targets
          /\ CheckEvent(e)
    /\ UNCHANGED bypassed
EventEnabledUncounted(e) ==
    \/ /\ e.target = SummaryTarget \/ e.target \in layer.exempt_targets
       /\ bypassed' = IF e.target = SummaryTarget THEN bypassed + 1 ELSE bypassed
       /\ UNCHANGED limiter
    \/ /\ e.target \notin layer.exempt_targets \cup {SummaryTarget}
       /\ CheckEvent(e)
       /\ UNCHANGED bypassed

\* event_enabled: the summary target first, then the exempt targets.
EventEnabled(e) ==
    \/ /\ e.target = SummaryTarget
       /\ bypassed' = bypassed + 1
       /\ UNCHANGED limiter
    \/ /\ e.target # SummaryTarget /\ e.target \in layer.exempt_targets
       /\ metrics' = [metrics EXCEPT !.allowed = @ + 1]
       /\ UNCHANGED <<storage, recency, lost, bypassed>>
    \/ /\ e.target \notin layer.exempt_targets \cup {SummaryTarget}
       /\ CheckEvent(e)
       /\ UNCHANGED bypassed

LogEvent(e) ==
    /\ layer # None
    /\ logged < MaxEvents
    /\ logged' = logged + 1
    /\ EventEnabled(e)
    /\ UNCHANGED <<builder, built, layer, emitter, summaries>>
-----------------------------------------------------------------------------
(* The emitter task. *)

Unreported == {s \in DOMAIN storage : CanClaim(storage[s].counter, 1)}

\* A tick of the interval: what is unreported is claimed (min_count is 1).
Tick ==
    /\ task = "waiting"
    /\ Unreported # {} /\ summaries < MaxSummaries
    /\ claimed' = [s \in Unreported |-> [count    |-> ClaimOf(storage[s].counter).count,
                                         metadata |-> storage[s].metadata]]
    /\ storage' = [s \in DOMAIN storage |->
                      IF s \in Unreported
                          THEN EventState(storage[s].policy, AfterClaim(storage[s].counter),
                                          storage[s].metadata)
                          ELSE storage[s]]
    /\ task' = "emitting"
    /\ UNCHANGED <<builder, built, layer, recency, metrics, handle, lost, history>>

\* The event that the formatter logs for the summary of s.  A custom formatter
\* is the user's: here it tells as much as the default one, or nothing.
SummaryEvent(s) ==
    [target  |-> layer.formatter,
     context |-> <<>>,
     fields  |-> IF layer.formatter = TerseTarget THEN [message |-> "suppressed"]
                 ELSE [signature |-> s, count |-> claimed[s].count,
                       message   |-> <<claimed[s].metadata, claimed[s].count>>]]

\* One round of the loop over the summaries.
Format(s) ==
    /\ task = "emitting"
    /\ s \in DOMAIN claimed
    /\ EventEnabled(SummaryEvent(s))
    /\ summaries' = summaries + 1
    /\ claimed' = Restrict(claimed, DOMAIN claimed \ {s})
    /\ task' = IF DOMAIN claimed = {s} THEN "waiting" ELSE "emitting"
    /\ UNCHANGED <<builder, built, layer, handle, logged>>

\* shutdown takes the handle and signals the task, which ends between two
\* emissions; a tick may still come first (EmitterLifecycle).
Shutdown ==
    /\ handle
    /\ handle' = FALSE
    /\ UNCHANGED <<builder, built, layer, limiter, task, claimed, history>>

EndTask ==
    /\ ~handle /\ task = "waiting"
    /\ task' = "ended"
    /\ UNCHANGED <<builder, built, layer, limiter, handle, claimed, history>>
-----------------------------------------------------------------------------
Setter ==
    \/ WithPolicy \/ WithSummaryInterval \/ WithMaxSignatures \/ WithUnlimitedSignatures
    \/ WithActiveEmission \/ WithSummaryFormatter \/ WithSpanContextFields
    \/ WithExcludedFields \/ WithExemptTargets \/ WithEvictionStrategy

Next ==
    \/ Setter
    \/ Build
    \/ WithStorage
    \/ \E e \in Events : LogEvent(e)
    \/ Tick
    \/ \E s \in DOMAIN claimed : Format(s)
    \/ Shutdown
    \/ EndTask

Spec == Init /\ [][Next]_vars
-----------------------------------------------------------------------------
(* Properties. *)

\* n signatures are within the limit that builder b was asked for.  A
\* strategy whose limit is zero, which build() accepts, tracks one signature.
WithinLimit(b, n) ==
    IF b.eviction_strategy = None
        THEN b.max_signatures # None => n <= b.max_signatures
        ELSE n > 1 => /\ LimitsEntries(b.eviction_strategy) => n <= b.eviction_strategy.max_entries
                      /\ TracksMemory(b.eviction_strategy)
                             => EntrySize * (n - 1) < b.eviction_strategy.max_bytes

\* The signatures tracked stay within the limit that the builder was asked
\* for, by the last calls of with_max_signatures, with_unlimited_signatures
\* and with_eviction_strategy in whatever order.
LimitHonoured ==
    layer # None => WithinLimit(builder, Cardinality(DOMAIN storage))

Suppressions == [s \in DOMAIN storage |-> storage[s].counter.suppressed_count]

\* Every event that came to the layer, of the application or of its own
\* formatter, was counted once or has the internal target; and every
\* suppression counted is in the counter of a signature or was lost with one
\* that was evicted.
EventsAccounted ==
    /\ metrics.suppressed = lost + Total(Suppressions)
    /\ metrics.allowed + metrics.suppressed + bypassed = logged + summaries

\* The events of the formatter are not throttled.
Unthrottled == layer.formatter \in layer.exempt_targets \cup {SummaryTarget}

\* The summaries of a custom formatter are throttled like all events.  They
\* can have the signature of what they report when they do not tell it, or
\* when neither their signature nor their message counts; and a bucket of less
\* than a token (which its constructor accepts) suppresses even the first
\* event of a signature.
FeedsItself ==
    /\ ~Unthrottled
    /\ \/ layer.formatter = TerseTarget
       \/ {"signature", "message"} \subseteq layer.excluded_fields
       \/ ~RegisterEvent(layer.policy, 0).allow

\* The layer does not feed on its own output: what it logs is bounded by what
\* the application has logged, whatever else the builder was asked for.  When
\* the formatter's events are not throttled there is at most one summary for
\* each event; when they are, and tell what they report, summaries of
\* summaries have fewer and fewer events to report.
SummariesBounded ==
    layer # None /\ ~FeedsItself =>
        summaries <= IF Unthrottled THEN logged ELSE (logged * (logged - 1)) \div 2

-----------------------------------------------------------------------------
(* The invariants behind them. *)

BuilderType ==
    [policy                 : Policies \cup {DefaultPolicy},
     summary_interval       : Intervals \cup {DefaultInterval},
     max_signatures         : SignatureLimits \cup {DefaultSignatures, None},
     enable_active_emission : BOOLEAN,
     summary_formatter      : {None, CustomTarget, TerseTarget},
     span_context_fields    : {{}} \cup {Names(list) : list \in SpanFieldLists},
     excluded_fields        : {{}} \cup {Names(list) : list \in ExcludedLists},
     eviction_strategy      : Strategies \cup {None},
     exempt_targets         : {{}} \cup {Names(list) : list \in TargetLists}]

LayerType ==
    [policy              : Policies \cup {DefaultPolicy},
     eviction_policy     : EvictionPolicy,
     span_context_fields : {{}} \cup {Names(list) : list \in SpanFieldLists},
     excluded_fields     : {{}} \cup {Names(list) : list \in ExcludedLists},
     exempt_targets      : {{}} \cup {Names(list) : list \in TargetLists},
     formatter           : {SummaryTarget, CustomTarget, TerseTarget}]

ASSUME NoLayerAssumption == None \notin LayerType

TypeOK ==
    /\ builder \in BuilderType
    /\ built \in {"not_yet", "ok", "ZeroMaxSignatures", "ZeroSummaryInterval"}
    /\ layer \in LayerType \cup {None}
    /\ IsFiniteSet(DOMAIN storage)
    /\ \A s \in DOMAIN storage : storage[s].counter \in Counter({0})
    /\ recency \in [DOMAIN storage -> Nat]
    /\ handle \in BOOLEAN
    /\ task \in {"none", "waiting", "emitting", "ended"}
    /\ IsFiniteSet(DOMAIN claimed)
    /\ metrics \in [allowed : Nat, suppressed : Nat, evicted : Nat]
    /\ logged \in Nat /\ bypassed \in Nat /\ summaries \in Nat /\ lost \in Nat

\* There is a layer, with its task, only once the builder is done, and it
\* has the eviction policy that the builder was asked for last.
BuiltInv ==
    /\ layer = None => /\ DOMAIN storage = {} /\ task = "none"
                       /\ logged = 0 /\ summaries = 0
    /\ layer # None => /\ built = "ok"
                       /\ builder.max_signatures # 0
                       /\ layer.eviction_policy = PolicyOf(builder)
    /\ task # "emitting" => DOMAIN claimed = {}

\* m is the metadata of an event with signature s that is not a summary of
\* the default formatter.
Describes(m, s) ==
    /\ s = [target |-> m.target, fields |-> m.fields]
    /\ m.target \in {e.target : e \in Events} \cup {CustomTarget, TerseTarget}

\* Entries and claims are under the signature of their metadata.
MetadataInv ==
    /\ \A s \in DOMAIN storage : Describes(storage[s].metadata, s)
    /\ \A s \in DOMAIN claimed : Describes(claimed[s].metadata, s)

\* How many summaries the suppressions of a signature can lead to before its
\* next event: one for each that is not claimed, one for a claim.
Owed(s) == IF s \in DOMAIN storage THEN UnreportedCount(storage[s].counter) ELSE 0

Tracked == DOMAIN storage \cup DOMAIN claimed

Waiting == [s \in Tracked |-> Owed(s) + (IF s \in DOMAIN claimed THEN 1 ELSE 0)]

\* While the formatter's events pass, every summary that was logged or can
\* come without a further event stands for an event of the application.
UnthrottledInv ==
    layer # None /\ Unthrottled => Total(Waiting) + summaries <= logged

LayerInv ==
    /\ TypeOK
    /\ BuiltInv
    /\ MetadataInv
    /\ LimitHonoured
    /\ EventsAccounted
    /\ UnthrottledInv
=============================================================================
