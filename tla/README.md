# TLA+ models of tracing-throttle

`tracing-throttle` is a `tracing` filter that limits how often events with the same
signature are logged, counts what it suppressed, and emits summaries of it. This
directory holds TLA+ specifications of its parts, TLC configurations that check them
on small instances, and TLAPS proofs for instances of every size. Paths below are
relative to the repository (`src/` is the crate's source directory); in
`PROJECT.json` they carry one more leading `src/`.

## 1. Inventory of the system

| Part | State | Operations | Correct when |
|---|---|---|---|
| Suppression counter (`domain/summary.rs`) | suppressed and reported counts, four time cursors, under one lock | `record_suppression`, `claim_unreported`, `rollback_claim` | counts and cursors agree; a rollback undoes exactly its claim |
| Summary emitter (`application/emitter.rs`) | the batch of claims in hand | `collect_claimed_summaries` entry by entry, `emit_claimed_summaries`, `rollback_claimed_summaries` | nothing lost, whatever panics; nothing reported twice but what a panic showed already |
| Emitter life cycle (`emitter.rs`, `layer.rs`) | task, interval, watch channel, join handle, `Option` of the handle | select loop, `shutdown_with_timeout`, `TracingRateLimitLayer::shutdown`, drop | shutdown ends the task, after the final emission if asked for |
| Circuit breaker (`application/circuit_breaker.rs`) | three independent atomics | `allow_request`, `record_success`, `record_failure`, `reset` | opens at the threshold, recovers, never hangs half-open |
| Rate limiter and registry (`limiter.rs`, `registry.rs`) | entry per signature, metrics | `check_event` | the decision is the policy's; every event is counted once; failures let events pass |
| Policies (`domain/policy.rs`) | count, time stamps, next allowed event, tokens | constructors, `register_event`, `reset`, (de)serialization | the documented limit over any interval, and no less than it |
| Eviction policies (`infrastructure/eviction/`) | their limits | `should_evict`, `select_victim` | the least recent or least important entry goes |
| Sharded storage (`infrastructure/storage.rs`) | map, memory counter, metric | `with_entry_mut`, `evict_one`, `clear`, `retain` | keeps to its limits, accounts for memory and evictions |
| Redis storage (`infrastructure/redis_storage.rs`) | values in Redis in three formats, one locked connection and one `base_instant` per process | `with_entry_mut`, `clear`, `for_each`, `retain`, `connect` | processes share one limit; no call hangs; counts and time stamps survive restarts |
| Layer (`infrastructure/layer.rs`, `visitor.rs`, `signature.rs`) | a cache of attributes per span, shared by filters | `on_new_span`, `on_record`, `event_enabled` | the signature is made of the inner-most values of the configured fields |
| Builder (`infrastructure/layer.rs`) | the configuration | the `with_*` methods, `build`, `new`, `with_storage` | the layer does what the last calls asked for, or `build` fails |
| Metrics (`application/metrics.rs`) | three counters | `record_*`, `snapshot`, `reset` | agree with what happened |
| Formatting, clocks, mocks | - | - | not modelled, see section 8 |

How the parts interact: the layer computes a signature and calls
`RateLimiter::check_event`; that asks the circuit breaker, reads the clock, enters the
storage, and under the lock of the entry runs the policy and records a suppression;
afterwards it updates the breaker and the metrics. The storage evicts entries on the
way. The emitter task walks the same registry, claims what is unreported, hands the
batch to `emit_fn`, and rolls back after a panic. Callers of `shutdown` meet the task
through a watch channel and its join handle. Summaries, and warnings of the Redis
storage, are themselves events that pass through the layer.

What is hard about it, and hard to test: the breaker has no lock; the storage decides
on one reading and acts after another; the clock is read before the entry is locked;
claims outlive the entries they were made from; a rollback comes after other claims;
biased `select!` can starve a branch; timeouts race the end of the task; Redis values
are read and written under separate holds of a lock, by several processes, with
commands that fail and keys that expire; a process dies between a claim it has stored
and the summary; a layer could feed on its own summaries; filters share a cache while
values are recorded. `PROJECT.json` lists these hazards with their lines and the properties
aimed at them.

## 2. Modules

* `SuppressionCounter` - the counter's methods as functions on a record, no variables.
* `SummaryEmission` extends it: suppressions, evictions, emitter tasks with panics and
  rollbacks, other callers of `collect_summaries`. One visit of an entry is one step, as
  the entry's lock is all that the walk holds. A turn of the biased
  `select!` is two steps, the poll of `changed()` and that of `tick()`. A panic of `emit_fn`,
  which logs one summary after the other, shows any part of its batch (`shown`) and leads to the
  rollback of all of it. `delivered` (what consumed batches reported), `shown`, `epoch` and
  `mark` are history variables: the program does not know them.
* `SummaryDelivery` - what the emission promises to the reader of the log: suppressions are
  pending, claimed or delivered, and move as a whole; of a batch that is returned the reader may
  have `seen` a part. `SummaryEmission` implements it with
  one claimer, under the mapping `Delivery`: pending is what the cursor has not passed,
  claimed what is in flight for the entry of now, seen what was delivered or shown, and an
  emission that failed is returning its claims while some of them are left (property
  `ImplementsDelivery`).
* `EmitterLifecycle` - the task as a machine of `select` (it polls `changed()`), `tick` (it polls
  `tick()`), `emit`, `final` and how it may end, the watch
  channel (`signal`, `unseen`, `sender`), the layer's `Option` with the `handle`, and the
  callers of `shutdown`, of which the history variable `takers` holds those that took the
  handle. `raced` and `late` tell whether the signal came between the two polls of one `select!`,
  and how many ticks were served after it. An emission is only a stretch of time here; what it does to the counters is in `SummaryEmission`.
* `CircuitBreaker` - every atomic load, store, `fetch_add`, `compare_exchange` and clock
  reading of every thread is a step; `pc` names the next one.
* `RatePolicy` - the four policies as values with `RegisterEvent`, no variables. Tokens
  are counted in parts of `1/TokenUnit`, so that partial refills are exact.
* `RateLimiter` extends it: `check_event` in three steps (clock, accessor, metric), beside
  panics, an open circuit and evictions, and a thread that takes snapshots of the metrics
  and resets them, one counter at a time. The circuit's answer is left open (any), so what
  holds here holds for whatever the breaker answers.
* `EvictionPolicy` - the four eviction policies as values, no variables.
* `ShardedStorage` extends it: `with_entry_mut` in up to nine steps per call, under whichever
  policy was installed. `Victims` is the set of keys that `select_victim` may return for some
  sample. The memory counter wraps at `UsizeRange`. The history variable `needless` counts
  evictions from a map that is below its entry limit.
* `RedisStorage` extends `RatePolicy`: every Redis command is a step that may fail. It
  includes the serialization (a token bucket or a time window cannot be read back), the
  walks that parse hexadecimal keys as decimal numbers, and the warnings that re-enter
  the layer: a failed write is a call within the call, as deep as writes fail.
* `StatePersistence` extends `SuppressionCounter`: the same storage over several lives of its
  processes. An update is two steps, the GET and the SETEX, and either may fail, so that a
  process writes back a copy that others have overtaken. A walk of `retain` may reach the entry or
  pass it by; a process may crash between any two steps, and the key may expire. Copies carry as
  history what was stored since they were read (`missed` suppressions, `unclaimed` claims): when a
  copy is written, these are `overtaken` and `repeated`. The rest is what an update does to the
  counts and the time stamps: three stored formats, each a set of records, offsets from the
  `base_instant` of the writer read as offsets from that of the reader, counters with a base of
  their own. A command that fails is taken to have had no effect.
* `ThrottleLayer` extends `RatePolicy`, `EvictionPolicy` and `SuppressionCounter` and composes the
  parts: the builder's methods in any order, `build`, and then the layer in use, with
  storage, policy, metadata, metrics and emitter task, whose formatter logs through the
  same filter. A formatter is the default one, one with a target of its own that tells what it
  reports, or one that tells nothing of it (`TerseTarget`). `builder` stays after `build` as what the layer was asked for, `built` is the
  outcome, `layer` the fields of the layer; `storage` and `recency` are its entries and their
  order of access, `claimed` the summaries in the formatter's hands. `Victims` is that of
  `ShardedStorage`: what `select_victim` may return for some sample of `SampleSize` entries.
  `logged`, `summaries`, `bypassed` and `lost` are history variables. An event is handled in one
  step: the interleavings inside are those of the other modules.
* `SpanContext` - hooks of a stack of filters, spans that are created, nested, closed and
  reused, `Span::record`, and the walk of an event through its scope. `Over` is
  `BTreeMap::extend`; `Held` lists what a scope holds at a moment, `Innermost` what a signature should be
  made of, stated without the walk.
* `MC...` modules extend these with the instances for TLC. `...Proofs` modules hold the
  theorems.

Conventions: a `\* Mutant` comment marks a deliberately wrong variant of the definition
after it. No specification uses it; replacing the definition by it must make TLC refute
the property `PROJECT.json` pairs with it, which shows that the property can fail. Every
bound is a constant named `Max...` (or `ClockReach`) and is used in guards only.

`PROJECT.json` maps every definition to the lines it models. External behaviour (the
TTL and commands of Redis, the registry of `tracing-subscriber`, clocks) is marked so.

## 3. Runs

Each configuration is run as `tlc -config MCx_y.cfg MCx`.

| Run | Configuration | Instance | Shows |
|---|---|---|---|
| `emission` | `MCSummaryEmission_one` | one task, `min_count` 2, two entries, four suppressions each, one eviction each, final emission | implements `SummaryDelivery`; nothing of a consumed batch duplicated, nothing given wrong stamps; the final emission covers all that preceded the request |
| `emission_shared` | `MCSummaryEmission_shared` | task beside a collector, one entry, `min_count` 1, four suppressions, one eviction, no final emission | nothing lost when two claims on an entry are out together, and progress |
| `breaker` | `MCCircuitBreaker_two` | two threads, threshold 2, four failures, one reset | all properties of the breaker |
| `storage` | `MCShardedStorage_race` | two threads, three keys, each policy and none, sample of two, one cleanup | limits, memory counter, metric and needless evictions under races |
| `limiter` | `MCRateLimiter_all` | two threads, two signatures, each of the four policies, a reader of the metrics | limits of the policies, metrics |
| `lifecycle` | `MCEmitterLifecycle_callers` | three callers, three ticks, panics, with and without final emission | safety and progress of shutdown |
| `lifecycle_dropped` | `MCEmitterLifecycle_dropped` | one caller | violation, see section 6 |
| `redis` | `MCRedisStorage_shared` | three threads of two processes, a readable and two unreadable policies, two failed commands | what survives lost updates; calls return |
| `redis_bucket` | `MCRedisStorage_bucket` | one thread, token bucket | violation, see section 6 |
| `span_context` | `MCSpanContext_filters` | two threads, two filters, nested spans, four kinds of events | cache and signatures |
| `builder` | `MCThrottleLayer_builder` | every method of the builder, zero limits included, three events, no claims after four summaries | the limit asked for, the accounting, no feedback |
| `persistence` | `MCStatePersistence_restarts` | two processes, one of which emits, no value or one of an older format, one crash, two failures | counts and time stamps across restarts and overlapping updates |

Why the bounds are enough for the cases of interest:

* *emission*: four suppressions of an entry with `min_count` 2 allow two claims one after the
  other, with suppressions in between and a rollback of either; one eviction lets a claim
  outlive its entry; two entries make a batch of which a part is shown, and whose rollback is
  interrupted. With one claimant two claims on one entry are never out together. In
  `emission_shared` they are, the task's and the collector's: with `min_count` 1 each takes some of
  the four suppressions, in either order, before or after the eviction, and the rollback of the
  task's finds the cursor beyond its claim.
* *breaker*: with threshold 2 and four failures the circuit opens, fails a test, and opens
  again; a reset may fall anywhere. `ClockReach` equals the timeout: later instants cannot
  be told apart. That two threads do not hide a third is proved (section 5).
* *storage*: more keys than the limit of each policy, limits of one that make both threads evict
  on nearly every call, a sample smaller than the map, one cleanup, after which the memory
  limit binds before the entry limit. Five calls let a race be followed by calls that would
  undo its effect. The number of threads does not matter to the limit: that is proved.
* *limiter*: four events in four instants exceed each policy's limit of two and pass the second
  allowed event of the backoff and the gap after it; windows begin, end and overlap; one
  bucket refills half a token per tick, another holds less than a token. Parameters that
  the constructors refuse are among the candidates and drop out in `Init`.
* *redis*: the hashes 12 and 18 are chosen so that the key of 18 (`12`) parses to 12: a walk
  then reads another entry than the one it found, the rare case in the program (of sixteen
  hexadecimal digits all have to be decimal). A limit of one and three calls allow a
  suppression and a lost update of it. Two failures let the write of a warning fail as well.
* *span_context*: one filter needs `user`, the other `user` and `tenant`; the inner span declares
  only `user`. Two calls of `Span::record` can overlap each other and an event. Threads are
  symmetric.
* *builder*: a bucket of one token (the default), one of half a token and a count of two make the
  first, second or third event a suppression; with limits of one or two signatures the third is
  evicted. Three events allow a summary of summaries. The task claims no more once there are
  `MaxSummaries` = 4 summaries; `SummariesBounded` admits three, so that a violation is not cut
  off. The formatters are the default one and both kinds of custom ones. A sample of two is all of the storage or leaves one entry out. The clock stands
  still, the worst case for feedback.
* *persistence*: three suppressions put one before, in, and after a claim, and let each process
  overtake the other; two failures suffice for a rollback (the emission fails) whose write fails
  too, or for two commands that fail; a crash may hit either process at each of these points. The
  clock shows two instants, so that bases and stamps differ; that more of either changes nothing
  is proved.

`CHECK_DEADLOCK FALSE` is set where the bounds on calls let an instance come to rest; the
breaker never rests and is checked for deadlock.

## 4. Fairness

Only what the code's scheduling gives is assumed, and only for the progress properties.

* `SummaryEmission`: weak fairness of the task (the runtime polls it, its ticker fires again,
  `emit_fn` returns) and of collectors; strong fairness of a successful emission, that is,
  `emit_fn` does not panic for ever. Without the latter `EventuallyReported` is false, as it
  should be. Event threads and shutdown callers owe nothing.
* `CircuitBreaker`: time passes, threads keep logging and finish their calls. Failures end
  (`MaxFailures`): "closes again once the operation stops failing".
* `EmitterLifecycle`: weak fairness of the task and of a caller that has begun. Nobody has to
  call `shutdown`. The biased `select!` is a guard, not a fairness assumption.
* `RedisStorage`: strong fairness of a thread in a call, since tokio's lock is a fair queue.
  Commands stop failing after `MaxErrors` of them: while they all fail no call returns.
* `StatePersistence` has no fairness and no progress property. A walk passes by practically every
  entry, so suppressions in Redis need not be reported at all (section 6).

## 5. Proofs

The proofs hold for all values of the constants: any number of threads, processes, callers,
keys, spans, events and signatures, any settings and limits, and any bounds. They assume only the
named `ASSUME`s of the modules. Some theorems state a hypothesis besides, explained below:
those of the emission about its agents (`SingleEmitter`, `SoleAgent`), one of the breaker about its
threshold, one of the layer about the target of its summaries. Every invariant that a proof rests
on was first checked by TLC on the instance of the module's run. It, or each of its parts, is
defined at the end of the module it is about, so that it can be added to that configuration;
`FeedbackInv` alone is defined with its proof.

| Property | Theorem | Rests on |
|---|---|---|
| `SummaryEmission`: `ReportedWithinSuppressed`, `NoSuppressionLost` | `ReportedBounded`, `NothingLost` | `SafetyInv`, `LossInv` |
| `NoDuplicateDelivery`, `SummarySpansItsSuppressions`, `ImplementsDelivery` | `DeliveredOnce`, `SummariesDescribe`, `DeliveryImplemented` | `SoleInv`, `Ledger`, `SeenInv` |
| `FinalEmissionCovers` | `FinalEmissionComplete` | `FinalInv` |
| `EmitterLifecycle`: `FinalsAsAsked`, `OkMeansStopped`, `NoTickAfterSignal` | `FinalEmissionAsAsked`, `OkIsStopped`, `SignalFirst` | `LifecycleInv` |
| `CircuitBreaker`: `HalfOpenIsTested`, `NeverTripsEarly`, `OpensAtThreshold` | `HalfOpenTested`, `TripsOnThreshold`, `OpensOnThreshold` | types, `TripInv`, `ThresholdInv` |
| `RateLimiter`: `MetricsMatchCounters`, `SnapshotConsistent` | `MetricsAgree`, `SnapshotsAgree` | `LocalInv`, `SnapshotInv` |
| `ScheduleKept`, `IntervalBound`, `SuppressesOnlyWhenUsedUp` | `SchedulesAreKept`, `IntervalsAreBounded`, `NothingRefusedEarly` | `CountInv`, `IntervalInv` |
| `ShardedStorage`: `EvictionsCounted`, `GrowthBounded` | `EvictionsExact`, `GrowthIsBounded` | `CountInv`, `GrowthInv` |
| `MemoryAccounted`, `EvictionsNeeded` | `MemoryIsAccounted`, `EvictionsAreNeeded` | `MemoryInv`, `NeededInv` |
| `RedisStorage`: `SuppressesOnlyOverLimit`, `NeverOverCounts` | `SuppressedOverLimit`, `CountedAtMostOnce` | `CopiesInv` |
| `StatePersistence`: `CountsSurvive`, `StampDriftBounded` | `CountsKept`, `DriftBounded` | `IInv` |
| `SpanContext`: `CacheHoldsAttributes`, `ContextComplete`, `SignatureExact` | `CacheComplete`, `ContextIsComplete`, `SignaturesExact` | `ContextInv` |
| `ThrottleLayer`: `LimitHonoured`, `EventsAccounted` | `LimitsHonoured`, `AllAccounted` | `LayerInv` |
| `SummariesBounded` | `OutputBounded` | `LayerInv`, `FeedbackInv` |

`TypeCorrect` is proved in every proof module (as `LifecycleTypeCorrect` for `EmitterLifecycle` and
`LayerTypeCorrect` for `ThrottleLayer`) but `StatePersistenceProofs`, where the types are a part of
`IInv`.

* `SummaryEmissionProofs`. `NoSuppressionLost` (for at most one emitter, `SingleEmitter`) is not
  inductive: a rollback must be known to find the cursor at or above its claim, or it would be
  ignored. `LossInv` adds that (`RollbacksReach`), that claims are non-empty and lie within what
  the entry counted (`ClaimsWellFormed`), and that a walk takes one claim per signature
  (`WalkInv`). With a sole claimer (`SoleAgent`: one emitter, no collectors) more is true:
  `SoleInv` says that what was delivered, what is claimed and what the cursor has not passed do
  not meet, and what stamps each of them carries. `Ledger` follows: the three succeed each other
  without a gap. `SeenInv` adds what the reader was shown, in batches consumed or rolled back: it is
  a prefix, and every open claim reaches to its end, so that the delivery of the claim covers it. `DeliveryStep` is the step simulation of
  `SummaryDelivery`: a visit that claims maps to a claim, the emission of a batch to one delivery,
  a failed one to the start of a return that has shown a part of the batch, each rollback to the return of one claim, an eviction to
  forgetting, and what concerns none of these to a stutter. `FinalInv`
  follows the last walk: an entry it has passed holds fewer than `min_count` of the suppressions
  marked at the request, whatever collectors take meanwhile.
* `CircuitBreakerProofs`. A half-open circuit has a call under way that will settle it: the only
  step into `HalfOpen` starts such a call, and a call stops being one only by leaving `HalfOpen`
  or after seeing another state. `TripInv` bounds the counter and every thread's copy by the
  failures recorded. `ThresholdInv` says that a closed circuit whose count has reached the
  threshold has a call that has yet to open it or to clear the count (`Settles`). A threshold of zero, which the
  configuration does not refuse, is left out: a circuit that was reset is closed with a count of
  zero, which is then the threshold (hypothesis `FailureThreshold > 0`).
* `RateLimiterProofs`. Metrics are sums over signatures and threads; the lemmas `TotalIs`,
  `TotalZero` and `TotalChange` give the sum of a finite set and what one changed summand does
  to it. `SnapshotInv` keeps what a reader has read, together with the counters it has yet to
  read, between the total when it began and that of now. `CountInv` ties a backoff's
  `next_allowed` to a power of two and the number granted to its exponent. `IntervalInv` is the
  strengthening of `IntervalBound`, which speaks of intervals only: a window holds exactly the
  grants that have not expired (`WindowKept`), and the tokens of a bucket are what its tightest
  interval has left (`BucketKept`: from some instant on, capacity and refills less what was
  granted are exactly what is in the bucket, and from none less). The bound and its converse,
  `NothingRefusedEarly`, follow from the same invariant.
* `ShardedStorageProofs`. `CountInv`: a thread between removal and metric owes one eviction.
  `GrowthInv` keeps the slack (limit + overlaps - entries) at least the number of calls under
  way, less one for a call that still evicts before it inserts (`Committed` tells them apart);
  the steps to mind are `ReadLen`, where a call that sees room takes it from the slack, and
  `RemoveVictim`, where a victim that is already gone turns a call that makes room into one that
  needs it. `MemoryInv` counts the insertions that the counter missed against the calls that
  overlapped, with calls that are still busy counted before they finish; it is about the counter
  modulo `UsizeRange`, for which `ModAdd` and `CounterMoves` stand. `NeedlessInv` lets each
  call that may still evict (`Deciding`) but one pay with an overlap of its own for an eviction below
  the limit; the last one, too, once the map it saw full (`SawFull`) has room, since another call
  or a cleanup made that room.
* The life cycle of the task is proved about at the end of `SummaryEmissionProofs`, which extends
  `EmitterLifecycle` as well; that is why the latter's definitions have the names
  `LifecycleInit`, `LifecycleNext`, `LifecycleSpec` and so on. One invariant, `LifecycleInv`. Its part
  `SignalPending` says that a signal keeps the shutdown branch ready until the task leaves the
  loop: `unseen` is cleared only by the branch that then ends the loop. `RaceInv` says that a task
  between the two polls of its `select!` has seen no signal, or that the signal has just come and
  no tick was served since.
* `RedisStorageProofs`. Processes overwrite each other's updates, so no statement about the
  value in Redis alone is inductive. `CopiesInv` is about every copy there is, in Redis or in
  the hands of a call: it is what the entry was at some moment (`IsCopy`), so its counts are at
  most those of now, and a policy that is exhausted in a copy was granted its burst
  (`WithinGranted`). Serialization, restoring, a claim and an update each keep a copy a copy
  (`CopySerialized` and the lemmas after it).
* `StatePersistenceProofs`. A process that writes makes its copy the stored value, so `CountsInv`
  says of every copy in someone's hands what `CountsSurvive` says of the value: if it were stored,
  with what it misses added to the overtaken and the claims that it does not know to the repeated,
  the accounts would balance (`Covers`). Each store makes the copies of the others miss as much more
  (`HeldFits`, `WalkFits`). `SoundInv` keeps what is reported within what is suppressed, in every copy
  and of each of the three formats. `DriftInv` gives every stamp, stored or in a copy or a claim, an
  interval around its true instant, as wide as the bases of all lives so far are apart; by the
  lemma `Renewal` a stamp that is read and written again comes back, or as the distance of two
  bases, so that shifts do not add up.
* `SpanContextProofs`. `ContextInv` has four parts. `SpansInv` gives scopes their meaning:
  `Scope` is the function that lists a span and its ancestors, and open spans have open scopes.
  `CacheInv` relates a cache to the attributes: what an earlier filter in the stack has cached
  is what the span declared and recorded, up to the calls under way. `WalkInv` and `ExactInv`
  follow the walk of an event: what is collected is what the spans visited so far held, at least
  when the event was logged, and exactly while nothing is recorded.
* `ThrottleLayerProofs`. `LimitHonoured` and `EventsAccounted` are about the builder's last calls and
  about events of two origins, and need what lies between: the layer was built from what `builder`
  still is (`BuiltInv`), and every entry and claim is under the signature of the event it describes
  (`MetadataInv`). `SummariesBounded` needs to know what may still be reported: `Waiting` counts for
  each signature the summaries that its suppressions can lead to without a further event, one for
  each that is unreported and one for a claim. While the formatter's events pass,
  `UnthrottledInv` holds: these and the summaries logged are at most the events of the
  application. When they are throttled, a summary can be suppressed and so lead to another
  summary. `FeedbackInv` gives each signature a depth: zero for those of the application, one more
  for the signature of a summary than for what it reports. Such a summary tells what it reports
  unless the excluded fields hide both (`FeedsItself`), so no summary falls on its own signature or
  on one of lesser depth. The greatest depth, `top`, grows only with a new signature, whose first
  event is allowed. So each depth costs the chain one event, and `top + 1` and all that waits are
  together at most the events logged. The number of summaries follows from a sum in which every
  waiting one is weighted by how far `top` lies above its depth. The hypothesis of `OutputBounded` is that
  the application does not itself log with the target of its own formatter: such an event could
  have the signature of a summary. It holds in the run's instance.

The library's induction theorems take an operator, which the provers cannot instantiate. Where
an argument is by induction (sums, powers of two, scopes), the proofs take a least
counterexample instead: the set of sizes at which the claim fails would have a least element
(`Least`, from the well-foundedness of the naturals).

Only model-checked: the progress properties (`EventuallyReported`, `TicksServed`,
`SignalEndsTask`, `EventuallyCloses`, `CallsReturn`), since TLAPS has
neither fairness nor `ENABLED`.

## 6. Where the code differs from what is written about it

Two runs are expected to be refuted:

* `lifecycle_dropped`: after the handle is dropped, `changed()` fails at once on every turn and the
  biased `select!` never looks at the tick: the task neither emits nor ends. The documentation
  of `EmitterHandle` says it continues running.
* `redis_bucket`: the hand-written visitors of `TokenBucketPolicy` and `TimeWindowPolicy` have no
  `visit_seq`, which is what bincode calls. A stored bucket is found corrupted and deleted at
  every event, so nothing is ever limited. The example's README says that both processes
  consume from the same token bucket.

Further differences met while modelling. Each is the reason for a condition in a property or
in an instance; the named change makes TLC show it.

* Two `SummaryEmitter`s over one registry that fail in turn lose suppressions: `rollback_claim`
  ignores a claim above the cursor (`Emitters = {e1, e2}` refutes `NoSuppressionLost`). The layer
  starts only one.
* A claim that outlives its entry is rolled back into the new entry and can move its
  `first_unreported` before the entry existed. With one claimer the cursor check prevents it;
  `Collectors = {c1}` refutes `SummarySpansItsSuppressions`.
* A documented promise, that claimed suppressions "are not emitted again on later ticks", holds of
  batches that `emit_fn` consumes. The layer's `emit_fn` logs one summary after the other: when it
  panics, those already logged are rolled back with the rest and logged again. Delivery is at
  least once there, and `NoDuplicateDelivery` leaves such batches out (with `shown` in place of
  `delivered` it fails).
* "The shutdown signal is prioritized over tick events" holds of each turn of the `select!`. A signal
  that another thread sends after the turn has polled `changed()` and before it polls `tick()`
  is followed by one more tick emission (`late <= 0` in place of `NoTickAfterSignal` fails). The
  final emission comes after it.
* `record_success` stores `Closed` over a state that later failures have opened; a closed
  circuit then has a count at the threshold (drop `~recovered` from `OpensAtThreshold`). A thread
  that compared times before a newer failure begins a recovery early, and `HalfOpen` lets every
  request through although a comment says one.
* Threads that chose the same victim remove one entry and insert one each. Every later call
  evicts one and inserts one, so the excess stays, and further races add to it: the bound of
  `GrowthBounded` (`+ overlaps`) is reached, although the layer's documentation says the limit
  "prevents unbounded memory growth". Replace `overlaps` by any constant and a longer run
  refutes it.
* Whether the storage is full is read before the victim goes, so two calls can both evict where one
  entry would have had to go (replace `overlaps + crossed` by 0 in `EvictionsNeeded`).
* `is_new_entry` is read before the insertion, so an entry evicted in between is added without
  its memory, and the counter can fall below zero and wrap (drop `overlaps` from
  `MemoryAccounted`). `clear` and `retain` leave the counter alone, which a comment admits:
  `MemoryAccounted` discounts what they removed.
* `build` checks `max_signatures` but not the limits of a strategy: a limit of zero is accepted and
  tracks one signature. The interval is checked even when nothing is emitted.
* Only the default formatter's events are exempt from throttling. A comment says that custom
  formatters are intentionally subject to the normal rules, so the following is no
  disagreement, only what the condition `FeedsItself` of `SummariesBounded` leaves out: a custom
  formatter whose events are not exempt and are told apart neither by signature nor by message
  (both fields are excluded), a custom formatter that does not put them into its events at all
  (`TerseTarget`), or a policy that suppresses a signature's first event. Then the
  layer can produce a summary of its own summaries at every tick, for ever.
* A capacity between zero and one token is accepted and suppresses every event.
* The clock is read before the entry is locked. A time stamp that arrives late makes a window
  exceed its limit (the deque is not sorted) and sets `last_refill` back, so that the same time
  refills twice (drop `\ overtaken` from `IntervalBound`).
* A timeout of `shutdown` detaches the task, although the documentation says it is aborted; a
  second caller of the layer's `shutdown` gets `Ok` at once. `OkMeansStopped` is therefore about
  the caller that got the handle.
* In Redis: updates of two processes that read before either writes are lost, so `LimitKept` fails
  for readable policies too, a suppression or a claim is undone by a stale copy, and what is left
  is `CountsSurvive`. Keys are written in hexadecimal and parsed as decimal, so `for_each` and
  `retain` pass by nearly every entry: its suppressions are then neither claimed nor, if they
  were, given back.
* A warning about a failed write is an event that the layer checks: a call within the call, whose
  write fails and warns again. A comment (`redis_storage.rs:373`) says that failures of Redis are
  handled so that "the rate limiter continues operating even if Redis is unavailable", but while
  every write fails no call returns: the warnings nest without bound. `CallsReturn` therefore
  speaks of commands that fail finitely often. `retain` warns while it holds the
  connection that the check of the warning waits for, the other exception in `CallsReturn`.
* A stored time stamp is an offset from the writer's `base_instant`. Processes that started at
  different times shift each other's stamps by the difference, and a summary can have
  its first suppression after its last (duration zero). What is left is `StampDriftBounded`.
  A claim is stored before its summary is emitted: a crash in between loses it (`lost` in
  `CountsSurvive`); a claim that could not be stored is emitted all the same, and made again.

## 7. What the properties say, by part

* *Emission.* `ImplementsDelivery`: the claims of an emission are consumed together or all returned,
  the reader sees every consumed one at least once, and nothing else moves. `NoSuppressionLost`: what the cursor counts as reported was delivered or
  is in a claim. `NoDuplicateDelivery`, `SummarySpansItsSuppressions`: for a sole claimer.
  `FinalEmissionCovers`: when the task ends without a panic in its last emission, fewer than
  `min_count` of the suppressions that preceded the request are left. `EventuallyReported`: progress.
* *Life cycle.* `FinalsAsAsked`, `OkMeansStopped`, `NoTickAfterSignal`, `TicksServed`, `SignalEndsTask`.
* *Breaker.* `NeverTripsEarly`, `OpensAtThreshold`, `HalfOpenIsTested`, `EventuallyCloses`.
* *Limiter.* `MetricsMatchCounters`: at every moment the metrics, what threads still owe them and what
  a reset discarded equal what the entries recorded. `SnapshotConsistent`: the total of a snapshot
  is that of some moment while it was taken. `ScheduleKept`, `IntervalBound`: the limits, the latter
  over every interval. `SuppressesOnlyWhenUsedUp`: the converse, no event is suppressed that the
  documented limit would let pass.
* *Storage.* `GrowthBounded`, `MemoryAccounted`: limits up to the number of overlapping calls, exact
  without any. `EvictionsCounted`. `EvictionsNeeded`: an entry is given up without need only once for each
  call or cleanup that overlapped.
* *Redis.* `SuppressesOnlyOverLimit`, `NeverOverCounts`: lost updates err on the side of letting events
  pass. `CallsReturn`. Across restarts and overlapping updates `CountsSurvive`, `StampDriftBounded`.
* *Layer.* `CacheHoldsAttributes`, `ContextComplete`, `SignatureExact`. The layer as built:
  `LimitHonoured`, `EventsAccounted`, `SummariesBounded`.

## 8. Not modelled

* Text: formatting of summaries and of event metadata, log lines. They influence no decision.
* Floating point: tokens are exact fractions, so rounding and NaN are left out. Hash collisions
  of signatures are left out: a signature is the record of what is hashed.
* Memory orders weaker than interleaving for the relaxed counters.
* `SuppressionCounter::reset`, which the crate calls nowhere. `Policy::reset` is an operator of
  `RatePolicy`, used to say in `TypeOK` that no step changes the parameters of a policy.
* Clocks, mocks, benches and examples: thin wrappers and programs around the crate.

## 9. Plan

Done: the modules above, in the order counter and emission, breaker, storage, policies and
limiter, life cycle, Redis, filter; then the eviction policies as values, the abstract
specification of delivery, metrics, the builder and the layer put together, and the state that
survives restarts.

Proved: every safety and action property above, and the refinement of `SummaryDelivery`.

What could follow:

1. A composition of `RateLimiter` and `CircuitBreaker`: panics of the storage that open the circuit
   while entries are evicted, instead of the open answer of `RateLimiter`.
2. `OpensAtThreshold` after a recovery: which counts `record_success` may leave behind, in place of
   `~recovered`.
3. `ThrottleLayer` with a clock that moves, where a formatter's events may pass again in a later
   window: the bound on summaries then depends on how often the policies forget.
