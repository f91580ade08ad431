--------------------------- MODULE SummaryEmission ---------------------------
(***************************************************************************)
(* How suppressions reach the summaries: event threads record suppressions *)
(* (RateLimiter::check_event), emitter tasks claim them, hand them to      *)
(* emit_fn and roll the claims back when emit_fn panics                    *)
(* (SummaryEmitter::start and what it calls in                             *)
(* src/application/emitter.rs), other callers claim them through           *)
(* collect_summaries, and the storage evicts entries at any moment.        *)
(*                                                                         *)
(* Atomicity.  The registry is walked entry by entry, each entry under its *)
(* storage shard's lock, so one visited entry is one step; everything else *)
(* may run between two visits, while emit_fn runs, and between its panic   *)
(* and each visit of the rollback.                                         *)
(***************************************************************************)
EXTENDS SuppressionCounter, FiniteSets

CONSTANTS
    Signatures,       \* event signatures
    Emitters,         \* running SummaryEmitter::start tasks
    Collectors,       \* threads that call collect_summaries directly
    MinCount,         \* EmitterConfig::min_count
    EmitFinal,        \* the emit_final argument of start
    MaxSuppressions,  \* bound: suppressions of one entry
    MaxEpoch          \* bound: times the entry of a signature is evicted

ASSUME MinCountAssumption == MinCount \in Nat
ASSUME EmitFinalAssumption == EmitFinal \in BOOLEAN
ASSUME BoundsAssumption == MaxSuppressions \in Nat /\ MaxEpoch \in Nat
ASSUME AgentsAssumption == Emitters \cap Collectors = {}

Agents == Emitters \cup Collectors

VARIABLES
    counter,    \* signature -> the counter of its entry
    phase,      \* agent -> where its control is
    todo,       \* agent -> entries the walk in progress has yet to visit
    claims,     \* agent -> the claims of the batch in its hands
    final,      \* emitter -> is this the emission of the shutdown branch?
    shutdown,   \* emitter -> has the shutdown signal been sent?
    epoch,      \* history: how often the entry has been evicted
    delivered,  \* history: suppressions of the entry in a batch that was consumed
    shown,      \* history: those that emit_fn logged before it panicked
    mark        \* history: emitter -> suppressions seen when it was told to stop

vars == <<counter, phase, todo, claims, final, shutdown, epoch, delivered, shown, mark>>

(***************************************************************************)
(* The k-th suppression of an entry is named by its position, its stamp by *)
(* the incarnation of the entry and that position; position 0 is the       *)
(* moment the entry was created.                                           *)
(***************************************************************************)
Stamp == Nat \X Nat

\* ClaimedSummary, with the incarnation of the entry it was taken from
\* (history: the code does not know it).
ClaimedSummary == [signature : Signatures, epoch : Nat, claim : ClaimedSuppressions(Stamp)]

Phase == {"select", "tick", "collect", "rollback", "done"}

TypeOK ==
    /\ counter \in [Signatures -> Counter(Stamp)]
    /\ phase \in [Agents -> Phase]
    /\ todo \in [Agents -> SUBSET Signatures]
    /\ claims \in [Agents -> SUBSET ClaimedSummary]
    /\ final \in [Emitters -> BOOLEAN]
    /\ shutdown \in [Emitters -> BOOLEAN]
    /\ epoch \in [Signatures -> Nat]
    /\ delivered \in [Signatures -> SUBSET Nat]
    /\ shown \in [Signatures -> SUBSET Nat]
    /\ mark \in [Emitters -> [Signatures -> Nat]]

\* Positions of the suppressions the claim stands for.
ClaimedPositions(c) == (c.claim.previous_reported_count + 1) .. c.claim.total_count

\* Positions, in incarnation ep of the entry of s, that the claims cs hold.
PositionsIn(cs, s, ep) ==
    UNION {ClaimedPositions(c) : c \in {d \in cs : d.signature = s /\ d.epoch = ep}}

Init ==
    /\ counter = [s \in Signatures |-> NewCounter(<<0, 0>>)]
    /\ phase = [a \in Agents |-> "select"]
    /\ todo = [a \in Agents |-> {}]
    /\ claims = [a \in Agents |-> {}]
    /\ final = [e \in Emitters |-> FALSE]
    /\ shutdown = [e \in Emitters |-> FALSE]
    /\ epoch = [s \in Signatures |-> 0]
    /\ delivered = [s \in Signatures |-> {}]
    /\ shown = [s \in Signatures |-> {}]
    /\ mark = [e \in Emitters |-> [s \in Signatures |-> 0]]

-----------------------------------------------------------------------------
(* Event threads and the storage. *)

\* check_event decided to suppress: the accessor records it in the entry.
RecordSuppression(s) ==
    /\ counter[s].suppressed_count < MaxSuppressions
    /\ counter' = [counter EXCEPT ![s] =
                      AfterSuppression(@, <<epoch[s], @.suppressed_count + 1>>)]
    /\ UNCHANGED <<phase, todo, claims, final, shutdown, epoch, delivered, shown, mark>>

\* The entry is removed (eviction or registry.clear) and the next event of the
\* signature creates a new one.  An entry that has no suppressions is left out:
\* nothing can tell it from its successor.
Evict(s) ==
    /\ counter[s].suppressed_count > 0
    /\ epoch[s] < MaxEpoch
    /\ epoch' = [epoch EXCEPT ![s] = @ + 1]
    /\ counter' = [counter EXCEPT ![s] = NewCounter(<<epoch[s] + 1, 0>>)]
    /\ delivered' = [delivered EXCEPT ![s] = {}]
    /\ shown' = [shown EXCEPT ![s] = {}]
    /\ mark' = [e \in Emitters |-> [mark[e] EXCEPT ![s] = 0]]
    /\ UNCHANGED <<phase, todo, claims, final, shutdown>>

-----------------------------------------------------------------------------
(* Emitter tasks. *)

\* EmitterHandle::shutdown sends the signal; the task may be anywhere.
RequestShutdown(e) ==
    /\ ~shutdown[e]
    /\ shutdown' = [shutdown EXCEPT ![e] = TRUE]
    /\ mark' = [mark EXCEPT ![e] = [s \in Signatures |-> counter[s].suppressed_count]]
    /\ UNCHANGED <<counter, phase, todo, claims, final, epoch, delivered, shown>>

StartCollect(a) ==
    /\ phase' = [phase EXCEPT ![a] = "collect"]
    /\ todo' = [todo EXCEPT ![a] = Signatures]
    /\ UNCHANGED <<counter, claims, shutdown, epoch, delivered, shown, mark>>

\* The biased select polls changed(), finds no signal, and turns to tick().
PollSignal(e) ==
    /\ phase[e] = "select"
    /\ ~shutdown[e]
    /\ phase' = [phase EXCEPT ![e] = "tick"]
    /\ UNCHANGED <<counter, todo, claims, final, shutdown, epoch, delivered, shown, mark>>

\* The tick branch, taken even if the signal has come since changed() was polled.
Tick(e) ==
    /\ phase[e] = "tick"
    /\ StartCollect(e)
    /\ UNCHANGED final

\* The signal wakes a task that waits for its ticker: the select polls anew.
Woken(e) ==
    /\ phase[e] = "tick"
    /\ shutdown[e]
    /\ phase' = [phase EXCEPT ![e] = "select"]
    /\ UNCHANGED <<counter, todo, claims, final, shutdown, epoch, delivered, shown, mark>>

\* Mutant: break without the last emission.
ShutdownBreaks(e) ==
    /\ phase[e] = "select"
    /\ shutdown[e]
    /\ phase' = [phase EXCEPT ![e] = "done"]
    /\ UNCHANGED <<counter, todo, claims, final, shutdown, epoch, delivered, shown, mark>>

\* The shutdown branch: a last emission if emit_final, then break.
ShutdownBranch(e) ==
    /\ phase[e] = "select"
    /\ shutdown[e]
    /\ \/ /\ EmitFinal
          /\ final' = [final EXCEPT ![e] = TRUE]
          /\ StartCollect(e)
       \/ /\ ~EmitFinal
          /\ phase' = [phase EXCEPT ![e] = "done"]
          /\ UNCHANGED <<counter, todo, claims, final, shutdown, epoch, delivered, shown, mark>>

\* A call of collect_summaries, whose claims go to its caller.
CollectSummaries(a) ==
    /\ phase[a] = "select"
    /\ StartCollect(a)
    /\ UNCHANGED final

\* collect_claimed_summaries at one entry of the registry.
CollectVisit(a, s) ==
    /\ phase[a] = "collect"
    /\ s \in todo[a]
    /\ todo' = [todo EXCEPT ![a] = @ \ {s}]
    /\ \/ /\ CanClaim(counter[s], MinCount)
          /\ claims' = [claims EXCEPT ![a] = @ \cup
                {[signature |-> s, epoch |-> epoch[s], claim |-> ClaimOf(counter[s])]}]
          /\ counter' = [counter EXCEPT ![s] = AfterClaim(@)]
       \/ /\ ~CanClaim(counter[s], MinCount)
          /\ UNCHANGED <<claims, counter>>
    /\ UNCHANGED <<phase, final, shutdown, epoch, delivered, shown, mark>>

\* Where control goes once an emission is over.
AfterEmission(a) == IF a \in Emitters /\ final[a] THEN "done" ELSE "select"

\* emit_claimed_summaries with an empty batch: emit_fn is not called.
EmitNothing(a) ==
    /\ phase[a] = "collect"
    /\ todo[a] = {}
    /\ claims[a] = {}
    /\ phase' = [phase EXCEPT ![a] = AfterEmission(a)]
    /\ UNCHANGED <<counter, todo, claims, final, shutdown, epoch, delivered, shown, mark>>

\* emit_fn returned, or collect_summaries returned the batch to its caller.
EmitOk(a) ==
    /\ phase[a] = "collect"
    /\ todo[a] = {}
    /\ claims[a] # {}
    /\ delivered' = [s \in Signatures |-> delivered[s] \cup PositionsIn(claims[a], s, epoch[s])]
    /\ claims' = [claims EXCEPT ![a] = {}]
    /\ phase' = [phase EXCEPT ![a] = AfterEmission(a)]
    /\ UNCHANGED <<counter, todo, final, shutdown, epoch, shown, mark>>

\* emit_fn, which logs one summary after the other, panicked after some of
\* them; catch_unwind leads to the rollback of every claim of the batch.
EmitPanic(e) ==
    /\ phase[e] = "collect"
    /\ todo[e] = {}
    /\ claims[e] # {}
    /\ phase' = [phase EXCEPT ![e] = "rollback"]
    /\ \E told \in SUBSET claims[e] :
          shown' = [s \in Signatures |-> shown[s] \cup PositionsIn(told, s, epoch[s])]
    /\ UNCHANGED <<counter, todo, claims, final, shutdown, epoch, delivered, mark>>

\* rollback_claimed_summaries at the entry of one claim: the claim goes to
\* whatever entry the signature has now.  The last one ends the emission.
RollbackVisit(e) ==
    /\ phase[e] = "rollback"
    /\ \E c \in claims[e] :
          /\ counter' = [counter EXCEPT ![c.signature] = AfterRollback(@, c.claim)]
          /\ claims' = [claims EXCEPT ![e] = @ \ {c}]
          /\ phase' = [phase EXCEPT ![e] = IF claims[e] = {c} THEN AfterEmission(e) ELSE @]
    /\ UNCHANGED <<todo, final, shutdown, epoch, delivered, shown, mark>>

EmitterStep(e) ==
    \/ PollSignal(e)
    \/ Tick(e)
    \/ Woken(e)
    \/ ShutdownBranch(e)
    \/ \E s \in Signatures : CollectVisit(e, s)
    \/ EmitNothing(e)
    \/ EmitOk(e)
    \/ EmitPanic(e)
    \/ RollbackVisit(e)

CollectorStep(a) ==
    \/ CollectSummaries(a)
    \/ \E s \in Signatures : CollectVisit(a, s)
    \/ EmitNothing(a)
    \/ EmitOk(a)

Next ==
    \/ \E s \in Signatures : RecordSuppression(s) \/ Evict(s)
    \/ \E e \in Emitters : RequestShutdown(e) \/ EmitterStep(e)
    \/ \E a \in Collectors : CollectorStep(a)

Spec == Init /\ [][Next]_vars

(***************************************************************************)
(* Fairness: the runtime keeps polling the task (its ticker always fires   *)
(* again), calls of emit_fn return, and emit_fn does not panic for ever.   *)
(* Nothing is assumed of event threads, shutdown callers or the storage.   *)
(***************************************************************************)
FairSpec ==
    /\ Spec
    /\ \A e \in Emitters : WF_vars(EmitterStep(e)) /\ SF_vars(EmitOk(e))
    /\ \A a \in Collectors : WF_vars(CollectorStep(a))
-----------------------------------------------------------------------------
(* Properties. *)

Threshold == IF MinCount > 1 THEN MinCount ELSE 1

\* Positions of the current entry of s that some agent holds in a claim.
InFlight(s) == UNION {PositionsIn(claims[a], s, epoch[s]) : a \in Agents}

\* A counter never reports more suppressions than it counted: otherwise the
\* saturating subtraction of claim_unreported would hide the difference.
ReportedWithinSuppressed ==
    \A s \in Signatures : counter[s].reported_count <= counter[s].suppressed_count

\* No suppression is lost: whatever a counter counts as reported has reached
\* a consumer or is in a claim whose emission is not over (rollback_claim
\* "prevents suppressions from being lost after a failed emission").
NoSuppressionLost ==
    \A s \in Signatures :
        1 .. counter[s].reported_count \subseteq delivered[s] \cup InFlight(s)

\* Claimed suppressions "are not emitted again on later ticks": none that a
\* consumed batch reported is in a claim again or left to be claimed.  Only
\* those of a batch whose emission panicked are emitted again.
NoDuplicateDelivery ==
    \A s \in Signatures :
        delivered[s] \cap (InFlight(s) \cup
                           (counter[s].reported_count + 1) .. counter[s].suppressed_count) = {}

\* A summary describes its own suppressions: the count of a claim is the
\* number of suppressions it took, its stamps are those of the first and the
\* last of them (the counter keeps "count and timestamp cursors consistent").
SummarySpansItsSuppressions ==
    \A a \in Agents : \A c \in claims[a] :
        /\ c.claim.count = c.claim.total_count - c.claim.previous_reported_count
        /\ c.claim.first_suppressed = <<c.epoch, c.claim.previous_reported_count + 1>>
        /\ c.claim.last_suppressed = <<c.epoch, c.claim.total_count>>

\* With emit_final, a task that stops without a panic in its last emission
\* leaves fewer than min_count of the suppressions that preceded the shutdown
\* request unreported for each entry.
FinalEmissionCovers ==
    [][\A e \in Emitters :
          (EmitFinal /\ phase[e] \in {"select", "collect"} /\ phase'[e] = "done")
          => \A s \in Signatures :
                Cardinality((1 .. mark[e][s]) \ (delivered[s] \cup InFlight(s))) < Threshold]_vars

\* While no task is told to stop, min_count undelivered suppressions of an
\* entry are delivered sooner or later, however emissions fail meanwhile.
EventuallyReported ==
    \A s \in Signatures :
        (Cardinality((1 .. counter[s].suppressed_count) \ delivered[s]) >= Threshold)
        ~> \/ Cardinality((1 .. counter[s].suppressed_count) \ delivered[s]) < Threshold
           \/ \E e \in Emitters : shutdown[e]
-----------------------------------------------------------------------------
(* The promise of SummaryDelivery. *)

ClaimedOf(s) == Cardinality(InFlight(s))

Delivery == INSTANCE SummaryDelivery WITH
    pending   <- [s \in Signatures |-> UnreportedCount(counter[s])],
    claimed   <- [s \in Signatures |-> ClaimedOf(s)],
    delivered <- [s \in Signatures |-> Cardinality(delivered[s])],
    seen      <- [s \in Signatures |-> Cardinality(delivered[s] \cup shown[s])],
    returning <- \E e \in Emitters : phase[e] = "rollback" /\ \E s \in Signatures : ClaimedOf(s) > 0

\* With one claimant the claims, panics, rollbacks and evictions of the code
\* implement the abstract delivery: suppressions move between pending,
\* claimed and delivered as wholes, a batch counts as delivered or is returned
\* entire, though the reader may have seen a part of it, rolling back leaves
\* the count where it was before the claim, and what was seen stays a prefix
\* that the next delivery covers.
ImplementsDelivery == Delivery!Spec

-----------------------------------------------------------------------------
(* The inductive invariant behind the safety properties. *)

\* A claim is non-empty and comes from this entry or from an evicted one; a
\* claim on the present entry lies within what the entry has counted.
ClaimsWellFormed ==
    \A a \in Agents : \A c \in claims[a] :
        /\ c.claim.previous_reported_count < c.claim.total_count
        /\ c.epoch <= epoch[c.signature]
        /\ c.epoch = epoch[c.signature] =>
              c.claim.total_count <= counter[c.signature].suppressed_count

\* One walk takes at most one claim per signature, none of a signature it has
\* yet to visit, and between emissions an agent holds no claims.
WalkInv ==
    \A a \in Agents :
        /\ phase[a] \in {"select", "tick", "done"} => claims[a] = {}
        /\ phase[a] # "collect" => todo[a] = {}
        /\ \A c \in claims[a] : c.signature \notin todo[a]
        /\ \A c, d \in claims[a] : c.signature = d.signature => c = d

\* The reported cursor stays at or above a claim its emitter can still roll
\* back.  This is where a second emitter breaks the design.
RollbacksReach ==
    \A e \in Emitters : \A c \in claims[e] :
        c.epoch = epoch[c.signature] =>
            c.claim.total_count <= counter[c.signature].reported_count

SafetyInv ==
    /\ TypeOK
    /\ ReportedWithinSuppressed
    /\ ClaimsWellFormed
    /\ WalkInv

LossInv == SafetyInv /\ RollbacksReach /\ NoSuppressionLost

\* The registry has at most one emitter task.
SingleEmitter == \A e, f \in Emitters : e = f

\* Only one agent claims at all: what the layer sets up.
SoleAgent == \A a, b \in Agents : a = b

\* The reported cursor stays at or above every open claim, not only the
\* emitters' own.
ClaimsReported ==
    \A a \in Agents : \A c \in claims[a] :
        c.epoch = epoch[c.signature] =>
            c.claim.total_count <= counter[c.signature].reported_count

\* A claim that outlived its entry cannot touch the new one, of which nothing
\* has been claimed yet.
StaleClaimsInert ==
    \A a \in Agents : \A c \in claims[a] :
        c.epoch # epoch[c.signature] => counter[c.signature].reported_count = 0

\* Deliveries lie below the reported cursor and below every open claim.
DeliveredBelow ==
    \A s \in Signatures : \A i \in delivered[s] :
        /\ i \in 1 .. counter[s].reported_count
        /\ \A a \in Agents : \A c \in claims[a] :
              c.signature = s /\ c.epoch = epoch[s] =>
                  i <= c.claim.previous_reported_count

\* The stamp cursors name the suppressions that the counts say they name.
CursorsMatchCounts ==
    \A s \in Signatures :
        /\ counter[s].suppressed_count > 0 =>
              counter[s].last_suppressed = <<epoch[s], counter[s].suppressed_count>>
        /\ counter[s].reported_count < counter[s].suppressed_count =>
              counter[s].first_unreported = <<epoch[s], counter[s].reported_count + 1>>

SoleInv ==
    /\ LossInv
    /\ ClaimsReported
    /\ StaleClaimsInert
    /\ DeliveredBelow
    /\ CursorsMatchCounts
    /\ SummarySpansItsSuppressions

\* Where every suppression of an entry is, when one agent does all the
\* claiming: the delivered ones come first, then those in the open claim, then
\* the pending ones.
Ledger ==
    \A s \in Signatures :
        /\ Cardinality(delivered[s]) \in 0 .. counter[s].reported_count
        /\ delivered[s] = 1 .. Cardinality(delivered[s])
        /\ ClaimedOf(s) = counter[s].reported_count - Cardinality(delivered[s])
        /\ UnreportedCount(counter[s]) = counter[s].suppressed_count - counter[s].reported_count
        /\ \A a \in Agents : \A c \in claims[a] :
              c.signature = s /\ c.epoch = epoch[s] =>
                  /\ c.claim.previous_reported_count = Cardinality(delivered[s])
                  /\ c.claim.total_count = counter[s].reported_count
        /\ (\A a \in Agents : \A c \in claims[a] : ~(c.signature = s /\ c.epoch = epoch[s])) =>
              Cardinality(delivered[s]) = counter[s].reported_count

\* The reader has seen the first suppressions of each entry, some of them
\* perhaps in batches that were rolled back, and an open claim covers all that
\* it has seen of the entry.
SeenInv ==
    \A s \in Signatures : \E k \in 0 .. counter[s].suppressed_count :
        /\ delivered[s] \cup shown[s] = 1 .. k
        /\ \A a \in Agents : \A c \in claims[a] :
              c.signature = s /\ c.epoch = epoch[s] => k <= c.claim.total_count

\* A task in its last emission was told to stop, and the entries it has
\* visited since lack fewer than min_count of what they had counted by then.
FinalInv ==
    \A e \in Emitters :
        /\ final[e] => shutdown[e]
        /\ \A s \in Signatures : mark[e][s] <= counter[s].suppressed_count
        /\ final[e] /\ phase[e] = "collect" =>
              \A s \in Signatures \ todo[e] :
                  mark[e][s] < counter[s].reported_count + Threshold
=============================================================================
