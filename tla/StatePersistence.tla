-------------------------- MODULE StatePersistence --------------------------
(***************************************************************************)
(* What is kept of an event's state in Redis while processes come and go:  *)
(* the stored formats of src/infrastructure/redis_storage.rs, the time     *)
(* stamps of src/domain/summary.rs, and the claims of an emitter.          *)
(*                                                                         *)
(* Several processes share the entry of one signature; one of them emits   *)
(* summaries.  An update of the entry is two commands, a GET and a SETEX,  *)
(* and each may fail.  with_entry_mut does not hold its process's          *)
(* connection between the two, a walk of retain does, and nothing holds    *)
(* off the other processes.  A walk may also pass the entry by (see        *)
(* RedisStorage, ParsedHash).  A process may crash at any time, and loses  *)
(* the updates and the claims in its hands.                                *)
(*                                                                         *)
(* A process that is started connects to Redis and so fixes base_instant;  *)
(* the counters of a process have a base instant of their own, fixed when  *)
(* the first time stamp is converted.  A stored time stamp is an offset    *)
(* from the base_instant of its writer and is read as an offset from that  *)
(* of its reader.  All instants are readings of one clock.                 *)
(*                                                                         *)
(* Every event is suppressed, and a process handles one at a time: two     *)
(* threads of a process interleave as two processes do.                    *)
(***************************************************************************)
EXTENDS SuppressionCounter, FiniteSetsExt

CONSTANTS
    Processes,
    Emitter,          \* the process that emits summaries
    None,             \* no value, no claim, no instant
    StoredValues,     \* what may be stored at the start
    MaxClock,         \* bound: the clock
    MaxSuppressions,  \* bound: suppressed events
    MaxCrashes,       \* bound: processes that crash
    MaxFailures       \* bound: commands and emissions that fail, and expiries

\* The stored formats, as serde lays them out; time stamps are offsets.
SerializableEventState ==
    [format : {"current"}, suppressed_count : Nat, reported_count : Nat,
     first_suppressed : Nat, last_suppressed : Nat,
     last_reported : Nat, first_unreported : Nat]
ReportedSerializableEventState ==
    [format : {"reported"}, suppressed_count : Nat, reported_count : Nat,
     first_suppressed : Nat, last_suppressed : Nat, last_reported : Nat]
LegacySerializableEventState ==
    [format : {"legacy"}, suppressed_count : Nat,
     first_suppressed : Nat, last_suppressed : Nat]

Formats ==
    SerializableEventState \cup ReportedSerializableEventState \cup LegacySerializableEventState

\* Claims and copies of the entry carry, as history, true instants next to the
\* stamps the program keeps.
Claims ==
    [taken : ClaimedSuppressions(Nat), origin : ClaimedSuppressions(Nat \cup {None})]

\* A copy of the entry in the hands of a process; a walk's goes with a claim.
\* As history, how much was stored since it was read: suppressions that it
\* misses, and claims that it does not know.
Copies ==
    [state : Counter(Nat), origin : Counter(Nat \cup {None}), claim : Claims \cup {None},
     missed : Nat, unclaimed : Nat]

ASSUME EmitterAssumption == Emitter \in Processes
ASSUME NoneAssumption == None \notin Nat \cup Formats \cup Claims \cup Copies
\* An older version has stored what its counters held: no more was reported
\* than suppressed.
ASSUME StoredAssumption ==
    /\ StoredValues \subseteq Formats \cup {None}
    /\ \A v \in StoredValues \ {None} :
          v.format \in {"current", "reported"} => v.reported_count <= v.suppressed_count
ASSUME PersistenceBounds ==
    /\ MaxClock \in Nat /\ MaxSuppressions \in Nat
    /\ MaxCrashes \in Nat /\ MaxFailures \in Nat

VARIABLES
    clock,         \* the monotonic clock (external)
    base_instant,  \* process -> base_instant of its RedisStorage; None when it is down
    counter_base,  \* process -> BASE of its counters, or None
    value,         \* what Redis holds for the signature, or None
    held,          \* process -> the copy an event has changed and not stored, or None
    walk,          \* the copy the emitter's walk has changed and not stored, or None
    claim,         \* the claim the emitter has yet to deliver, or None
    origin,        \* history: the counter of the value, with true instants
    recorded,      \* history: suppressions there were
    unsaved,       \* history: those among them that no SETEX has stored
    delivered,     \* history: suppressions in summaries delivered
    lost,          \* history: suppressions in claims lost in a crash
    overtaken,     \* history: suppressions overwritten, expired or not given back
    repeated,      \* history: suppressions claimed whose claim was undone
    earliest, latest,  \* history: the first and the last base_instant there was
    lateness,      \* history: the most a BASE was fixed after its base_instant
    crashes, failures  \* history: what has happened so far

process == <<base_instant, counter_base>>
stored == <<value, origin>>
reports == <<delivered, lost>>
slips == <<overtaken, repeated>>
connects == <<earliest, latest>>
vars == <<clock, process, stored, held, walk, claim, recorded, unsaved, reports, slips,
          connects, lateness, crashes, failures>>

\* How much of a stored value counts as reported.
ReportedOf(v) == IF v.format = "legacy" THEN 0 ELSE v.reported_count

\* Of the stamps of an older version's value nobody knows the true instants.
Unknown(v) ==
    IF v = None THEN NewCounter(None)
    ELSE [NewCounter(None) EXCEPT !.suppressed_count = v.suppressed_count,
                                  !.reported_count = ReportedOf(v)]

Init ==
    /\ clock = 0
    /\ base_instant = [p \in Processes |-> None]
    /\ counter_base = [p \in Processes |-> None]
    /\ value \in StoredValues
    /\ held = [p \in Processes |-> None]
    /\ walk = None
    /\ claim = None
    /\ origin = Unknown(value)
    /\ recorded = origin.suppressed_count
    /\ unsaved = 0
    /\ delivered = origin.reported_count
    /\ lost = 0
    /\ overtaken = 0
    /\ repeated = 0
    /\ earliest = None
    /\ latest = None
    /\ lateness = 0
    /\ crashes = 0
    /\ failures = 0
-----------------------------------------------------------------------------
(* Conversions.  Durations saturate at zero. *)

\* BASE.get_or_init
Base(p) == IF counter_base[p] = None THEN clock ELSE counter_base[p]

InstantToNanos(p, instant) == SaturatingSub(instant, Base(p))

NanosToInstant(p, nanos) == Base(p) + nanos

\* Mutant: instants are stored instead of offsets.
FromEventStateInstant(p, c) ==
    [format           |-> "current",
     suppressed_count |-> c.suppressed_count,
     reported_count   |-> c.reported_count,
     first_suppressed |-> NanosToInstant(p, c.first_suppressed),
     last_suppressed  |-> NanosToInstant(p, c.last_suppressed),
     last_reported    |-> NanosToInstant(p, c.last_reported),
     first_unreported |-> NanosToInstant(p, c.first_unreported)]

\* from_event_state
FromEventState(p, c) ==
    LET Offset(nanos) == SaturatingSub(NanosToInstant(p, nanos), base_instant[p])
    IN  [format           |-> "current",
         suppressed_count |-> c.suppressed_count,
         reported_count   |-> c.reported_count,
         first_suppressed |-> Offset(c.first_suppressed),
         last_suppressed  |-> Offset(c.last_suppressed),
         last_reported    |-> Offset(c.last_reported),
         first_unreported |-> Offset(c.first_unreported)]

\* from_snapshot_with_reported_and_first_unreported, on offsets: no more is
\* reported than was suppressed.
FromSnapshot(p, v, reported, last_reported, first_unreported) ==
    LET Nanos(offset) == InstantToNanos(p, base_instant[p] + offset)
    IN  [suppressed_count |-> v.suppressed_count,
         reported_count   |-> IF reported < v.suppressed_count
                                 THEN reported ELSE v.suppressed_count,
         first_suppressed |-> Nanos(v.first_suppressed),
         last_suppressed  |-> Nanos(v.last_suppressed),
         last_reported    |-> Nanos(last_reported),
         first_unreported |-> Nanos(first_unreported)]

\* to_event_state
CurrentToEventState(p, v) ==
    FromSnapshot(p, v, v.reported_count, v.last_reported, v.first_unreported)

\* Mutant: a value without first_unreported counts as fully reported.
ReportedToEventStateAll(p, v, reported, last_reported) ==
    FromSnapshot(p, v, v.suppressed_count, last_reported, last_reported)

\* from_snapshot_with_reported: the format without first_unreported.
ReportedToEventState(p, v, reported, last_reported) ==
    FromSnapshot(p, v, reported, last_reported,
                 IF reported = 0 THEN v.first_suppressed ELSE last_reported)

\* from_snapshot: the format without anything of the emitter.
LegacyToEventState(p, v) == ReportedToEventState(p, v, 0, v.first_suppressed)

\* get_with_conn: each format is tried in turn; a value of one format is too
\* short for those before it.  Without a value the factory makes the state.
Read(p, now) ==
    IF value = None THEN NewCounter(InstantToNanos(p, now))
    ELSE CASE value.format = "current"  -> CurrentToEventState(p, value)
           [] value.format = "reported" -> ReportedToEventState(p, value, value.reported_count, value.last_reported)
           [] value.format = "legacy"   -> LegacyToEventState(p, value)

OriginRead(now) == IF value = None THEN NewCounter(now) ELSE origin

\* The conversions of p fix its BASE.
FixBase(p) ==
    /\ counter_base' = [counter_base EXCEPT ![p] = Base(p)]
    /\ lateness' = Max({lateness, Base(p) - base_instant[p]})

\* Suppressions a later summary will report, by what Redis holds.
UnreportedStored == IF value = None THEN 0 ELSE value.suppressed_count - ReportedOf(value)
-----------------------------------------------------------------------------
(* Copies of the entry. *)

Copy(state, true, with, missed, unclaimed) ==
    [state |-> state, origin |-> true, claim |-> with,
     missed |-> missed, unclaimed |-> unclaimed]

\* Others have stored more suppressions, or a claim, since the copy c was read.
Behind(c, suppressions, claimed) ==
    IF c = None THEN None
    ELSE [c EXCEPT !.missed = @ + suppressions, !.unclaimed = @ + claimed]

AllBehind(suppressions, claimed) ==
    held' = [p \in Processes |-> Behind(held[p], suppressions, claimed)]

\* set_with_conn: what the copy c misses is overwritten, and the claims that it
\* does not know are undone.
Write(p, c) ==
    /\ value' = FromEventState(p, c.state)
    /\ origin' = c.origin
    /\ overtaken' = overtaken + c.missed
    /\ repeated' = repeated + c.unclaimed

Fails ==
    /\ failures < MaxFailures
    /\ failures' = failures + 1
-----------------------------------------------------------------------------
(* Processes. *)

Tick ==
    /\ clock < MaxClock
    /\ clock' = clock + 1
    /\ UNCHANGED <<process, stored, held, walk, claim, recorded, unsaved, reports, slips,
                   connects, lateness, crashes, failures>>

\* The process starts: connect_with_config.  A counter of another of its
\* layers may have fixed BASE before.
Connect(p) ==
    /\ base_instant[p] = None
    /\ base_instant' = [base_instant EXCEPT ![p] = clock]
    /\ counter_base' \in {counter_base, [counter_base EXCEPT ![p] = clock]}
    /\ earliest' = IF earliest = None THEN clock ELSE earliest
    /\ latest' = clock
    /\ UNCHANGED <<clock, stored, held, walk, claim, recorded, unsaved, reports, slips,
                   lateness, crashes, failures>>

Crash(p) ==
    /\ base_instant[p] # None
    /\ crashes < MaxCrashes
    /\ crashes' = crashes + 1
    /\ base_instant' = [base_instant EXCEPT ![p] = None]
    /\ counter_base' = [counter_base EXCEPT ![p] = None]
    /\ held' = [held EXCEPT ![p] = None]
    /\ lost' = IF p = Emitter /\ claim # None THEN lost + claim.taken.count ELSE lost
    /\ claim' = IF p = Emitter THEN None ELSE claim
    /\ walk' = IF p = Emitter THEN None ELSE walk
    /\ UNCHANGED <<clock, stored, recorded, unsaved, delivered, slips, connects, lateness, failures>>

\* The walk of a process has its connection.
Walking(p) == p = Emitter /\ walk # None

\* with_entry_mut of an event that is suppressed, up to its SETEX.  The event
\* has read the clock before it waited for the connection; after a failed GET
\* the factory makes a new state.
RecordSuppression(p) ==
    /\ base_instant[p] # None /\ held[p] = None /\ ~Walking(p)
    /\ recorded < MaxSuppressions
    /\ recorded' = recorded + 1
    /\ unsaved' = unsaved + 1
    /\ FixBase(p)
    /\ \E now \in base_instant[p] .. clock :
          \/ /\ held' = [held EXCEPT ![p] =
                    Copy(AfterSuppression(Read(p, now), InstantToNanos(p, now)),
                         AfterSuppression(OriginRead(now), now), None, 0, 0)]
             /\ UNCHANGED failures
          \/ /\ Fails
             /\ held' = [held EXCEPT ![p] =
                    Copy(AfterSuppression(NewCounter(InstantToNanos(p, now)), InstantToNanos(p, now)),
                         AfterSuppression(NewCounter(now), now), None, UnreportedStored, 0)]
    /\ UNCHANGED <<clock, base_instant, stored, walk, claim, reports, slips, connects, crashes>>

\* Its SETEX.
StoreSuppression(p) ==
    /\ held[p] # None /\ ~Walking(p)
    /\ \/ /\ Write(p, held[p])
          /\ unsaved' = unsaved - 1
          /\ held' = [q \in Processes |-> IF q = p THEN None ELSE Behind(held[q], 1, 0)]
          /\ walk' = Behind(walk, 1, 0)
          /\ UNCHANGED failures
       \/ /\ Fails
          /\ held' = [held EXCEPT ![p] = None]
          /\ UNCHANGED <<stored, slips, unsaved, walk>>
    /\ UNCHANGED <<clock, process, claim, recorded, reports, connects, lateness, crashes>>

\* The TTL of the key ends.
Expire ==
    /\ value # None
    /\ Fails
    /\ value' = None
    /\ overtaken' = overtaken + UnreportedStored
    /\ UNCHANGED <<clock, process, origin, held, walk, claim, recorded, unsaved, reports,
                   repeated, connects, lateness, crashes>>
-----------------------------------------------------------------------------
(* The emitter: its walks are calls of retain, which write what has changed. *)

\* A walk reaches the entry and claims what it has not reported.
CollectGet ==
    /\ base_instant[Emitter] # None /\ walk = None
    /\ claim = None /\ value # None
    /\ LET c == Read(Emitter, clock)
       IN  /\ CanClaim(c, 1)
           /\ walk' = Copy(AfterClaim(c), AfterClaim(origin),
                           [taken |-> ClaimOf(c), origin |-> ClaimOf(origin)], 0, 0)
    /\ FixBase(Emitter)
    /\ UNCHANGED <<clock, base_instant, stored, held, claim, recorded, unsaved, reports, slips,
                   connects, crashes, failures>>

\* The claim is emitted even when it could not be stored, and then made again.
CollectSet ==
    /\ walk # None /\ claim = None
    /\ claim' = walk.claim
    /\ walk' = None
    /\ \/ /\ Write(Emitter, walk)
          /\ AllBehind(0, walk.claim.taken.count)
          /\ UNCHANGED failures
       \/ /\ Fails
          /\ repeated' = repeated + walk.claim.taken.count
          /\ UNCHANGED <<stored, held, overtaken>>
    /\ UNCHANGED <<clock, process, recorded, unsaved, reports, connects, lateness, crashes>>

Emit ==
    /\ claim # None /\ walk = None
    /\ delivered' = delivered + claim.taken.count
    /\ claim' = None
    /\ UNCHANGED <<clock, process, stored, held, walk, recorded, unsaved, lost, slips,
                   connects, lateness, crashes, failures>>

\* The emission failed, and a walk gives the claim back.  A cursor that others
\* have moved beyond the claim falls back with it.
RollbackGet ==
    /\ claim # None /\ walk = None /\ value # None
    /\ Fails
    /\ LET c == Read(Emitter, clock)
       IN  /\ c.reported_count >= claim.taken.total_count
           /\ walk' = Copy(AfterRollback(c, claim.taken), AfterRollback(origin, claim.origin),
                           claim, 0, c.reported_count - claim.taken.total_count)
    /\ FixBase(Emitter)
    /\ UNCHANGED <<clock, base_instant, stored, held, claim, recorded, unsaved, reports, slips,
                   connects, crashes>>

RollbackSet ==
    /\ walk # None /\ claim # None
    /\ claim' = None
    /\ walk' = None
    /\ \/ /\ Write(Emitter, walk)
          /\ AllBehind(claim.taken.count, 0)
          /\ UNCHANGED failures
       \/ /\ Fails
          /\ overtaken' = overtaken + claim.taken.count
          /\ UNCHANGED <<stored, held, repeated>>
    /\ UNCHANGED <<clock, process, recorded, unsaved, reports, connects, lateness, crashes>>

\* The emission failed, and the walk passes the entry by, cannot read it, or
\* finds its cursor below the claim.
RollbackMisses ==
    /\ claim # None /\ walk = None
    /\ Fails
    /\ claim' = None
    /\ overtaken' = overtaken + claim.taken.count
    /\ UNCHANGED <<clock, process, stored, held, walk, recorded, unsaved, reports, repeated,
                   connects, lateness, crashes>>
-----------------------------------------------------------------------------
EmitterStep == CollectGet \/ CollectSet \/ Emit \/ RollbackGet \/ RollbackSet \/ RollbackMisses

Next ==
    \/ Tick
    \/ \E p \in Processes :
          Connect(p) \/ Crash(p) \/ RecordSuppression(p) \/ StoreSuppression(p)
    \/ Expire
    \/ EmitterStep

Spec == Init /\ [][Next]_vars
-----------------------------------------------------------------------------
(* Properties. *)

\* Suppressions in the claim that is out.
ClaimedCount == IF claim = None THEN 0 ELSE claim.taken.count

\* Suppressions whose claims were stored, or lost with their process.
Settled == delivered + lost + ClaimedCount

\* Through restarts, older formats and overlapping updates no suppression
\* vanishes but those that no SETEX stored, that a stale copy overwrote, that
\* expired, or that a failed rollback did not give back; and none is to be
\* reported twice but those whose claim was not stored or overwritten.
CountsSurvive ==
    LET accounted == Settled + UnreportedStored
    IN  /\ recorded <= accounted + unsaved + overtaken
        /\ accounted <= recorded + repeated

\* The instant that the emitter shows for a stored one differs from the
\* true one by no more than the processes' base_instants do; a process whose
\* BASE is fixed late can make it later by that much more.
StampDriftBounded ==
    claim # None =>
        LET spread == latest - earliest
            Close(nanos, true) ==
                true = None \/ NanosToInstant(Emitter, nanos) - true \in -spread .. spread + lateness
        IN  /\ Close(claim.taken.first_suppressed, claim.origin.first_suppressed)
            /\ Close(claim.taken.last_suppressed, claim.origin.last_suppressed)
-----------------------------------------------------------------------------
(* The inductive invariant behind the safety properties. *)

TypeOK ==
    /\ clock \in Nat
    /\ base_instant \in [Processes -> Nat \cup {None}]
    /\ counter_base \in [Processes -> Nat \cup {None}]
    /\ value \in Formats \cup {None}
    /\ held \in [Processes -> Copies \cup {None}]
    /\ walk \in Copies \cup {None}
    /\ claim \in Claims \cup {None}
    /\ origin \in Counter(Nat \cup {None})
    /\ recorded \in Nat /\ unsaved \in Int
    /\ delivered \in Nat /\ lost \in Nat
    /\ overtaken \in Nat /\ repeated \in Nat
    /\ earliest \in Nat \cup {None} /\ latest \in Nat \cup {None}
    /\ lateness \in Nat

\* The base instants of a process lie between the extremes the history keeps,
\* and BASE is fixed at or after base_instant.
BasesInv ==
    /\ earliest # None => latest # None /\ earliest <= latest /\ latest <= clock
    /\ \A p \in Processes :
          /\ base_instant[p] # None =>
                earliest # None /\ earliest <= base_instant[p] /\ base_instant[p] <= latest
          /\ counter_base[p] # None =>
                /\ base_instant[p] # None
                /\ base_instant[p] <= counter_base[p]
                /\ counter_base[p] <= clock
                /\ counter_base[p] - base_instant[p] <= lateness

\* A process that has a copy or a claim in its hands has fixed its BASE.
HandsInv ==
    /\ \A p \in Processes : held[p] # None => counter_base[p] # None
    /\ walk # None => counter_base[Emitter] # None
    /\ claim # None => counter_base[Emitter] # None

\* No more is reported than suppressed, and the history counts alike.
Sound(c, true) ==
    /\ c.reported_count <= c.suppressed_count
    /\ true.suppressed_count = c.suppressed_count
    /\ true.reported_count = c.reported_count

SoundClaim(k) ==
    \A c \in {k.taken, k.origin} :
       /\ c.previous_reported_count = k.taken.previous_reported_count
       /\ c.total_count = k.taken.total_count
       /\ c.previous_reported_count < c.total_count
       /\ c.count = c.total_count - c.previous_reported_count

SoundInv ==
    /\ value # None =>
          /\ ReportedOf(value) <= value.suppressed_count
          /\ origin.suppressed_count = value.suppressed_count
          /\ origin.reported_count = ReportedOf(value)
    /\ \A p \in Processes : held[p] # None => Sound(held[p].state, held[p].origin)
    /\ claim # None => SoundClaim(claim)
    /\ walk # None =>
          /\ Sound(walk.state, walk.origin)
          /\ walk.claim # None
          /\ SoundClaim(walk.claim)
          /\ claim # None => walk.claim = claim

\* What the counts would be if the copy c were stored: settled suppressions
\* and those the copy has unreported, with un more that no SETEX has stored.
Covers(c, settled, un) ==
    LET accounted == settled + (c.state.suppressed_count - c.state.reported_count)
    IN  /\ recorded <= accounted + un + overtaken + c.missed
        /\ accounted <= recorded + repeated + c.unclaimed

CountsInv ==
    /\ CountsSurvive
    /\ \A p \in Processes : held[p] # None => Covers(held[p], Settled, unsaved - 1)
    /\ walk # None =>
          Covers(walk, IF claim = None THEN Settled + walk.claim.taken.count
                                       ELSE Settled - claim.taken.count, unsaved)

\* The offset f may stand for the instant true, given the base instants there were.
Within(f, true) ==
    true = None \/ /\ earliest # None /\ earliest <= true
                   /\ true - latest <= f /\ f <= true - earliest + lateness

\* The same of a stamp as the counters of p keep it.
Offset(p, nanos) == counter_base[p] + nanos - base_instant[p]

CopyWithin(p, c) ==
    /\ Within(Offset(p, c.state.last_suppressed), c.origin.last_suppressed)
    /\ Within(Offset(p, c.state.first_unreported), c.origin.first_unreported)

ClaimWithin(k) ==
    /\ Within(Offset(Emitter, k.taken.first_suppressed), k.origin.first_suppressed)
    /\ Within(Offset(Emitter, k.taken.last_suppressed), k.origin.last_suppressed)

DriftInv ==
    /\ value # None /\ value.format # "current" =>
          origin.last_suppressed = None /\ origin.first_unreported = None
    /\ value # None /\ value.format = "current" =>
          /\ Within(value.last_suppressed, origin.last_suppressed)
          /\ Within(value.first_unreported, origin.first_unreported)
    /\ \A p \in Processes : held[p] # None => CopyWithin(p, held[p])
    /\ walk # None => CopyWithin(Emitter, walk) /\ ClaimWithin(walk.claim)
    /\ claim # None => ClaimWithin(claim)

IInv == TypeOK /\ BasesInv /\ HandsInv /\ SoundInv /\ CountsInv /\ DriftInv
=============================================================================
