--------------------------- MODULE ShardedStorage ---------------------------
(***************************************************************************)
(* The in-memory storage of src/infrastructure/storage.rs with the four    *)
(* eviction policies of src/infrastructure/eviction/.                      *)
(*                                                                         *)
(* with_entry_mut takes no lock across its parts: whether the key is new,  *)
(* whether the storage is full, which entry to evict, its removal, the     *)
(* memory counter, the metric and the insertion are separate steps, and    *)
(* steps of different threads interleave.  The iteration that samples the  *)
(* candidates is one step here (DashMap locks one shard at a time).  The   *)
(* addition to the memory counter happens under the lock of the shard that *)
(* is inserted into, so it is one step with the insertion; the readers of  *)
(* the counter read the number of entries in a step before.                *)
(* A local variable that is dead is None or FALSE.                         *)
(***************************************************************************)
EXTENDS Integers, FiniteSets, EvictionPolicy

CONSTANTS
    Threads,     \* threads that log events
    Keys,        \* event signatures
    None,        \* the Option value None
    Policies,    \* the eviction policies that may be installed
    EntrySize,   \* estimate_entry_size, the same for every entry
    UsizeRange,  \* the values of usize are 0 .. UsizeRange - 1
    Priority,    \* key -> what priority_fn returns for its entry
    SampleSize,  \* SAMPLE_SIZE
    MaxOps,      \* bound: calls of with_entry_mut
    MaxCleanups  \* bound: calls of clear and retain

ASSUME ThreadsAssumption == IsFiniteSet(Threads)
ASSUME PolicyAssumption == Policies \subseteq EvictionPolicy
ASSUME KeysAssumption == None \notin Keys /\ IsFiniteSet(Keys)
ASSUME SizeAssumption == EntrySize \in Nat /\ UsizeRange \in Nat \ {0}
ASSUME PriorityAssumption == Priority \in [Keys -> Nat]
ASSUME SampleAssumption == SampleSize \in Nat \ {0}
ASSUME StorageBounds == MaxOps \in Nat /\ MaxCleanups \in Nat

VARIABLES
    eviction_policy,  \* set when the storage is made
    entries,      \* the keys in the map
    last_access,  \* key -> last_access of its entry; 0 when it has none
    memory,       \* current_memory_bytes
    clock,        \* the monotonic clock (external), read by every access
    pc,           \* thread -> its next step
    key,          \* thread -> the key it was called with
    is_new,       \* thread -> is_new_entry
    full,         \* thread -> did it see max_entries or more entries?
    victim,       \* thread -> the key the policy selected
    stamp,        \* thread -> its reading of the clock
    evicted,      \* the evictions metric
    ops,          \* history: calls of with_entry_mut
    inserted,     \* history: insertions
    cleaned,      \* history: entries removed by clear and retain
    cleanups,     \* history: calls of clear and retain
    needless,     \* history: evictions from a map below its entry limit
    overlaps,     \* history: calls of with_entry_mut begun during another
    crossed       \* history: calls of clear and retain during another call

map == <<entries, last_access>>
local == <<key, is_new, full, victim, stamp>>
history == <<ops, inserted, cleaned, cleanups, needless, overlaps, crossed>>
vars == <<eviction_policy, map, memory, clock, pc, local, evicted, history>>

Step == {"idle", "contains", "len", "memory", "sample", "remove", "sub", "metric", "now", "access"}

TypeOK ==
    /\ eviction_policy \in Policies
    /\ entries \in SUBSET Keys
    /\ last_access \in [Keys -> Nat]
    /\ memory \in 0 .. UsizeRange - 1
    /\ clock \in Nat
    /\ pc \in [Threads -> Step]
    /\ key \in [Threads -> Keys \cup {None}]
    /\ is_new \in [Threads -> BOOLEAN]
    /\ full \in [Threads -> BOOLEAN]
    /\ victim \in [Threads -> Keys \cup {None}]
    /\ stamp \in [Threads -> Nat]
    /\ evicted \in Nat
    /\ ops \in Nat
    /\ inserted \in Nat
    /\ cleaned \in Nat
    /\ cleanups \in Nat
    /\ needless \in Nat
    /\ overlaps \in Nat
    /\ crossed \in Nat

Init ==
    /\ eviction_policy \in Policies
    /\ entries = {}
    /\ last_access = [k \in Keys |-> 0]
    /\ memory = 0
    /\ clock = 0
    /\ pc = [t \in Threads |-> "idle"]
    /\ key = [t \in Threads |-> None]
    /\ is_new = [t \in Threads |-> FALSE]
    /\ full = [t \in Threads |-> FALSE]
    /\ victim = [t \in Threads |-> None]
    /\ stamp = [t \in Threads |-> 0]
    /\ evicted = 0
    /\ ops = 0
    /\ inserted = 0
    /\ cleaned = 0
    /\ cleanups = 0
    /\ needless = 0
    /\ overlaps = 0
    /\ crossed = 0

Quiescent == \A t \in Threads : pc[t] = "idle"

Goto(t, step) == pc' = [pc EXCEPT ![t] = step]

-----------------------------------------------------------------------------
(* The choice of a victim. *)

RankOf(k) == Rank(eviction_policy, last_access[k], Priority[k])

\* The keys select_victim may return.  The sample is any SAMPLE_SIZE entries
\* (all of them when there are fewer), and a key is a minimum of some sample
\* exactly when that many entries, itself included, do not rank below it.
Victims ==
    {k \in entries :
        LET above == {j \in entries : RankOf(k) <= RankOf(j)}
        IN  above = entries \/ Cardinality(above) >= SampleSize}

-----------------------------------------------------------------------------
(* with_entry_mut *)

Call(t, k) ==
    /\ pc[t] = "idle"
    /\ ops < MaxOps
    /\ ops' = ops + 1
    /\ overlaps' = IF Quiescent THEN overlaps ELSE overlaps + 1
    /\ key' = [key EXCEPT ![t] = k]
    /\ Goto(t, "contains")
    /\ UNCHANGED <<map, memory, clock, is_new, full, victim, stamp, evicted, inserted, cleaned, cleanups, needless, crossed>>

ContainsKey(t) ==
    /\ pc[t] = "contains"
    /\ is_new' = [is_new EXCEPT ![t] = key[t] \notin entries]
    /\ Goto(t, IF key[t] \notin entries /\ eviction_policy.kind # "none" THEN "len" ELSE "now")
    /\ UNCHANGED <<map, memory, clock, key, full, victim, stamp, evicted, history>>

\* Mutant: the limit has to be exceeded.
ReadLenAbove(t) ==
    /\ pc[t] = "len"
    /\ full' = [full EXCEPT ![t] = Cardinality(entries) > eviction_policy.max_entries]
    /\ Goto(t, "memory")
    /\ UNCHANGED <<map, memory, clock, key, is_new, victim, stamp, evicted, history>>

\* Mutant: room is made for the entry to come before the map is full.
ReadLenEarly(t) ==
    /\ pc[t] = "len"
    /\ full' = [full EXCEPT ![t] = TooManyEntries(eviction_policy, Cardinality(entries) + 1)]
    /\ Goto(t, "memory")
    /\ UNCHANGED <<map, memory, clock, key, is_new, victim, stamp, evicted, history>>

ReadLen(t) ==
    /\ pc[t] = "len"
    /\ full' = [full EXCEPT ![t] = TooManyEntries(eviction_policy, Cardinality(entries))]
    /\ Goto(t, "memory")
    /\ UNCHANGED <<map, memory, clock, key, is_new, victim, stamp, evicted, history>>

ReadMemory(t) ==
    /\ pc[t] = "memory"
    /\ full' = [full EXCEPT ![t] = FALSE]
    /\ Goto(t, IF full[t] \/ TooMuchMemory(eviction_policy, memory) THEN "sample" ELSE "now")
    /\ UNCHANGED <<map, memory, clock, key, is_new, victim, stamp, evicted, history>>

\* evict_one, up to select_victim; nothing is selected from an empty sample.
SelectVictim(t) ==
    /\ pc[t] = "sample"
    /\ \/ /\ Victims = {}
          /\ Goto(t, "now")
          /\ UNCHANGED victim
       \/ \E k \in Victims :
             /\ victim' = [victim EXCEPT ![t] = k]
             /\ Goto(t, "remove")
    /\ UNCHANGED <<map, memory, clock, key, is_new, full, stamp, evicted, history>>

\* 1 if an eviction now leaves the map further below its limit.
BelowLimit ==
    IF LimitsEntries(eviction_policy) /\ Cardinality(entries) < eviction_policy.max_entries THEN 1 ELSE 0

\* Mutant: an eviction is counted even when another thread made it.
RemoveVictimAlwaysCounts(t) ==
    /\ pc[t] = "remove"
    /\ entries' = entries \ {victim[t]}
    /\ last_access' = [last_access EXCEPT ![victim[t]] = 0]
    /\ needless' = needless + BelowLimit
    /\ Goto(t, IF TracksMemory(eviction_policy) THEN "sub" ELSE "metric")
    /\ victim' = [victim EXCEPT ![t] = None]
    /\ UNCHANGED <<memory, clock, key, is_new, full, stamp, evicted, ops, inserted, cleaned, cleanups, overlaps, crossed>>

\* Another thread may have removed the victim meanwhile.
RemoveVictim(t) ==
    /\ pc[t] = "remove"
    /\ \/ /\ victim[t] \in entries
          /\ entries' = entries \ {victim[t]}
          /\ last_access' = [last_access EXCEPT ![victim[t]] = 0]
          /\ needless' = needless + BelowLimit
          /\ Goto(t, IF TracksMemory(eviction_policy) THEN "sub" ELSE "metric")
       \/ /\ victim[t] \notin entries
          /\ Goto(t, "now")
          /\ UNCHANGED <<map, needless>>
    /\ victim' = [victim EXCEPT ![t] = None]
    /\ UNCHANGED <<memory, clock, key, is_new, full, stamp, evicted, ops, inserted, cleaned, cleanups, overlaps, crossed>>

\* fetch_sub wraps around.
SubMemory(t) ==
    /\ pc[t] = "sub"
    /\ memory' = (memory - EntrySize) % UsizeRange
    /\ Goto(t, "metric")
    /\ UNCHANGED <<map, clock, local, evicted, history>>

RecordEviction(t) ==
    /\ pc[t] = "metric"
    /\ evicted' = evicted + 1
    /\ Goto(t, "now")
    /\ UNCHANGED <<map, memory, clock, local, history>>

\* Instant::now(): two readings may be equal.
ReadNow(t) ==
    /\ pc[t] = "now"
    /\ \E d \in {0, 1} : clock' = clock + d
    /\ stamp' = [stamp EXCEPT ![t] = clock']
    /\ Goto(t, "access")
    /\ UNCHANGED <<map, memory, key, is_new, full, victim, evicted, history>>

\* Mutant: memory is added for entries that exist, too.
AccessAlwaysAdds(t) ==
    /\ pc[t] = "access"
    /\ entries' = entries \cup {key[t]}
    /\ inserted' = IF key[t] \notin entries THEN inserted + 1 ELSE inserted
    /\ memory' = IF TracksMemory(eviction_policy) THEN (memory + EntrySize) % UsizeRange ELSE memory
    /\ last_access' = [last_access EXCEPT ![key[t]] = stamp[t]]
    /\ key' = [key EXCEPT ![t] = None]
    /\ is_new' = [is_new EXCEPT ![t] = FALSE]
    /\ stamp' = [stamp EXCEPT ![t] = 0]
    /\ Goto(t, "idle")
    /\ UNCHANGED <<clock, full, victim, evicted, ops, cleaned, cleanups, needless, overlaps, crossed>>

\* Insert unless the key is there now; memory is added only for an entry that
\* was also new at the start of the call.  Both cases update last_access.
Access(t) ==
    /\ pc[t] = "access"
    /\ entries' = entries \cup {key[t]}
    /\ inserted' = IF key[t] \notin entries THEN inserted + 1 ELSE inserted
    /\ memory' = IF key[t] \notin entries /\ is_new[t] /\ TracksMemory(eviction_policy)
                    THEN (memory + EntrySize) % UsizeRange ELSE memory
    /\ last_access' = [last_access EXCEPT ![key[t]] = stamp[t]]
    /\ key' = [key EXCEPT ![t] = None]
    /\ is_new' = [is_new EXCEPT ![t] = FALSE]
    /\ stamp' = [stamp EXCEPT ![t] = 0]
    /\ Goto(t, "idle")
    /\ UNCHANGED <<clock, full, victim, evicted, ops, cleaned, cleanups, needless, overlaps, crossed>>

\* clear (which removes everything) and retain (which removes what its
\* predicate rejects): neither touches the memory counter.
Cleanup(t) ==
    /\ pc[t] = "idle"
    /\ cleanups < MaxCleanups
    /\ \E rejected \in SUBSET entries :
          /\ entries' = entries \ rejected
          /\ last_access' = [k \in Keys |-> IF k \in rejected THEN 0 ELSE last_access[k]]
          /\ cleaned' = cleaned + Cardinality(rejected)
    /\ cleanups' = cleanups + 1
    /\ crossed' = IF Quiescent THEN crossed ELSE crossed + 1
    /\ UNCHANGED <<memory, clock, pc, local, evicted, ops, inserted, needless, overlaps>>

-----------------------------------------------------------------------------
Next ==
    /\ \E t \in Threads :
          \/ \E k \in Keys : Call(t, k)
          \/ ContainsKey(t) \/ ReadLen(t) \/ ReadMemory(t)
          \/ SelectVictim(t) \/ RemoveVictim(t) \/ SubMemory(t) \/ RecordEviction(t)
          \/ ReadNow(t) \/ Access(t)
          \/ Cleanup(t)
    /\ UNCHANGED eviction_policy

Spec == Init /\ [][Next]_vars

-----------------------------------------------------------------------------
(* Properties. *)

\* Threads that have removed an entry and not yet counted it.
Uncounted == {t \in Threads : pc[t] \in {"sub", "metric"}}

\* The evictions metric is exact: every entry ever inserted is in the map,
\* was removed by clear or retain, or was evicted and counted once, even when
\* two threads select the same victim.
EvictionsCounted ==
    inserted = Cardinality(entries) + cleaned + evicted + Cardinality(Uncounted)

\* One entry is kept when the limit is zero: the entry for the event at hand
\* is always created.
Limit ==
    IF eviction_policy.max_entries = 0 THEN 1 ELSE eviction_policy.max_entries

\* The storage exceeds its entry limit by at most one entry for each call that
\* began during another, in all its life: threads that select the same victim
\* insert one entry each, and no other course of events adds to the excess.
\* Without overlapping calls the limit is kept ("prevents unbounded memory
\* growth").
GrowthBounded ==
    LimitsEntries(eviction_policy) => Cardinality(entries) <= Limit + overlaps

\* Between calls the memory counter is the estimated size of the entries and
\* of those that clear and retain removed without updating it, but for one
\* entry at most for each call that overlapped another: an entry removed
\* after contains_key saw it is inserted again and not added.  Without
\* overlaps the counter is exact; with them it may wrap around.
MemoryAccounted ==
    TracksMemory(eviction_policy) /\ Quiescent =>
        \E missed \in 0 .. overlaps + crossed :
            memory = (EntrySize * (Cardinality(entries) + cleaned - missed)) % UsizeRange

\* The storage gives up no more entries than it has to: an eviction from a map
\* that is below its entry limit takes a call or a cleanup of its own that came
\* while another call was between its look at the size and its removal (two
\* threads with the same new signature both evict, and one of them inserts).
EvictionsNeeded ==
    LimitsEntries(eviction_policy) /\ ~TracksMemory(eviction_policy)
        => needless <= overlaps + crossed

-----------------------------------------------------------------------------
(* The inductive invariants. *)

\* A call in progress has a key.
CallsHaveKeys == \A t \in Threads : pc[t] # "idle" => key[t] \in Keys

StorageInv == TypeOK /\ CallsHaveKeys

CountInv == StorageInv /\ EvictionsCounted

Busy == {t \in Threads : pc[t] # "idle"}

\* What the bound on the growth leaves.
Slack == Limit + overlaps - Cardinality(entries)

\* Calls that no longer evict an entry before they may insert their own.
Committed(t) ==
    \/ pc[t] \in {"sub", "metric", "now", "access"} /\ key[t] \notin entries
    \/ pc[t] = "remove" /\ victim[t] \notin entries
    \/ pc[t] = "memory" /\ ~full[t]

\* Every call under way but one has a place in the slack, and so does the
\* last one once some call is committed.
SlackInv ==
    /\ Slack >= 0
    /\ Slack >= Cardinality(Busy) - 1
    /\ Cardinality(Busy) <= overlaps + 1
    /\ (\E t \in Threads : Committed(t)) => Slack >= Cardinality(Busy)

GrowthInv == StorageInv /\ (LimitsEntries(eviction_policy) => SlackInv)

\* Threads that have removed an entry and not yet subtracted its size.
Unsubtracted == {t \in Threads : pc[t] = "sub"}

\* Calls under way that would not add the size of an entry they insert.
Silent == {t \in Threads : pc[t] # "idle" /\ ~is_new[t]}

\* A call that saw an entry which has been removed since.
Misses(t) == pc[t] \in {"now", "access"} /\ ~is_new[t] /\ key[t] \notin entries

\* The counter is off by the entries missed.  Every call under way but one
\* has an overlap of its own to be missed on, and so does the last one of
\* them that is silent once some call misses.
Accounted(missed) ==
    /\ memory = (EntrySize * (Cardinality(entries) + cleaned + Cardinality(Unsubtracted) - missed)) % UsizeRange
    /\ missed + Cardinality(Busy) <= overlaps + crossed + 1
    /\ (\E t \in Threads : Misses(t)) => missed + Cardinality(Silent) <= overlaps + crossed

\* A call that evicts is for a new entry: it is never one that misses.
EvictorsAreNew ==
    \A t \in Threads :
        /\ pc[t] \in {"len", "memory", "sample", "remove", "sub", "metric"} => is_new[t]
        /\ pc[t] \in {"idle", "contains"} => ~is_new[t]

\* The inductive invariant behind MemoryAccounted.
MemoryInv ==
    /\ StorageInv
    /\ EvictorsAreNew
    /\ TracksMemory(eviction_policy) => \E missed \in 0 .. overlaps + crossed : Accounted(missed)

\* Calls that may still evict, and those of them that saw a full map.
Deciding == {t \in Threads : pc[t] \in {"contains", "len", "memory", "sample", "remove"}}

SawFull(t) == (pc[t] = "memory" /\ full[t]) \/ pc[t] \in {"sample", "remove"}

\* Every call but one that may still evict has an overlap of its own to do so
\* needlessly, and so does the last one once the map it saw full is not.
NeedlessInv ==
    /\ needless <= overlaps + crossed
    /\ needless + Cardinality(Deciding) <= overlaps + crossed + 1
    /\ (\E t \in Threads : SawFull(t)) /\ Cardinality(entries) < eviction_policy.max_entries =>
          needless + Cardinality(Deciding) <= overlaps + crossed

\* The inductive invariant behind EvictionsNeeded.
NeededInv ==
    /\ StorageInv
    /\ LimitsEntries(eviction_policy) /\ ~TracksMemory(eviction_policy) => NeedlessInv
=============================================================================
