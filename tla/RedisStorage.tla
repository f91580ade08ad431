---------------------------- MODULE RedisStorage ----------------------------
(***************************************************************************)
(* The shared storage of src/infrastructure/redis_storage.rs: threads of   *)
(* several processes that keep the state of a signature in Redis.          *)
(*                                                                         *)
(* Every Redis command is a step, and may fail.  A process has one         *)
(* connection behind a lock that is not reentrant: with_entry_mut takes it *)
(* for the GET and again for the SETEX, clear and retain keep it for the   *)
(* whole walk.  A SCAN returns the keys of one batch; all keys fit.        *)
(*                                                                         *)
(* An entry is its policy and its two counts; its time stamps are left     *)
(* out.  The clock stands still, so a bucket does not refill and a window  *)
(* does not move: what is checked is one burst.  The warning that follows  *)
(* a failed write is an event of its own, which the layer that is being    *)
(* served checks before the write returns.                                 *)
(***************************************************************************)
EXTENDS RatePolicy

CONSTANTS
    Threads,        \* threads that log events
    Process,        \* thread -> the process it belongs to
    Hashes,         \* the hashes of the event signatures
    WarnHash,       \* the hash of the warning about a failed write
    None,           \* no thread, no entry, no hash
    DefaultPolicies,\* the policies of a new entry to consider
    MaxCalls,       \* bound: calls of with_entry_mut
    MaxWalks,       \* bound: calls of clear and retain
    MaxErrors,      \* bound: commands that fail
    MaxExpiries     \* bound: entries that expire

ASSUME ProcessAssumption == DOMAIN Process = Threads
ASSUME HashAssumption == Hashes \subseteq 0 .. 255 /\ WarnHash \in Hashes
ASSUME NoneAssumption == None \notin Threads \cup Hashes
\* A policy is as its constructor returns it.
ASSUME RedisPolicyAssumption ==
    \A p \in DefaultPolicies : p \in Policy /\ ConstructorError(p) = "" /\ Reset(p) = p
ASSUME RedisBounds ==
    /\ MaxCalls \in Nat /\ MaxWalks \in Nat
    /\ MaxErrors \in Nat /\ MaxExpiries \in Nat

VARIABLES
    default_policy,  \* the policy of a new entry, fixed by the build of the layer
    store,     \* hash -> the value of its key in Redis, or None
    lock,      \* process -> the thread that holds its connection, or None
    pc,        \* thread -> its next step
    hash,      \* thread -> the signature of the call in progress
    key,       \* thread -> the key a walk is at, by the hash it was made from
    local,     \* thread -> the state it has read, or None
    todo,      \* thread -> keys the walk in progress has yet to visit
    granted,   \* history: signature -> events allowed
    denied,    \* history: signature -> events suppressed
    calls, walks, errors, removals  \* history: what has happened so far

connection == <<store, lock>>
frame == <<hash, key, local, todo>>
decisions == <<granted, denied>>
bounds == <<calls, walks, errors, removals>>
vars == <<default_policy, connection, pc, frame, decisions, bounds>>

-----------------------------------------------------------------------------
(* Keys and values. *)

\* The key of a signature is its hash in hexadecimal, of all digits (here two);
\* the walks parse that text as a decimal number.
ParsedHash(h) ==
    LET high == h \div 16
        low == h % 16
    IN  IF high < 10 /\ low < 10 THEN 10 * high + low ELSE None

\* An entry, in memory and in Redis.
Entry == [policy : Policy, suppressed_count : Nat, reported_count : Nat]

ASSUME EntryAssumption == None \notin Entry

NewState == [policy |-> default_policy, suppressed_count |-> 0, reported_count |-> 0]

\* Timestamps are stored as offsets from the first of them.
SerializedTimeWindow(p) ==
    [p EXCEPT !.event_timestamps = [i \in DOMAIN @ |-> Elapsed(@[i], @[1])]]

\* The instant of the last refill is not serialized.
SerializedTokenBucket(p) == [p EXCEPT !.last_refill = NoInstant]

SerializedPolicy(p) ==
    CASE p.kind = "time_window"  -> SerializedTimeWindow(p)
      [] p.kind = "token_bucket" -> SerializedTokenBucket(p)
      [] OTHER                   -> p

\* Mutant: the two counts change places.
SerializedSwapped(state) ==
    [state EXCEPT !.suppressed_count = state.reported_count, !.reported_count = state.suppressed_count]

Serialized(state) == [state EXCEPT !.policy = SerializedPolicy(@)]

\* The forms in which the visitor of a policy accepts its struct.
TimeWindowVisitor == {"map"}
TokenBucketVisitor == {"map"}
DerivedVisitor == {"map", "seq"}

Visitor(kind) ==
    CASE kind = "time_window"  -> TimeWindowVisitor
      [] kind = "token_bucket" -> TokenBucketVisitor
      [] OTHER                 -> DerivedVisitor

\* bincode hands a struct to its visitor as a sequence.
Readable(value) == "seq" \in Visitor(value.policy.kind)

\* to_event_state: no more is reported than was suppressed.
Restored(value) ==
    IF value.reported_count > value.suppressed_count
        THEN [value EXCEPT !.reported_count = value.suppressed_count] ELSE value

TypeOK ==
    /\ default_policy \in DefaultPolicies
    /\ store \in [Hashes -> Entry \cup {None}]
    /\ \A h \in Hashes : store[h] # None =>
          /\ Reset(store[h].policy) = default_policy
          /\ store[h].reported_count <= store[h].suppressed_count
    /\ lock \in [{Process[t] : t \in Threads} -> Threads \cup {None}]
    /\ \A p \in DOMAIN lock : lock[p] = None \/ Process[lock[p]] = p
    /\ pc \in [Threads -> {"idle", "get", "del", "access", "set", "warn",
                           "clear", "walk", "walk_del", "walk_set", "walk_warn"}]
    /\ hash \in [Threads -> Hashes \cup {None}]
    /\ key \in [Threads -> Hashes \cup {None}]
    /\ local \in [Threads -> Entry \cup {None}]
    /\ todo \in [Threads -> SUBSET Hashes]
    /\ granted \in [Hashes -> Nat]
    /\ denied \in [Hashes -> Nat]

Init ==
    /\ default_policy \in DefaultPolicies
    /\ store = [h \in Hashes |-> None]
    /\ lock = [p \in {Process[t] : t \in Threads} |-> None]
    /\ pc = [t \in Threads |-> "idle"]
    /\ hash = [t \in Threads |-> None]
    /\ key = [t \in Threads |-> None]
    /\ local = [t \in Threads |-> None]
    /\ todo = [t \in Threads |-> {}]
    /\ granted = [h \in Hashes |-> 0]
    /\ denied = [h \in Hashes |-> 0]
    /\ calls = 0
    /\ walks = 0
    /\ errors = 0
    /\ removals = 0

Goto(t, step) == pc' = [pc EXCEPT ![t] = step]

Free(t) == lock[Process[t]] = None
Acquire(t) == lock' = [lock EXCEPT ![Process[t]] = t]
Release(t) == lock' = [lock EXCEPT ![Process[t]] = None]

\* A command fails.
Fails ==
    /\ errors < MaxErrors
    /\ errors' = errors + 1
    /\ UNCHANGED <<calls, walks, removals>>

Succeeds == UNCHANGED bounds

\* The entry of h is removed.
Delete(h) ==
    /\ store' = [store EXCEPT ![h] = None]
    /\ removals' = removals + 1
    /\ UNCHANGED <<calls, walks, errors>>
-----------------------------------------------------------------------------
(* with_entry_mut *)

Call(t, h) ==
    /\ pc[t] = "idle"
    /\ calls < MaxCalls
    /\ calls' = calls + 1
    /\ hash' = [hash EXCEPT ![t] = h]
    /\ Goto(t, "get")
    /\ UNCHANGED <<connection, key, local, todo, decisions, default_policy, walks, errors, removals>>

\* get: a missing value, like a failed command, leads to the factory; a value
\* that none of the formats accepts is to be deleted under the same lock.
Get(t) ==
    LET value == store[hash[t]]
    IN  /\ pc[t] = "get"
        /\ Free(t)
        /\ \/ /\ Fails \/ (value = None /\ Succeeds)
              /\ local' = [local EXCEPT ![t] = NewState]
              /\ Goto(t, "access")
              /\ UNCHANGED lock
           \/ /\ value # None /\ Readable(value) /\ Succeeds
              /\ local' = [local EXCEPT ![t] = Restored(value)]
              /\ Goto(t, "access")
              /\ UNCHANGED lock
           \/ /\ value # None /\ ~Readable(value) /\ Succeeds
              /\ Acquire(t)
              /\ Goto(t, "del")
              /\ UNCHANGED local
        /\ UNCHANGED <<store, hash, key, todo, decisions, default_policy>>

\* Mutant: the connection is not given back.
DeleteCorruptedKeepsLock(t) ==
    /\ pc[t] = "del"
    /\ \/ Succeeds /\ store' = [store EXCEPT ![hash[t]] = None]
       \/ Fails /\ UNCHANGED store
    /\ local' = [local EXCEPT ![t] = NewState]
    /\ Goto(t, "access")
    /\ UNCHANGED <<lock, hash, key, todo, decisions, default_policy>>

\* "Corrupted data, delete it".
DeleteCorrupted(t) ==
    /\ pc[t] = "del"
    /\ \/ Succeeds /\ store' = [store EXCEPT ![hash[t]] = None]
       \/ Fails /\ UNCHANGED store
    /\ Release(t)
    /\ local' = [local EXCEPT ![t] = NewState]
    /\ Goto(t, "access")
    /\ UNCHANGED <<hash, key, todo, decisions, default_policy>>

\* Mutant: a suppression is recorded for every event.
AccessAlwaysRecords(t) ==
    LET h == hash[t]
        result == RegisterEvent(local[t].policy, 0)
    IN  /\ pc[t] = "access"
        /\ local' = [local EXCEPT ![t].policy = result.policy, ![t].suppressed_count = @ + 1]
        /\ granted' = [granted EXCEPT ![h] = IF result.allow THEN @ + 1 ELSE @]
        /\ denied' = [denied EXCEPT ![h] = IF result.allow THEN @ ELSE @ + 1]
        /\ Goto(t, "set")
        /\ UNCHANGED <<connection, hash, key, todo, default_policy, bounds>>

\* The accessor of check_event, on the thread's own copy.
Access(t) ==
    LET h == hash[t]
        result == RegisterEvent(local[t].policy, 0)
    IN  /\ pc[t] = "access"
        /\ local' = [local EXCEPT ![t].policy = result.policy,
                                  ![t].suppressed_count = IF result.allow THEN @ ELSE @ + 1]
        /\ granted' = [granted EXCEPT ![h] = IF result.allow THEN @ + 1 ELSE @]
        /\ denied' = [denied EXCEPT ![h] = IF result.allow THEN @ ELSE @ + 1]
        /\ Goto(t, "set")
        /\ UNCHANGED <<connection, hash, key, todo, default_policy, bounds>>

\* The call returns, and every call whose warning it was: they have nothing
\* left to do.
Done(t) ==
    /\ Goto(t, "idle")
    /\ hash' = [hash EXCEPT ![t] = None]
    /\ local' = [local EXCEPT ![t] = None]
    /\ UNCHANGED <<key, todo>>

\* set
Set(t) ==
    /\ pc[t] = "set"
    /\ Free(t)
    /\ \/ /\ store' = [store EXCEPT ![hash[t]] = Serialized(local[t])]
          /\ Succeeds
          /\ Done(t)
       \/ /\ Fails
          /\ Goto(t, "warn")
          /\ UNCHANGED <<store, frame>>
    /\ UNCHANGED <<lock, decisions, default_policy>>

\* The warning about the failed write is checked by the layer like any event,
\* within the call that warns; when its own write fails it warns in turn.
Warn(t) ==
    /\ pc[t] = "warn"
    /\ hash' = [hash EXCEPT ![t] = WarnHash]
    /\ local' = [local EXCEPT ![t] = None]
    /\ Goto(t, "get")
    /\ UNCHANGED <<connection, key, todo, decisions, default_policy, bounds>>
-----------------------------------------------------------------------------
(* clear and retain *)

Present == {h \in Hashes : store[h] # None}

\* The connection is taken and the keys are scanned; a failed SCAN returns none.
Scan(t, step) ==
    /\ pc[t] = "idle"
    /\ walks < MaxWalks
    /\ walks' = walks + 1
    /\ Free(t)
    /\ Acquire(t)
    /\ \/ todo' = [todo EXCEPT ![t] = Present] /\ UNCHANGED errors
       \/ /\ errors < MaxErrors
          /\ errors' = errors + 1
          /\ todo' = [todo EXCEPT ![t] = {}]
    /\ Goto(t, step)
    /\ UNCHANGED <<store, hash, key, local, decisions, default_policy, calls, removals>>

StartClear(t) == Scan(t, "clear")

\* The keys found are deleted, by one command; its failure is ignored.
ClearKeys(t) ==
    /\ pc[t] = "clear"
    /\ \/ /\ todo[t] = {}
          /\ Succeeds
          /\ UNCHANGED store
       \/ /\ todo[t] # {}
          /\ store' = [h \in Hashes |-> IF h \in todo[t] THEN None ELSE store[h]]
          /\ removals' = removals + 1
          /\ UNCHANGED <<calls, walks, errors>>
       \/ /\ todo[t] # {}
          /\ Fails
          /\ UNCHANGED store
    /\ todo' = [todo EXCEPT ![t] = {}]
    /\ Release(t)
    /\ Goto(t, "idle")
    /\ UNCHANGED <<hash, key, local, decisions, default_policy>>

StartRetain(t) == Scan(t, "walk")

\* One key of the walk is parsed and the value of what it parses to is read.
WalkGet(t) ==
    /\ pc[t] = "walk"
    /\ \E k \in todo[t] :
          LET h == ParsedHash(k)
              value == IF h \in Hashes THEN store[h] ELSE None
          IN  /\ todo' = [todo EXCEPT ![t] = @ \ {k}]
              /\ \/ /\ (value = None /\ Succeeds) \/ (value # None /\ Fails)
                    /\ UNCHANGED <<pc, hash, key, local>>
                 \/ /\ value # None
                    /\ Succeeds
                    /\ hash' = [hash EXCEPT ![t] = h]
                    /\ key' = [key EXCEPT ![t] = k]
                    /\ local' = [local EXCEPT ![t] = IF Readable(value) THEN Restored(value) ELSE None]
                    /\ Goto(t, IF Readable(value) THEN "walk_set" ELSE "walk_del")
    /\ UNCHANGED <<connection, decisions, default_policy>>

\* Back to the keys that are left.
Continue(t) ==
    /\ Goto(t, "walk")
    /\ hash' = [hash EXCEPT ![t] = None]
    /\ key' = [key EXCEPT ![t] = None]
    /\ local' = [local EXCEPT ![t] = None]
    /\ UNCHANGED todo

WalkDeleteCorrupted(t) ==
    /\ pc[t] = "walk_del"
    /\ \/ Succeeds /\ store' = [store EXCEPT ![hash[t]] = None]
       \/ Fails /\ UNCHANGED store
    /\ Continue(t)
    /\ UNCHANGED <<lock, decisions, default_policy>>

\* The predicate rejects the entry, keeps it, or keeps it and changes it (the
\* claim of an emitter).  The key scanned is deleted, but the key of the
\* parsed signature is written.
WalkSet(t) ==
    LET state == local[t]
        claimed == [state EXCEPT !.reported_count = state.suppressed_count]
    IN  /\ pc[t] = "walk_set"
        /\ \/ Delete(key[t]) /\ Continue(t)
           \/ Succeeds /\ Continue(t) /\ UNCHANGED store
           \/ /\ claimed # state
              /\ store' = [store EXCEPT ![hash[t]] = claimed]
              /\ Succeeds
              /\ Continue(t)
           \/ /\ Fails
              /\ Goto(t, "walk_warn")
              /\ UNCHANGED <<store, frame>>
        /\ UNCHANGED <<lock, decisions, default_policy>>

\* The warning is an event; its check begins with get, and the walk still has
\* the connection.
WalkWarn(t) ==
    /\ pc[t] = "walk_warn"
    /\ hash' = [hash EXCEPT ![t] = WarnHash]
    /\ local' = [local EXCEPT ![t] = None]
    /\ Goto(t, "get")
    /\ UNCHANGED <<connection, key, todo, decisions, default_policy, bounds>>

EndRetain(t) ==
    /\ pc[t] = "walk"
    /\ todo[t] = {}
    /\ Release(t)
    /\ Goto(t, "idle")
    /\ UNCHANGED <<store, frame, decisions, default_policy, bounds>>

\* The TTL of a key ends.
Expire(h) ==
    /\ store[h] # None
    /\ removals < MaxExpiries
    /\ Delete(h)
    /\ UNCHANGED <<lock, pc, frame, decisions, default_policy>>
-----------------------------------------------------------------------------
ThreadStep(t) ==
    \/ Get(t) \/ DeleteCorrupted(t) \/ Access(t) \/ Set(t) \/ Warn(t)
    \/ ClearKeys(t)
    \/ WalkGet(t) \/ WalkDeleteCorrupted(t) \/ WalkSet(t) \/ WalkWarn(t) \/ EndRetain(t)

Next ==
    \/ \E t \in Threads :
          \/ \E h \in Hashes : Call(t, h)
          \/ StartClear(t) \/ StartRetain(t)
          \/ ThreadStep(t)
    \/ \E h \in Hashes : Expire(h)

Spec == Init /\ [][Next]_vars

\* Fairness: every thread that is in a call goes on; the lock is a fair queue,
\* so a thread that waits for the connection gets it.
FairSpec == Spec /\ \A t \in Threads : SF_vars(ThreadStep(t))

-----------------------------------------------------------------------------
(* Properties. *)

\* Events a new policy p allows before it suppresses one, at one instant.
Burst(p) ==
    CASE p.kind = "count_based"         -> p.max_count
      [] p.kind = "time_window"         -> p.max_events
      [] p.kind = "exponential_backoff" -> 2
      [] p.kind = "token_bucket"        -> p.capacity \div TokenUnit

\* The limit is shared: all threads and processes together are allowed one
\* burst of a signature, and one more for every failed command and every
\* removed entry ("Both processes consume from the same token bucket!").
LimitKept ==
    default_policy.kind # "exponential_backoff" =>
        \A h \in Hashes : granted[h] <= Burst(default_policy) * (1 + errors + removals)

\* However updates are lost, overwritten or repeated, no event is suppressed
\* before the burst of its signature was allowed.
SuppressesOnlyOverLimit == \A h \in Hashes : denied[h] > 0 => granted[h] >= Burst(default_policy)

\* However copies overtake each other, an entry never counts a suppression of
\* its signature twice.
NeverOverCounts ==
    \A h \in Hashes : store[h] # None => store[h].suppressed_count <= denied[h]

\* A thread waits for a connection that it holds itself: retain keeps the
\* connection while the layer checks its warning.
SelfWait(t) == pc[t] = "get" /\ lock[Process[t]] = t

\* Every call returns once commands no longer fail (there are MaxErrors
\* failures, at whichever commands), whatever the other threads do, unless a
\* walk comes to wait for itself: the connection is never left locked in any
\* other way.  While writes go on failing no call returns: each warning is a
\* call of its own, whose write fails and warns again.
CallsReturn ==
    \A t \in Threads :
        pc[t] # "idle" ~> (pc[t] = "idle" \/ \E u \in Threads : SelfWait(u))

-----------------------------------------------------------------------------
(* The inductive invariant behind the first two of them. *)

\* A policy that has counted no more events than the n that were allowed, up
\* to the burst.
WithinGranted(p, n) ==
    /\ p.kind = "count_based" => p.current_count <= n \/ p.max_count <= n
    /\ p.kind = "exponential_backoff" =>
          \/ p.event_count = 0 /\ p.next_allowed = 1
          \/ p.event_count = 1 /\ p.next_allowed = 2 /\ n >= 1
          \/ n >= 2

\* A copy of an entry that may be old and may yet be written: of a policy
\* that started as p, for a signature with n events allowed and m suppressed.
IsCopy(value, p, n, m) ==
    /\ value \in Entry
    /\ Reset(value.policy) = p
    /\ value.reported_count <= value.suppressed_count
    /\ value.suppressed_count <= m
    /\ WithinGranted(value.policy, n)

CopyOf(value, h) == IsCopy(value, default_policy, granted[h], denied[h])

\* What a thread works on is a copy of the entry of its signature, and a new
\* one where the entry cannot have been read.
FrameOf(t) ==
    /\ pc[t] \in {"get", "del", "access", "set", "warn", "walk_del", "walk_set", "walk_warn"}
          => hash[t] \in Hashes
    /\ pc[t] = "walk_set" => key[t] \in Hashes
    /\ pc[t] \in {"access", "set", "walk_set"} => CopyOf(local[t], hash[t])
    /\ pc[t] = "access" => Readable(local[t]) \/ local[t].policy = default_policy
    /\ pc[t] = "walk_set" => Readable(local[t])

CopiesInv ==
    /\ TypeOK
    /\ SuppressesOnlyOverLimit
    /\ \A h \in Hashes : store[h] # None => CopyOf(store[h], h)
    /\ \A t \in Threads : FrameOf(t)
=============================================================================
