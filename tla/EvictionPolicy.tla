--------------------------- MODULE EvictionPolicy ---------------------------
(***************************************************************************)
(* The eviction policies of src/infrastructure/eviction/ behind the port   *)
(* EvictionPolicy of src/application/ports.rs.  A policy is a record of    *)
(* its kind and its limits; a limit that a kind does not have is 0 and     *)
(* never read.  "none" is a storage without a policy.                      *)
(***************************************************************************)
EXTENDS Naturals

NoEviction == [kind |-> "none", max_entries |-> 0, max_bytes |-> 0]

LruEviction(max_entries) ==
    [kind |-> "lru", max_entries |-> max_entries, max_bytes |-> 0]

MemoryEviction(max_bytes) ==
    [kind |-> "memory", max_entries |-> 0, max_bytes |-> max_bytes]

PriorityEviction(max_entries) ==
    [kind |-> "priority", max_entries |-> max_entries, max_bytes |-> 0]

PriorityWithMemoryEviction(max_entries, max_bytes) ==
    [kind |-> "priority_memory", max_entries |-> max_entries, max_bytes |-> max_bytes]

EvictionPolicy ==
    [kind : {"none", "lru", "memory", "priority", "priority_memory"},
     max_entries : Nat, max_bytes : Nat]

LimitsEntries(policy) == policy.kind \in {"lru", "priority", "priority_memory"}

TracksMemory(policy) == policy.kind \in {"memory", "priority_memory"}

\* The two parts of should_evict, in the order their arguments are read.
TooManyEntries(policy, entries) == LimitsEntries(policy) /\ entries >= policy.max_entries

TooMuchMemory(policy, bytes) == TracksMemory(policy) /\ bytes >= policy.max_bytes

\* select_victim takes the minimum of this over the candidates.
Rank(policy, last_access, priority) ==
    IF policy.kind \in {"lru", "memory"} THEN last_access ELSE priority
=============================================================================
