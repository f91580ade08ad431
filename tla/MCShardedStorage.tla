-------------------------- MODULE MCShardedStorage --------------------------
(* An instance of ShardedStorage for TLC. *)
EXTENDS ShardedStorage, TLC

CONSTANTS k1

\* The entries of k1 matter more than those of the other keys.
Ranked == [k \in Keys |-> IF k = k1 THEN 2 ELSE 1]

\* Every kind of policy, with limits that three keys reach.
AllPolicies ==
    {NoEviction, LruEviction(1), MemoryEviction(4), PriorityEviction(2),
     PriorityWithMemoryEviction(1, 4)}

\* k1 is set apart by its priority.
Symmetry == Permutations(Threads) \cup Permutations(Keys \ {k1})
=============================================================================
