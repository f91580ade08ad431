--------------------------- MODULE MCRedisStorage ---------------------------
(* Instances of RedisStorage for TLC. *)
EXTENDS RedisStorage

CONSTANTS p1, p2, t1, t2

\* Two threads of one process, and any others in a process of their own.
Placed == [t \in Threads |-> IF t \in {t1, t2} THEN p1 ELSE p2]

\* A policy that can be read back, and one that cannot.
BothKinds == {CountBased(1), TimeWindow(1, 1)}
OnlyBucket == {TokenBucket(4, 1)}
=============================================================================
