------------------------ MODULE ShardedStorageProofs ------------------------
(***************************************************************************)
(* What the storage guarantees for every number of threads, keys and       *)
(* entries: its evictions are counted exactly once, it exceeds its entry   *)
(* limit by no more than one entry for each overlapping call, its memory   *)
(* counter is off by no more than that, and it evicts needlessly no more   *)
(* often than that.                                                        *)
(***************************************************************************)
EXTENDS ShardedStorage, FiniteSetTheorems, WellFoundedInduction, TLAPS

\* Counters of usize stay in its range whatever is added or subtracted.
LEMMA UsizeWraps ==
    ASSUME NEW n \in Int
    PROVE  n % UsizeRange \in 0 .. UsizeRange - 1
  BY SizeAssumption

\* The storage invariant is inductive.
LEMMA StorageStep == StorageInv /\ [Next]_vars => StorageInv'
<1> SUFFICES ASSUME StorageInv, [Next]_vars PROVE StorageInv'
  OBVIOUS
<1>0. eviction_policy' = eviction_policy
  BY DEF Next, vars
<1> USE KeysAssumption, SizeAssumption DEF StorageInv, CallsHaveKeys, TypeOK, Step, Goto,
        map, local, history
<1>1. ASSUME NEW t \in Threads, NEW k \in Keys, Call(t, k) PROVE StorageInv'
  BY <1>0, <1>1 DEF Call
<1>2. ASSUME NEW t \in Threads, ContainsKey(t) PROVE StorageInv'
  BY <1>0, <1>2 DEF ContainsKey
<1>3. ASSUME NEW t \in Threads, ReadLen(t) PROVE StorageInv'
  <2>1. TooManyEntries(eviction_policy, Cardinality(entries)) \in BOOLEAN
    BY DEF TooManyEntries
  <2>2. full' \in [Threads -> BOOLEAN]
    BY <1>3, <2>1, Zenon DEF ReadLen
  <2> QED BY <1>0, <1>3, <2>2 DEF ReadLen
<1>4. ASSUME NEW t \in Threads, ReadMemory(t) PROVE StorageInv'
  BY <1>0, <1>4 DEF ReadMemory
<1>5. ASSUME NEW t \in Threads, SelectVictim(t) PROVE StorageInv'
  BY <1>0, <1>5 DEF SelectVictim, Victims
<1>6. ASSUME NEW t \in Threads, RemoveVictim(t) PROVE StorageInv'
  <2>1. BelowLimit \in {0, 1}
    BY DEF BelowLimit
  <2>2. needless' \in Nat
    BY <1>6, <2>1 DEF RemoveVictim
  <2> QED BY <1>0, <1>6, <2>2 DEF RemoveVictim
<1>7. ASSUME NEW t \in Threads, SubMemory(t) PROVE StorageInv'
  <2>1. memory' \in 0 .. UsizeRange - 1
    BY <1>0, <1>7, UsizeWraps DEF SubMemory
  <2> QED BY <1>0, <1>7, <2>1 DEF SubMemory
<1>8. ASSUME NEW t \in Threads, RecordEviction(t) PROVE StorageInv'
  BY <1>0, <1>8 DEF RecordEviction
<1>9. ASSUME NEW t \in Threads, ReadNow(t) PROVE StorageInv'
  BY <1>0, <1>9 DEF ReadNow
<1>10. ASSUME NEW t \in Threads, Access(t) PROVE StorageInv'
  <2>1. memory' \in 0 .. UsizeRange - 1
    BY <1>0, <1>10, UsizeWraps DEF Access
  <2>2. key[t] \in Keys
    BY <1>0, <1>10 DEF Access
  <2> QED BY <1>0, <1>10, <2>1, <2>2 DEF Access
<1>11. ASSUME NEW t \in Threads, Cleanup(t) PROVE StorageInv'
  <2>1. PICK rejected \in SUBSET entries :
            /\ entries' = entries \ rejected
            /\ last_access' = [k \in Keys |-> IF k \in rejected THEN 0 ELSE last_access[k]]
            /\ cleaned' = cleaned + Cardinality(rejected)
    BY <1>0, <1>11 DEF Cleanup
  <2>2. Cardinality(rejected) \in Nat
    BY FS_Subset, FS_CardinalityType
  <2> QED BY <1>0, <1>11, <2>1, <2>2 DEF Cleanup
<1>12. CASE UNCHANGED vars
  BY <1>0, <1>12 DEF vars
<1> QED
  BY <1>1, <1>2, <1>3, <1>4, <1>5, <1>6, <1>7, <1>8, <1>9, <1>10, <1>11, <1>12 DEF Next

LEMMA StorageInit == Init => StorageInv
  BY SizeAssumption DEF Init, StorageInv, CallsHaveKeys, TypeOK, Step

\* The storage keeps its types: in particular the map holds only keys it was
\* called with and the memory counter stays a usize.
THEOREM TypeCorrect == Spec => []TypeOK
<1>1. StorageInv => TypeOK
  BY DEF StorageInv
<1> QED BY StorageInit, StorageStep, <1>1, PTL DEF Spec

-----------------------------------------------------------------------------
(* Every insertion is accounted for. *)

\* Removing a member takes one from the cardinality.
LEMMA RemoveOne ==
    ASSUME NEW S, NEW x \in S, IsFiniteSet(S)
    PROVE  Cardinality(S \ {x}) = Cardinality(S) - 1
  BY FS_RemoveElement

\* The cardinalities the accounting adds up are natural numbers.
LEMMA CardinalitiesType ==
    ASSUME StorageInv
    PROVE  /\ IsFiniteSet(entries) /\ Cardinality(entries) \in Nat
           /\ IsFiniteSet(Uncounted) /\ Cardinality(Uncounted) \in Nat
<1>1. entries \in SUBSET Keys /\ Uncounted \in SUBSET Threads
  BY DEF StorageInv, TypeOK, Uncounted
<1> QED
  BY <1>1, KeysAssumption, ThreadsAssumption, FS_Subset, FS_CardinalityType

LEMMA CountStep == CountInv /\ [Next]_vars => EvictionsCounted'
<1> SUFFICES ASSUME CountInv, [Next]_vars PROVE EvictionsCounted'
  OBVIOUS
<1> USE DEF StorageInv, TypeOK, CountInv, EvictionsCounted
<1>0. /\ IsFiniteSet(entries) /\ Cardinality(entries) \in Nat
      /\ IsFiniteSet(Uncounted) /\ Cardinality(Uncounted) \in Nat
  BY CardinalitiesType
\* The steps that neither move an entry nor start or end an eviction.
<1>1. ASSUME UNCHANGED <<entries, inserted, cleaned, evicted>>, Uncounted' = Uncounted
      PROVE  EvictionsCounted'
  BY <1>1
<1> USE DEF Goto, map, local, history
<1>2. ASSUME NEW t \in Threads,
             \/ \E k \in Keys : Call(t, k)
             \/ ContainsKey(t) \/ ReadLen(t) \/ ReadMemory(t) \/ SelectVictim(t)
             \/ SubMemory(t) \/ ReadNow(t)
      PROVE  EvictionsCounted'
  <2>1. UNCHANGED <<entries, inserted, cleaned, evicted>>
    BY <1>2 DEF Call, ContainsKey, ReadLen, ReadMemory, SelectVictim, SubMemory, ReadNow
  <2>2. Uncounted' = Uncounted
    BY <1>2 DEF Uncounted, Call, ContainsKey, ReadLen, ReadMemory, SelectVictim, SubMemory, ReadNow
  <2> QED BY <1>1, <2>1, <2>2
<1>3. ASSUME NEW t \in Threads, RemoveVictim(t) PROVE EvictionsCounted'
  <2>1. CASE victim[t] \in entries
    <3>1. entries' = entries \ {victim[t]} /\ UNCHANGED <<inserted, cleaned, evicted>>
      BY <1>3, <2>1 DEF RemoveVictim
    <3>2. Uncounted' = Uncounted \cup {t} /\ t \notin Uncounted
      BY <1>3, <2>1 DEF RemoveVictim, Uncounted
    <3>3. Cardinality(entries \ {victim[t]}) = Cardinality(entries) - 1
      BY <1>0, <2>1, RemoveOne
    <3>4. Cardinality(Uncounted') = Cardinality(Uncounted) + 1
      BY <1>0, <3>2, FS_AddElement
    <3> QED BY <1>0, <3>1, <3>3, <3>4
  <2>2. CASE victim[t] \notin entries
    <3>1. UNCHANGED <<entries, inserted, cleaned, evicted>> /\ Uncounted' = Uncounted
      BY <1>3, <2>2 DEF RemoveVictim, Uncounted
    <3> QED BY <1>1, <3>1
  <2> QED BY <2>1, <2>2
<1>4. ASSUME NEW t \in Threads, RecordEviction(t) PROVE EvictionsCounted'
  <2>1. evicted' = evicted + 1 /\ UNCHANGED <<entries, inserted, cleaned>>
    BY <1>4 DEF RecordEviction
  <2>2. Uncounted' = Uncounted \ {t} /\ t \in Uncounted
    BY <1>4 DEF RecordEviction, Uncounted
  <2>3. Cardinality(Uncounted') = Cardinality(Uncounted) - 1
    BY <1>0, <2>2, FS_RemoveElement
  <2> QED BY <1>0, <2>1, <2>3
<1>5. ASSUME NEW t \in Threads, Access(t) PROVE EvictionsCounted'
  <2>1. /\ entries' = entries \cup {key[t]}
        /\ inserted' = IF key[t] \notin entries THEN inserted + 1 ELSE inserted
        /\ UNCHANGED <<cleaned, evicted>>
    BY <1>5 DEF Access
  <2>2. Uncounted' = Uncounted
    BY <1>5 DEF Access, Uncounted
  <2>3. Cardinality(entries') =
            IF key[t] \in entries THEN Cardinality(entries) ELSE Cardinality(entries) + 1
    BY <1>0, <2>1, FS_AddElement
  <2> QED BY <1>0, <2>1, <2>2, <2>3
<1>6. ASSUME NEW t \in Threads, Cleanup(t) PROVE EvictionsCounted'
  <2>1. PICK rejected \in SUBSET entries :
            /\ entries' = entries \ rejected
            /\ cleaned' = cleaned + Cardinality(rejected)
    BY <1>6 DEF Cleanup
  <2>2. UNCHANGED <<inserted, evicted>> /\ Uncounted' = Uncounted
    BY <1>6 DEF Cleanup, Uncounted
  <2>3. IsFiniteSet(rejected) /\ Cardinality(rejected) \in Nat
    BY <1>0, FS_Subset, FS_CardinalityType
  <2>4. /\ Cardinality(entries') = Cardinality(entries) - Cardinality(entries \cap rejected)
        /\ entries \cap rejected = rejected
    BY <1>0, <2>1, FS_Difference
  <2>5. Cardinality(entries') = Cardinality(entries) - Cardinality(rejected)
    BY <2>4
  <2>6. /\ inserted = Cardinality(entries) + cleaned + evicted + Cardinality(Uncounted)
        /\ cleaned \in Nat /\ evicted \in Nat /\ inserted \in Nat
    OBVIOUS
  <2>7. Cardinality(Uncounted') = Cardinality(Uncounted)
    BY <2>2
  <2> HIDE DEF TypeOK, StorageInv, CountInv
  <2> QED BY <1>0, <2>1, <2>2, <2>3, <2>5, <2>6, <2>7
<1>7. CASE UNCHANGED vars
  BY <1>1, <1>7 DEF vars, Uncounted
<1> QED BY <1>2, <1>3, <1>4, <1>5, <1>6, <1>7 DEF Next

\* The evictions metric is exact for any number of threads, whichever victims
\* they select: evict_one counts a removal exactly when it made it.
THEOREM EvictionsExact == Spec => []EvictionsCounted
<1>1. Init => CountInv
  <2> SUFFICES ASSUME Init PROVE EvictionsCounted
    BY StorageInit DEF CountInv
  <2>1. entries = {} /\ Uncounted = {}
    BY DEF Init, Uncounted
  <2> QED BY <2>1, FS_EmptySet DEF Init, EvictionsCounted
<1>2. CountInv /\ [Next]_vars => CountInv'
  BY StorageStep, CountStep DEF CountInv
<1>3. CountInv => EvictionsCounted
  BY DEF CountInv
<1> QED BY <1>1, <1>2, <1>3, PTL DEF Spec

-----------------------------------------------------------------------------
(* The growth of the storage. *)

\* select_victim finds a victim in every map that is not empty.
LEMMA SomeVictim ==
    ASSUME StorageInv, entries # {}
    PROVE  Victims # {}
<1> DEFINE ranks == {RankOf(k) : k \in entries}
<1>1. \A k \in entries : RankOf(k) \in Nat
  BY PriorityAssumption DEF RankOf, Rank, StorageInv, TypeOK
<1>2. ranks \subseteq Nat /\ ranks # {}
  BY <1>1
<1>3. PICK least \in ranks : \A r \in ranks : ~(<<r, least>> \in OpToRel(<, Nat))
  <2> HIDE DEF ranks
  <2> QED BY <1>2, NatLessThanWellFounded, WFMin
<1>4. \A r \in ranks : ~(r < least)
  BY <1>2, <1>3 DEF OpToRel
<1>5. PICK k \in entries : least = RankOf(k)
  OBVIOUS
<1>6. {j \in entries : RankOf(k) <= RankOf(j)} = entries
  BY <1>1, <1>4, <1>5
<1> QED BY <1>5, <1>6 DEF Victims


\* The quantities of the bound are numbers.
LEMMA SlackType ==
    ASSUME StorageInv
    PROVE  /\ IsFiniteSet(Busy) /\ Cardinality(Busy) \in Nat
           /\ Limit \in Nat /\ Limit > 0 /\ overlaps \in Nat /\ Slack \in Int
           /\ eviction_policy.max_entries \in Nat /\ eviction_policy.max_entries <= Limit
<1>1. Busy \in SUBSET Threads
  BY DEF Busy
<1>2. IsFiniteSet(Busy) /\ Cardinality(Busy) \in Nat
  BY <1>1, ThreadsAssumption, FS_Subset, FS_CardinalityType
<1>3. eviction_policy.max_entries \in Nat /\ overlaps \in Nat
  BY PolicyAssumption DEF StorageInv, TypeOK, EvictionPolicy
<1>4. Limit \in Nat /\ Limit > 0 /\ eviction_policy.max_entries <= Limit
  BY <1>3 DEF Limit
<1> QED BY <1>2, <1>3, <1>4, CardinalitiesType DEF Slack

\* A call that is the only one under way leaves the others idle.
LEMMA BusyNext ==
    ASSUME StorageInv, NEW t \in Threads, NEW step \in Step, pc' = [pc EXCEPT ![t] = step]
    PROVE  Busy' = IF step = "idle" THEN Busy \ {t} ELSE Busy \cup {t}
  BY DEF StorageInv, TypeOK, Step, Busy

\* One step preserves the slack; each case compares the entries added with
\* the calls that ended.
LEMMA SlackStep ==
    ASSUME StorageInv, SlackInv, LimitsEntries(eviction_policy), Next
    PROVE  SlackInv'
<1> USE DEF StorageInv, TypeOK, Step
<1> DEFINE n == Cardinality(entries)
           b == Cardinality(Busy)
<1>0. IsFiniteSet(entries) /\ n \in Nat
  BY CardinalitiesType
<1>1. /\ IsFiniteSet(Busy) /\ b \in Nat
      /\ Limit \in Nat /\ Limit > 0 /\ overlaps \in Nat /\ Slack \in Int
      /\ eviction_policy.max_entries \in Nat /\ eviction_policy.max_entries <= Limit
  BY SlackType
<1>2. eviction_policy' = eviction_policy /\ Limit' = Limit
  BY DEF Next, Limit
<1>3. /\ Slack = Limit + overlaps - n /\ Slack >= 0 /\ Slack >= b - 1 /\ b <= overlaps + 1
      /\ (\E t \in Threads : Committed(t)) => Slack >= b
  BY DEF SlackInv, Slack
<1>4. Slack' = Limit + overlaps' - Cardinality(entries')
  BY <1>2 DEF Slack
\* Steps that move no entry and neither begin nor end a call.
<1>5. ASSUME UNCHANGED <<entries, overlaps>>, Busy' = Busy,
             (\E t \in Threads : Committed(t)') => Slack >= b
      PROVE  SlackInv'
  BY <1>2, <1>3, <1>4, <1>5 DEF SlackInv
\* Steps after which every call under way has a place in the slack.
<1>6. ASSUME Slack' \in Int, Cardinality(Busy)' \in Nat, overlaps' \in Nat,
             Slack' >= Cardinality(Busy)', Cardinality(Busy)' <= overlaps' + 1
      PROVE  SlackInv'
  BY <1>6 DEF SlackInv
<1> USE DEF Goto, map, local, history
<1>7. ASSUME NEW t \in Threads, NEW k \in Keys, Call(t, k) PROVE SlackInv'
  <2>1. entries' = entries /\ pc' = [pc EXCEPT ![t] = "contains"] /\ pc[t] = "idle"
    BY <1>7 DEF Call
  <2>2. Busy' = Busy \cup {t} /\ t \notin Busy
    BY <2>1, BusyNext DEF Busy
  <2>3. Cardinality(Busy') = b + 1
    BY <1>1, <2>2, FS_AddElement
  <2>4. CASE Quiescent
    <3>1. Busy = {} /\ b = 0
      BY <2>4, FS_EmptySet DEF Quiescent, Busy
    <3>2. overlaps' = overlaps /\ key' = [key EXCEPT ![t] = k]
      BY <1>7, <2>4 DEF Call
    <3>3. \A u \in Threads : ~Committed(u)'
      BY <2>1, <2>4 DEF Committed, Quiescent
    <3> QED BY <1>1, <1>3, <1>4, <2>1, <2>3, <3>1, <3>2, <3>3 DEF SlackInv
  <2>5. CASE ~Quiescent
    <3>1. overlaps' = overlaps + 1
      BY <1>7, <2>5 DEF Call
    <3>2. Slack' = Slack + 1
      BY <1>0, <1>1, <1>3, <1>4, <2>1, <3>1
    <3>3. (\E u \in Threads : Committed(u)') => (\E u \in Threads : Committed(u))
      BY <1>7, <2>1 DEF Committed, Call
    <3> QED BY <1>1, <1>3, <2>3, <3>1, <3>2, <3>3 DEF SlackInv
  <2> QED BY <2>4, <2>5
<1>8. ASSUME NEW t \in Threads, ContainsKey(t) PROVE SlackInv'
  <2>1. UNCHANGED <<entries, overlaps, key, full, victim>>
    BY <1>8 DEF ContainsKey
  <2>2. PICK step \in {"len", "now"} :
            /\ pc' = [pc EXCEPT ![t] = step] /\ pc[t] = "contains"
            /\ step = "now" => key[t] \in entries
    BY <1>8 DEF ContainsKey, LimitsEntries
  <2>3. Busy' = Busy
    BY <2>2, BusyNext DEF Busy
  <2>4. (\E u \in Threads : Committed(u)') => (\E u \in Threads : Committed(u))
    BY <2>1, <2>2 DEF Committed
  <2> QED BY <1>3, <1>5, <2>1, <2>3, <2>4
<1>9. ASSUME NEW t \in Threads, ReadLen(t) PROVE SlackInv'
  <2>1. UNCHANGED <<entries, overlaps, key, victim>>
    BY <1>9 DEF ReadLen
  <2>2. pc' = [pc EXCEPT ![t] = "memory"] /\ pc[t] = "len"
    BY <1>9 DEF ReadLen
  <2>3. Busy' = Busy
    BY <2>2, BusyNext DEF Busy
  <2>4. full' = [full EXCEPT ![t] = TooManyEntries(eviction_policy, n)]
    BY <1>9 DEF ReadLen
  <2>5. CASE TooManyEntries(eviction_policy, n)
    <3>1. full' = [full EXCEPT ![t] = TRUE]
      BY <2>4, <2>5, Zenon
    <3>2. (\E u \in Threads : Committed(u)') => (\E u \in Threads : Committed(u))
      BY <2>1, <2>2, <3>1 DEF Committed
    <3> QED BY <1>3, <1>5, <2>1, <2>3, <3>2
  <2>6. CASE ~TooManyEntries(eviction_policy, n)
    <3>1. n < eviction_policy.max_entries
      BY <1>0, <1>1, <2>6 DEF TooManyEntries
    <3>2. Slack >= b
      BY <1>0, <1>1, <1>3, <3>1
    <3> QED BY <1>5, <2>1, <2>3, <3>2
  <2> QED BY <2>5, <2>6
<1>10. ASSUME NEW t \in Threads, ReadMemory(t) PROVE SlackInv'
  <2>1. UNCHANGED <<entries, overlaps, key, victim>>
    BY <1>10 DEF ReadMemory
  <2>2. PICK step \in {"sample", "now"} :
            /\ pc' = [pc EXCEPT ![t] = step] /\ pc[t] = "memory"
            /\ step = "now" => ~full[t]
    BY <1>10 DEF ReadMemory
  <2>3. Busy' = Busy
    BY <2>2, BusyNext DEF Busy
  <2>4. full' = [full EXCEPT ![t] = FALSE]
    BY <1>10 DEF ReadMemory
  <2>5. (\E u \in Threads : Committed(u)') => (\E u \in Threads : Committed(u))
    BY <2>1, <2>2, <2>4 DEF Committed
  <2> QED BY <1>3, <1>5, <2>1, <2>3, <2>5
<1>11. ASSUME NEW t \in Threads, SelectVictim(t) PROVE SlackInv'
  <2>1. UNCHANGED <<entries, overlaps, key, full>> /\ pc[t] = "sample"
    BY <1>11 DEF SelectVictim
  <2>2. CASE Victims = {}
    <3>1. pc' = [pc EXCEPT ![t] = "now"]
      BY <1>11, <2>2 DEF SelectVictim
    <3>2. n = 0
      BY <2>2, SomeVictim, FS_EmptySet
    <3>3. Busy' = Busy
      BY <2>1, <3>1, BusyNext DEF Busy
    <3> QED BY <1>1, <1>3, <1>5, <2>1, <3>2, <3>3
  <2>3. CASE Victims # {}
    <3>1. PICK k \in entries :
              /\ victim' = [victim EXCEPT ![t] = k]
              /\ pc' = [pc EXCEPT ![t] = "remove"]
      BY <1>11, <2>3 DEF SelectVictim, Victims
    <3>2. Busy' = Busy
      BY <2>1, <3>1, BusyNext DEF Busy
    <3>3. (\E u \in Threads : Committed(u)') => (\E u \in Threads : Committed(u))
      BY <2>1, <3>1 DEF Committed
    <3> QED BY <1>3, <1>5, <2>1, <3>2, <3>3
  <2> QED BY <2>2, <2>3
<1>12. ASSUME NEW t \in Threads, RemoveVictim(t) PROVE SlackInv'
  <2>1. overlaps' = overlaps /\ pc[t] = "remove"
    BY <1>12 DEF RemoveVictim
  <2>2. PICK step \in {"sub", "metric", "now"} : pc' = [pc EXCEPT ![t] = step]
    BY <1>12 DEF RemoveVictim
  <2>3. Busy' = Busy
    BY <2>1, <2>2, BusyNext DEF Busy
  <2>4. CASE victim[t] \in entries
    <3>1. entries' = entries \ {victim[t]}
      BY <1>12, <2>4 DEF RemoveVictim
    <3>2. Cardinality(entries') = n - 1
      BY <1>0, <2>4, <3>1, RemoveOne
    <3>3. Slack' = Slack + 1
      BY <1>0, <1>1, <1>3, <1>4, <2>1, <3>2
    <3> QED BY <1>1, <1>3, <1>6, <2>1, <2>3, <3>3
  <2>5. CASE victim[t] \notin entries
    <3>1. entries' = entries
      BY <1>12, <2>5 DEF RemoveVictim
    <3>2. Committed(t)
      BY <2>1, <2>5 DEF Committed
    <3>3. Slack >= b
      BY <1>3, <3>2
    <3> QED BY <1>5, <2>1, <2>3, <3>1, <3>3
  <2> QED BY <2>4, <2>5
<1>13. ASSUME NEW t \in Threads, SubMemory(t) \/ RecordEviction(t) \/ ReadNow(t) PROVE SlackInv'
  <2>1. UNCHANGED <<entries, overlaps, key, full, victim>>
    BY <1>13 DEF SubMemory, RecordEviction, ReadNow
  <2>2. PICK step \in {"metric", "now", "access"} :
            pc' = [pc EXCEPT ![t] = step] /\ pc[t] \in {"sub", "metric", "now"}
    BY <1>13 DEF SubMemory, RecordEviction, ReadNow
  <2>3. Busy' = Busy
    BY <2>2, BusyNext DEF Busy
  <2>4. (\E u \in Threads : Committed(u)') => (\E u \in Threads : Committed(u))
    BY <2>1, <2>2 DEF Committed
  <2> QED BY <1>3, <1>5, <2>1, <2>3, <2>4
<1>14. ASSUME NEW t \in Threads, Access(t) PROVE SlackInv'
  <2>1. /\ entries' = entries \cup {key[t]} /\ overlaps' = overlaps
        /\ pc' = [pc EXCEPT ![t] = "idle"] /\ pc[t] = "access"
    BY <1>14 DEF Access
  <2>2. Busy' = Busy \ {t} /\ t \in Busy
    BY <2>1, BusyNext DEF Busy
  <2>3. Cardinality(Busy') = b - 1 /\ b > 0
    <3>1. Cardinality(Busy \ {t}) = Cardinality(Busy) - 1
      BY <1>1, <2>2, FS_RemoveElement
    <3>2. IsFiniteSet(Busy \ {t}) /\ Cardinality(Busy \ {t}) \in Nat
      BY <1>1, FS_RemoveElement, FS_CardinalityType
    <3> QED BY <1>1, <2>2, <3>1, <3>2
  <2>4. CASE key[t] \in entries
    <3>1. entries' = entries
      BY <2>1, <2>4
    <3>2. Slack' = Slack
      BY <1>3, <1>4, <2>1, <3>1
    <3> QED BY <1>1, <1>3, <1>6, <2>1, <2>3, <3>2
  <2>5. CASE key[t] \notin entries
    <3>1. Slack >= b
      BY <1>3, <2>1, <2>5 DEF Committed
    <3>2. Cardinality(entries') = n + 1
      BY <1>0, <2>1, <2>5, FS_AddElement
    <3>3. Slack' = Slack - 1
      BY <1>0, <1>1, <1>3, <1>4, <2>1, <3>2
    <3> QED BY <1>1, <1>3, <1>6, <2>1, <2>3, <3>1, <3>3
  <2> QED BY <2>4, <2>5
<1>15. ASSUME NEW t \in Threads, Cleanup(t) PROVE SlackInv'
  <2>1. /\ entries' \in SUBSET entries /\ UNCHANGED <<overlaps, pc, key, full, victim>>
    BY <1>15 DEF Cleanup
  <2>2. Busy' = Busy
    BY <2>1 DEF Busy
  <2>3. CASE entries' = entries
    BY <1>3, <1>5, <2>1, <2>2, <2>3 DEF Committed
  <2>4. CASE entries' # entries
    <3>1. Cardinality(entries') \in Nat /\ Cardinality(entries') < n
      BY <1>0, <2>1, <2>4, FS_Subset, FS_CardinalityType
    <3>2. Slack' \in Int /\ Slack' >= Slack + 1
      BY <1>0, <1>1, <1>3, <1>4, <2>1, <3>1
    <3> QED BY <1>1, <1>3, <1>6, <2>1, <2>2, <3>2
  <2> QED BY <2>3, <2>4
<1> QED
  BY <1>7, <1>8, <1>9, <1>10, <1>11, <1>12, <1>13, <1>14, <1>15 DEF Next

\* Every policy with an entry limit bounds the storage, for any number of
\* threads, keys, cleanups and any sample: with_entry_mut adds at most one
\* entry to the excess for each call that began during another.
THEOREM GrowthIsBounded == Spec => []GrowthBounded
<1>1. Init => GrowthInv
  <2> SUFFICES ASSUME Init PROVE SlackInv
    BY StorageInit DEF GrowthInv
  <2>1. StorageInv
    BY StorageInit
  <2>2. entries = {} /\ Busy = {} /\ overlaps = 0
    BY DEF Init, Busy
  <2>3. Cardinality(entries) = 0 /\ Cardinality(Busy) = 0
    BY <2>2, FS_EmptySet
  <2>4. \A t \in Threads : ~Committed(t)
    BY DEF Init, Committed
  <2> QED BY <2>1, <2>2, <2>3, <2>4, SlackType DEF SlackInv, Slack
<1>2. GrowthInv /\ [Next]_vars => GrowthInv'
  <2> SUFFICES ASSUME GrowthInv, [Next]_vars, LimitsEntries(eviction_policy)' PROVE SlackInv'
    BY StorageStep DEF GrowthInv
  <2>1. LimitsEntries(eviction_policy)
    BY DEF Next, vars
  <2>2. CASE Next
    BY <2>1, <2>2, SlackStep DEF GrowthInv
  <2>3. CASE UNCHANGED vars
    BY <2>1, <2>3 DEF GrowthInv, SlackInv, Slack, Limit, Busy, Committed, vars, map, local, history
  <2> QED BY <2>2, <2>3
<1>3. GrowthInv => GrowthBounded
  <2> SUFFICES ASSUME GrowthInv, LimitsEntries(eviction_policy)
      PROVE  Cardinality(entries) <= Limit + overlaps
    BY DEF GrowthBounded
  <2> QED BY CardinalitiesType, SlackType DEF GrowthInv, SlackInv, Slack
<1> QED BY <1>1, <1>2, <1>3, PTL DEF Spec

-----------------------------------------------------------------------------
(* The memory counter. *)

\* A remainder is unique.
LEMMA Quotients ==
    ASSUME NEW n \in Nat \ {0}, NEW q \in Int, NEW p \in Int, NEW r \in 0 .. n - 1, NEW s \in 0 .. n - 1,
           n * q + r = n * p + s
    PROVE  r = s
<1>1. n * (q - p) = s - r
  OBVIOUS
<1>2. ASSUME NEW d \in Int, d >= 1 PROVE n * d >= n
  <2>1. n * (d - 1) >= 0
    BY <1>2
  <2> QED BY <2>1
<1>3. ASSUME NEW d \in Int, d <= -1 PROVE n * d <= -n
  <2>1. n * ((-d) - 1) >= 0
    BY <1>3
  <2> QED BY <2>1
<1>4. ~(q - p >= 1)
  BY <1>1, <1>2
<1>5. ~(q - p <= -1)
  BY <1>1, <1>3
<1>6. q - p = 0
  BY <1>4, <1>5
<1> QED BY <1>1, <1>6

\* Division with remainder.
LEMMA Division ==
    ASSUME NEW n \in Nat \ {0}, NEW a \in Int
    PROVE  a \div n \in Int /\ a % n \in 0 .. n - 1 /\ a = n * (a \div n) + (a % n)
  OBVIOUS

\* A wrapped sum may be wrapped before or after the addition.
LEMMA ModAdd ==
    ASSUME NEW n \in Nat \ {0}, NEW a \in Int, NEW e \in Int
    PROVE  ((a % n) + e) % n = (a + e) % n
<1> DEFINE b == (a % n) + e
           c == a + e
<1>1. a \div n \in Int /\ a % n \in 0 .. n - 1 /\ a = n * (a \div n) + (a % n)
  BY Division
<1>2. b \in Int /\ c \in Int
  BY <1>1
<1>3. b \div n \in Int /\ b % n \in 0 .. n - 1 /\ b = n * (b \div n) + (b % n)
  <2> HIDE DEF b
  <2> QED BY <1>2, Division
<1>4. c \div n \in Int /\ c % n \in 0 .. n - 1 /\ c = n * (c \div n) + (c % n)
  <2> HIDE DEF c
  <2> QED BY <1>2, Division
<1>5. c = b + n * (a \div n)
  BY <1>1
<1>6. n * (c \div n) + (c % n) = n * (b \div n + a \div n) + (b % n)
  <2> HIDE DEF b, c
  <2> QED BY <1>1, <1>2, <1>3, <1>4, <1>5
<1>7. c % n = b % n
  <2> DEFINE q == c \div n
             p == (b \div n) + (a \div n)
             r == c % n
             s == b % n
  <2>1. q \in Int /\ p \in Int /\ r \in 0 .. n - 1 /\ s \in 0 .. n - 1 /\ n * q + r = n * p + s
    <3> HIDE DEF b, c
    <3> QED BY <1>1, <1>3, <1>4, <1>6
  <2> HIDE DEF q, p, r, s
  <2>2. r = s
    BY <2>1, Quotients
  <2> QED BY <2>2 DEF r, s
<1> QED BY <1>7

\* The counter moves by an entry whichever way it has wrapped.
LEMMA CounterMoves ==
    ASSUME NEW x \in Int
    PROVE  /\ (((EntrySize * x) % UsizeRange) + EntrySize) % UsizeRange = (EntrySize * (x + 1)) % UsizeRange
           /\ (((EntrySize * x) % UsizeRange) - EntrySize) % UsizeRange = (EntrySize * (x - 1)) % UsizeRange
<1> DEFINE y == EntrySize * x
           e == -EntrySize
<1>1. y \in Int /\ e \in Int /\ EntrySize \in Int
  BY SizeAssumption
<1>2. EntrySize * (x + 1) = y + EntrySize /\ EntrySize * (x - 1) = y + e
  BY SizeAssumption
<1>3. ((y % UsizeRange) + EntrySize) % UsizeRange = (y + EntrySize) % UsizeRange
  <2> HIDE DEF y, e
  <2> QED BY <1>1, ModAdd, SizeAssumption
<1>4. ((y % UsizeRange) + e) % UsizeRange = (y + e) % UsizeRange
  <2> HIDE DEF y, e
  <2> QED BY <1>1, ModAdd, SizeAssumption
<1>5. (y % UsizeRange) + e = (y % UsizeRange) - EntrySize
  <2>1. y % UsizeRange \in Int
    <3> HIDE DEF y
    <3> QED BY <1>1, UsizeWraps, SizeAssumption
  <2> HIDE DEF y
  <2> QED BY <2>1, SizeAssumption
<1>6. ((y % UsizeRange) - EntrySize) % UsizeRange = (y + e) % UsizeRange
  BY <1>4, <1>5, Zenon
<1> HIDE DEF e
<1>7. (((EntrySize * x) % UsizeRange) + EntrySize) % UsizeRange = (EntrySize * (x + 1)) % UsizeRange
  BY <1>2, <1>3, Zenon
<1>8. (((EntrySize * x) % UsizeRange) - EntrySize) % UsizeRange = (EntrySize * (x - 1)) % UsizeRange
  BY <1>2, <1>6, Zenon
<1> QED BY <1>7, <1>8, Zenon

\* A bound that grows still bounds.
LEMMA Larger ==
    ASSUME NEW a \in Nat, NEW b \in Nat, NEW c \in Nat, NEW d \in Nat, c >= a, d >= b,
           NEW m \in 0 .. a + b
    PROVE  m \in 0 .. c + d
  OBVIOUS

\* Only calls for new entries evict.
LEMMA EvictorsStep == StorageInv /\ EvictorsAreNew /\ [Next]_vars => EvictorsAreNew'
<1> SUFFICES ASSUME StorageInv, EvictorsAreNew, [Next]_vars PROVE EvictorsAreNew'
  OBVIOUS
<1> USE DEF StorageInv, TypeOK, EvictorsAreNew, Goto, local
<1>1. ASSUME NEW t \in Threads,
             (\E k \in Keys : Call(t, k)) \/ ContainsKey(t) \/ ReadLen(t) \/ ReadMemory(t)
      PROVE  EvictorsAreNew'
  BY <1>1, ZenonT(60) DEF Call, ContainsKey, ReadLen, ReadMemory
<1>2. ASSUME NEW t \in Threads,
             SelectVictim(t) \/ RemoveVictim(t) \/ SubMemory(t) \/ RecordEviction(t)
      PROVE  EvictorsAreNew'
  BY <1>2 DEF SelectVictim, RemoveVictim, SubMemory, RecordEviction
<1>3. ASSUME NEW t \in Threads, ReadNow(t) \/ Access(t) \/ Cleanup(t)
      PROVE  EvictorsAreNew'
  BY <1>3 DEF ReadNow, Access, Cleanup
<1>4. CASE UNCHANGED vars
  BY <1>4 DEF vars
<1> QED BY <1>1, <1>2, <1>3, <1>4 DEF Next

\* The sets of threads the accounting counts.
LEMMA ThreadSets ==
    ASSUME StorageInv
    PROVE  /\ IsFiniteSet(Busy) /\ Cardinality(Busy) \in Nat
           /\ IsFiniteSet(Silent) /\ Cardinality(Silent) \in Nat
           /\ IsFiniteSet(Unsubtracted) /\ Cardinality(Unsubtracted) \in Nat
           /\ Cardinality(Silent) <= Cardinality(Busy)
           /\ \A t \in Busy \ Silent : Cardinality(Silent) <= Cardinality(Busy) - 1
<1>1. Busy \subseteq Threads /\ Silent \subseteq Busy /\ Unsubtracted \subseteq Threads
  BY DEF Busy, Silent, Unsubtracted
<1>2. /\ IsFiniteSet(Busy) /\ Cardinality(Busy) \in Nat
      /\ IsFiniteSet(Unsubtracted) /\ Cardinality(Unsubtracted) \in Nat
  BY <1>1, ThreadsAssumption, FS_Subset, FS_CardinalityType
<1>3. IsFiniteSet(Silent) /\ Cardinality(Silent) \in Nat /\ Cardinality(Silent) <= Cardinality(Busy)
  BY <1>1, <1>2, FS_Subset, FS_CardinalityType
<1>4. ASSUME NEW t \in Busy \ Silent
      PROVE  Cardinality(Silent) <= Cardinality(Busy) - 1
  <2>1. Silent \subseteq Busy \ {t} /\ IsFiniteSet(Busy \ {t})
    BY <1>1, <1>2, FS_RemoveElement
  <2> QED BY <1>2, <2>1, FS_Subset, RemoveOne
<1> QED BY <1>2, <1>3, <1>4

\* One step keeps the account: the entries missed grow only where an overlap
\* or a crossing cleanup is left to pay for them.
LEMMA MemoryStep ==
    ASSUME StorageInv, StorageInv', EvictorsAreNew, TracksMemory(eviction_policy), Next,
           NEW missed \in 0 .. overlaps + crossed, Accounted(missed)
    PROVE  \E m \in 0 .. overlaps' + crossed' : Accounted(m)'
<1> DEFINE n == Cardinality(entries)
           b == Cardinality(Busy)
           s == Cardinality(Silent)
           u == Cardinality(Unsubtracted)
<1>0. /\ IsFiniteSet(entries) /\ n \in Nat
      /\ IsFiniteSet(Busy) /\ b \in Nat
      /\ IsFiniteSet(Silent) /\ s \in Nat /\ s <= b
      /\ IsFiniteSet(Unsubtracted) /\ u \in Nat
      /\ missed \in Nat /\ overlaps \in Nat /\ crossed \in Nat /\ cleaned \in Nat
      /\ n + cleaned + u - missed \in Int
  <2>1. missed \in Nat /\ overlaps \in Nat /\ crossed \in Nat /\ cleaned \in Nat
    BY DEF StorageInv, TypeOK
  <2> QED BY <2>1, CardinalitiesType, ThreadSets
<1>m. /\ memory = (EntrySize * (n + cleaned + u - missed)) % UsizeRange
      /\ missed + b <= overlaps + crossed + 1
      /\ (\E t \in Threads : Misses(t)) => missed + s <= overlaps + crossed
      /\ missed <= overlaps + crossed
  BY DEF Accounted
\* The steps that move no entry and start or end no call.
<1>1. ASSUME UNCHANGED <<entries, memory, cleaned, overlaps, crossed>>,
             Unsubtracted' = Unsubtracted, Busy' = Busy, Silent' \subseteq Silent,
             \A t \in Threads : Misses(t)' => Misses(t)
      PROVE  Accounted(missed)'
  <2>1. Cardinality(Silent') \in Nat /\ Cardinality(Silent') <= s
    BY <1>0, <1>1, FS_Subset, FS_CardinalityType
  <2>2. (\E t \in Threads : Misses(t)') => missed + Cardinality(Silent') <= overlaps + crossed
    <3> HIDE DEF n, b, s, u
    <3> QED BY <1>0, <1>1, <1>m, <2>1
  <2> QED BY <1>1, <1>m, <2>2 DEF Accounted
<1>p. pc \in [Threads -> Step] /\ is_new \in [Threads -> BOOLEAN]
  BY DEF StorageInv, TypeOK
<1> USE DEF Goto, map, local, history
<1>2. ASSUME NEW t \in Threads, NEW k \in Keys, Call(t, k) PROVE Accounted(missed)'
  <2>1. /\ UNCHANGED <<entries, memory, cleaned, crossed, is_new>> /\ pc[t] = "idle"
        /\ pc' = [pc EXCEPT ![t] = "contains"]
        /\ overlaps' = IF Quiescent THEN overlaps ELSE overlaps + 1
    BY <1>2 DEF Call
  <2>2. Unsubtracted' = Unsubtracted /\ t \notin Busy /\ Busy' = Busy \cup {t} /\ t \notin Silent
    BY <1>p, <2>1 DEF Unsubtracted, Busy, Step, Silent
  <2>3. Silent' = Silent \cup {t}
    BY <1>p, <2>1 DEF Silent, Step, EvictorsAreNew
  <2>4. Cardinality(Busy') = b + 1 /\ Cardinality(Silent') = s + 1
    BY <1>0, <2>2, <2>3, FS_AddElement
  <2>5. \A v \in Threads : Misses(v)' => Misses(v)
    BY <1>p, <1>2, <2>1 DEF Misses, Step, Call
  <2>6. CASE Quiescent
    <3>1. Busy = {} /\ \A v \in Threads : ~Misses(v)
      BY <2>6 DEF Quiescent, Busy, Misses
    <3>2. b = 0
      BY <3>1, FS_EmptySet
    <3>3. missed + Cardinality(Busy') <= overlaps' + crossed' + 1
      <4> HIDE DEF n, b, s, u
      <4> QED BY <1>0, <1>m, <2>1, <2>4, <2>6, <3>2
    <3> QED BY <1>m, <2>1, <2>2, <2>5, <3>1, <3>3 DEF Accounted
  <2>7. CASE ~Quiescent
    <3>1. /\ missed + Cardinality(Busy') <= overlaps' + crossed' + 1
          /\ (\E v \in Threads : Misses(v)') => missed + Cardinality(Silent') <= overlaps' + crossed'
      <4> HIDE DEF n, b, s, u
      <4> QED BY <1>0, <1>m, <2>1, <2>4, <2>5, <2>7
    <3> QED BY <1>m, <2>1, <2>2, <3>1 DEF Accounted
  <2> QED BY <2>6, <2>7
<1>3. ASSUME NEW t \in Threads,
             ContainsKey(t) \/ ReadLen(t) \/ ReadMemory(t) \/ SelectVictim(t)
             \/ RecordEviction(t) \/ ReadNow(t)
      PROVE  Accounted(missed)'
  <2>1. UNCHANGED <<entries, memory, cleaned, overlaps, crossed, key>>
    BY <1>3 DEF ContainsKey, ReadLen, ReadMemory, SelectVictim, RecordEviction, ReadNow
  <2>2. Unsubtracted' = Unsubtracted /\ Busy' = Busy
    BY <1>p, <1>3 DEF Unsubtracted, Busy, Step, ContainsKey, ReadLen, ReadMemory, SelectVictim,
                      RecordEviction, ReadNow
  <2>3. Silent' \subseteq Silent
    BY <1>p, <1>3 DEF Silent, Step, EvictorsAreNew, ContainsKey, ReadLen, ReadMemory, SelectVictim,
                      RecordEviction, ReadNow
  <2>4. \A v \in Threads : Misses(v)' => Misses(v)
    BY <1>p, <1>3, <2>1 DEF Misses, Step, EvictorsAreNew, ContainsKey, ReadLen, ReadMemory,
                      SelectVictim, RecordEviction, ReadNow
  <2> QED BY <1>1, <2>1, <2>2, <2>3, <2>4
<1>4. ASSUME NEW t \in Threads, RemoveVictim(t) PROVE Accounted(missed)'
  <2>1. /\ UNCHANGED <<memory, cleaned, overlaps, crossed, key, is_new>>
        /\ pc[t] = "remove" /\ is_new[t]
    BY <1>4 DEF RemoveVictim, EvictorsAreNew
  <2>2. Busy' = Busy /\ Silent' = Silent /\ t \in Busy \ Silent
    BY <1>p, <1>4, <2>1 DEF Busy, Silent, Step, RemoveVictim
  <2>3. CASE victim[t] \notin entries
    <3>1. entries' = entries /\ Unsubtracted' = Unsubtracted
      BY <1>p, <1>4, <2>3 DEF RemoveVictim, Unsubtracted
    <3>2. \A v \in Threads : Misses(v)' => Misses(v)
      BY <1>p, <1>4, <2>1, <2>3, <3>1 DEF Misses, Step, RemoveVictim
    <3> QED BY <1>1, <2>1, <2>2, <3>1, <3>2
  <2>4. CASE victim[t] \in entries
    <3>1. /\ entries' = entries \ {victim[t]}
          /\ Unsubtracted' = Unsubtracted \cup {t} /\ t \notin Unsubtracted
      BY <1>p, <1>4, <2>4 DEF RemoveVictim, Unsubtracted
    <3>2. Cardinality(entries') = n - 1 /\ Cardinality(Unsubtracted') = u + 1
      BY <1>0, <2>4, <3>1, RemoveOne, FS_AddElement
    <3>3. Cardinality(entries') + cleaned' + Cardinality(Unsubtracted') - missed = n + cleaned + u - missed
      <4> HIDE DEF n, b, s, u
      <4> QED BY <1>0, <2>1, <3>2
    <3>4. s <= b - 1
      BY <2>2, ThreadSets
    <3>5. missed + Cardinality(Silent') <= overlaps' + crossed'
      <4>1. Cardinality(Silent') = s
        BY <2>2
      <4> HIDE DEF n, b, s, u
      <4> QED BY <1>0, <1>m, <2>1, <3>4, <4>1
    <3> QED BY <1>m, <2>1, <2>2, <3>3, <3>5 DEF Accounted
  <2> QED BY <2>3, <2>4
<1>5. ASSUME NEW t \in Threads, SubMemory(t) PROVE Accounted(missed)'
  <2>1. /\ UNCHANGED <<entries, cleaned, overlaps, crossed, key, is_new>>
        /\ memory' = (memory - EntrySize) % UsizeRange
        /\ pc[t] = "sub" /\ pc' = [pc EXCEPT ![t] = "metric"]
    BY <1>5 DEF SubMemory
  <2>2. /\ Busy' = Busy /\ Silent' = Silent
        /\ t \in Unsubtracted /\ Unsubtracted' = Unsubtracted \ {t}
    BY <1>p, <2>1 DEF Busy, Silent, Unsubtracted, Step
  <2>3. Cardinality(Unsubtracted') = u - 1
    BY <1>0, <2>2, RemoveOne
  <2>4. memory' = (EntrySize * ((n + cleaned + u - missed) - 1)) % UsizeRange
    <3> HIDE DEF n, b, s, u
    <3> QED BY <1>0, <1>m, <2>1, CounterMoves
  <2>5. Cardinality(entries') + cleaned' + Cardinality(Unsubtracted') - missed = (n + cleaned + u - missed) - 1
    <3>1. Cardinality(entries') = n
      BY <2>1
    <3> HIDE DEF n, b, s, u
    <3> QED BY <1>0, <2>1, <2>3, <3>1
  <2>6. \A v \in Threads : Misses(v)' => Misses(v)
    BY <1>p, <2>1 DEF Misses, Step
  <2> QED BY <1>m, <2>1, <2>2, <2>4, <2>5, <2>6 DEF Accounted
<1>6. ASSUME NEW t \in Threads, Access(t)
      PROVE  \E m \in 0 .. overlaps' + crossed' : Accounted(m)'
  <2>1. /\ UNCHANGED <<cleaned, overlaps, crossed>>
        /\ entries' = entries \cup {key[t]}
        /\ memory' = IF key[t] \notin entries /\ is_new[t]
                        THEN (memory + EntrySize) % UsizeRange ELSE memory
        /\ key' = [key EXCEPT ![t] = None]
        /\ is_new' = [is_new EXCEPT ![t] = FALSE]
        /\ pc[t] = "access" /\ pc' = [pc EXCEPT ![t] = "idle"]
    BY <1>6 DEF Access
  <2>2. /\ t \in Busy /\ Busy' = Busy \ {t} /\ Silent' = Silent \ {t}
        /\ Unsubtracted' = Unsubtracted
        /\ \A v \in Threads : Misses(v)' => Misses(v)
    <3>1. \A v \in Threads : v # t => pc'[v] = pc[v] /\ is_new'[v] = is_new[v] /\ key'[v] = key[v]
      BY <1>p, <2>1 DEF StorageInv, TypeOK
    <3>2. pc'[t] = "idle"
      BY <1>p, <2>1
    <3> QED BY <2>1, <3>1, <3>2 DEF Busy, Silent, Unsubtracted, Misses
  <2>3. Cardinality(Busy') = b - 1
    BY <1>0, <2>2, RemoveOne
  <2>4. Cardinality(Silent') \in Nat /\ Cardinality(Silent') <= s
    <3>1. Silent \ {t} \subseteq Silent
      OBVIOUS
    <3> QED BY <1>0, <2>2, <3>1, FS_Subset, FS_CardinalityType
  <2>5. Cardinality(entries') = IF key[t] \in entries THEN n ELSE n + 1
    BY <1>0, <2>1, FS_AddElement
  <2>6. CASE key[t] \in entries \/ is_new[t]
    <3>1. memory' = (EntrySize * (Cardinality(entries') + cleaned' + Cardinality(Unsubtracted') - missed)) % UsizeRange
      <4>1. CASE key[t] \in entries
        <5>1. entries' = entries
          BY <2>1, <4>1
        <5> QED BY <1>m, <2>1, <2>2, <4>1, <5>1
      <4>2. CASE key[t] \notin entries /\ is_new[t]
        <5>1. Cardinality(entries') + cleaned' + Cardinality(Unsubtracted') - missed = (n + cleaned + u - missed) + 1
          <6>1. Cardinality(Unsubtracted') = u
            BY <2>2
          <6> HIDE DEF n, b, s, u
          <6> QED BY <1>0, <2>1, <2>5, <4>2, <6>1
        <5>2. memory' = (EntrySize * ((n + cleaned + u - missed) + 1)) % UsizeRange
          <6> HIDE DEF n, b, s, u
          <6> QED BY <1>0, <1>m, <2>1, <4>2, CounterMoves
        <5> QED BY <5>1, <5>2
      <4> QED BY <2>6, <4>1, <4>2
    <3>2. missed + Cardinality(Busy') <= overlaps' + crossed' + 1
      <4> HIDE DEF n, b, s, u
      <4> QED BY <1>0, <1>m, <2>1, <2>3
    <3>3. (\E v \in Threads : Misses(v)') => missed + Cardinality(Silent') <= overlaps' + crossed'
      <4> HIDE DEF n, b, s, u
      <4> QED BY <1>0, <1>m, <2>1, <2>2, <2>4
    <3>4. Accounted(missed)'
      BY <3>1, <3>2, <3>3 DEF Accounted
    <3> QED BY <2>1, <3>4
  <2>7. CASE key[t] \notin entries /\ ~is_new[t]
    <3>1. Misses(t) /\ t \in Silent
      BY <2>1, <2>7 DEF Misses, Silent
    <3>2. Cardinality(Silent') = s - 1
      BY <1>0, <2>2, <3>1, RemoveOne
    <3>3. missed + s <= overlaps + crossed /\ s >= 1
      <4>1. s - 1 \in Nat
        BY <2>4, <3>2
      <4> HIDE DEF n, b, s, u
      <4> QED BY <1>0, <1>m, <3>1, <4>1
    <3>4. Cardinality(entries') + cleaned' + Cardinality(Unsubtracted') - (missed + 1) = n + cleaned + u - missed
      <4>1. Cardinality(Unsubtracted') = u
        BY <2>2
      <4> HIDE DEF n, b, s, u
      <4> QED BY <1>0, <2>1, <2>5, <2>7, <4>1
    <3>5. /\ missed + 1 \in 0 .. overlaps' + crossed'
          /\ (missed + 1) + Cardinality(Busy') <= overlaps' + crossed' + 1
          /\ (missed + 1) + Cardinality(Silent') <= overlaps' + crossed'
      <4> HIDE DEF n, b, s, u
      <4> QED BY <1>0, <1>m, <2>1, <2>3, <3>2, <3>3
    <3>6. memory' = memory
      BY <2>1, <2>7
    <3>7. Accounted(missed + 1)'
      BY <1>m, <3>4, <3>5, <3>6 DEF Accounted
    <3> QED BY <3>5, <3>7
  <2> QED BY <2>6, <2>7
<1>7. ASSUME NEW t \in Threads, Cleanup(t) PROVE Accounted(missed)' /\ overlaps' = overlaps /\ crossed' >= crossed /\ crossed' \in Nat
  <2>1. PICK rejected \in SUBSET entries :
            /\ entries' = entries \ rejected
            /\ cleaned' = cleaned + Cardinality(rejected)
    BY <1>7 DEF Cleanup
  <2>2. /\ UNCHANGED <<memory, overlaps, pc, key, is_new>>
        /\ crossed' = IF Quiescent THEN crossed ELSE crossed + 1
    BY <1>7 DEF Cleanup
  <2>3. Unsubtracted' = Unsubtracted /\ Busy' = Busy /\ Silent' = Silent
    BY <2>2 DEF Unsubtracted, Busy, Silent
  <2>4. IsFiniteSet(rejected) /\ Cardinality(rejected) \in Nat
    BY <1>0, FS_Subset, FS_CardinalityType
  <2>5. /\ Cardinality(entries') = Cardinality(entries) - Cardinality(entries \cap rejected)
        /\ entries \cap rejected = rejected
    BY <1>0, <2>1, FS_Difference
  <2>6. Cardinality(entries') = n - Cardinality(rejected)
    BY <2>5
  <2>7. Cardinality(entries') + cleaned' + Cardinality(Unsubtracted') - missed = n + cleaned + u - missed
    <3>1. Cardinality(Unsubtracted') = u
      BY <2>3
    <3> HIDE DEF n, b, s, u
    <3> QED BY <1>0, <2>1, <2>4, <2>6, <3>1
  <2>8. CASE Quiescent
    <3>1. \A v \in Threads : ~Misses(v)'
      BY <2>2, <2>8 DEF Quiescent, Misses
    <3> QED BY <1>0, <1>m, <2>2, <2>3, <2>7, <2>8, <3>1 DEF Accounted
  <2>9. CASE ~Quiescent
    <3>1. /\ missed + b <= overlaps' + crossed' + 1 /\ missed + s <= overlaps' + crossed'
          /\ crossed' >= crossed /\ crossed' \in Nat
      <4> HIDE DEF n, b, s, u
      <4> QED BY <1>0, <1>m, <2>2, <2>9
    <3> QED BY <1>m, <2>2, <2>3, <2>7, <3>1 DEF Accounted
  <2> QED BY <2>8, <2>9
<1>8. ASSUME Accounted(missed)', overlaps' >= overlaps, crossed' >= crossed, crossed' \in Nat, overlaps' \in Nat
      PROVE  \E m \in 0 .. overlaps' + crossed' : Accounted(m)'
  <2>1. missed \in Nat /\ missed <= overlaps + crossed /\ overlaps \in Nat /\ crossed \in Nat
    BY <1>0, <1>m
  <2>2. missed \in 0 .. overlaps' + crossed'
    BY <2>1, <1>8, Larger
  <2> QED BY <1>8, <2>2
<1>9. ASSUME NEW t \in Threads,
             \/ \E k \in Keys : Call(t, k)
             \/ ContainsKey(t) \/ ReadLen(t) \/ ReadMemory(t) \/ SelectVictim(t) \/ RemoveVictim(t)
             \/ SubMemory(t) \/ RecordEviction(t) \/ ReadNow(t) \/ Cleanup(t)
      PROVE  \E m \in 0 .. overlaps' + crossed' : Accounted(m)'
  <2>1. Accounted(missed)'
    BY <1>2, <1>3, <1>4, <1>5, <1>7, <1>9
  <2>2. overlaps' >= overlaps /\ crossed' >= crossed /\ crossed' \in Nat /\ overlaps' \in Nat
    <3>1. CASE Cleanup(t)
      BY <1>0, <1>7, <3>1
    <3>2. CASE \E k \in Keys : Call(t, k)
      BY <1>0, <3>2 DEF Call
    <3>3. CASE ~Cleanup(t) /\ ~(\E k \in Keys : Call(t, k))
      BY <1>0, <1>9, <3>3 DEF ContainsKey, ReadLen, ReadMemory, SelectVictim, RemoveVictim,
                              SubMemory, RecordEviction, ReadNow
    <3> QED BY <3>1, <3>2, <3>3
  <2> HIDE DEF Goto, map, local, history
  <2> QED BY <1>8, <2>1, <2>2
<1> QED BY <1>6, <1>9 DEF Next

\* Between calls the memory counter is what the entries and the cleanups come
\* to, but for an entry for each overlapping call or crossing cleanup, for any
\* number of threads and keys, any sizes and any width of the counter.
THEOREM MemoryIsAccounted == Spec => []MemoryAccounted
<1>1. Init => MemoryInv
  <2> SUFFICES ASSUME Init PROVE MemoryInv
    OBVIOUS
  <2>1. StorageInv /\ EvictorsAreNew
    BY StorageInit DEF Init, EvictorsAreNew
  <2>2. /\ entries = {} /\ Unsubtracted = {} /\ Busy = {} /\ \A t \in Threads : ~Misses(t)
        /\ overlaps = 0 /\ crossed = 0 /\ cleaned = 0 /\ memory = 0
    BY DEF Init, Unsubtracted, Busy, Misses
  <2>3. Cardinality(entries) = 0 /\ Cardinality(Unsubtracted) = 0 /\ Cardinality(Busy) = 0
    BY <2>2, FS_EmptySet
  <2>4. EntrySize * 0 = 0 /\ 0 % UsizeRange = 0
    BY SizeAssumption
  <2>5. Accounted(0)
    <3>1. memory = (EntrySize * (0 + 0 + 0 - 0)) % UsizeRange
      BY <2>2, <2>4
    <3> QED BY <2>2, <2>3, <3>1 DEF Accounted
  <2> QED BY <2>1, <2>2, <2>5 DEF MemoryInv
<1>2. MemoryInv /\ [Next]_vars => MemoryInv'
  <2> SUFFICES ASSUME MemoryInv, [Next]_vars PROVE MemoryInv'
    OBVIOUS
  <2>1. StorageInv' /\ EvictorsAreNew'
    BY StorageStep, EvictorsStep DEF MemoryInv
  <2>2. TracksMemory(eviction_policy)' = TracksMemory(eviction_policy)
    BY DEF Next, vars
  <2>3. CASE Next
    <3> SUFFICES ASSUME TracksMemory(eviction_policy)
                 PROVE  \E m \in 0 .. overlaps' + crossed' : Accounted(m)'
      BY <2>1, <2>2 DEF MemoryInv
    <3>1. PICK missed \in 0 .. overlaps + crossed : Accounted(missed)
      BY DEF MemoryInv
    <3> QED BY <2>1, <2>3, <3>1, MemoryStep DEF MemoryInv
  <2>4. CASE UNCHANGED vars
    BY <2>1, <2>2, <2>4 DEF MemoryInv, vars, map, local, history, Accounted, Misses, Busy, Silent,
                            Unsubtracted
  <2> QED BY <2>3, <2>4
<1>3. MemoryInv => MemoryAccounted
  <2> SUFFICES ASSUME MemoryInv, TracksMemory(eviction_policy), Quiescent
      PROVE  \E missed \in 0 .. overlaps + crossed :
                memory = (EntrySize * (Cardinality(entries) + cleaned - missed)) % UsizeRange
    BY DEF MemoryAccounted
  <2>1. PICK missed \in 0 .. overlaps + crossed : Accounted(missed)
    BY DEF MemoryInv
  <2>2. Unsubtracted = {}
    BY DEF Unsubtracted, Quiescent
  <2>3. Cardinality(Unsubtracted) = 0
    BY <2>2, FS_EmptySet
  <2>4. Cardinality(entries) \in Nat /\ cleaned \in Nat
    BY CardinalitiesType DEF MemoryInv, StorageInv, TypeOK
  <2>5. Cardinality(entries) + cleaned + Cardinality(Unsubtracted) - missed = Cardinality(entries) + cleaned - missed
    BY <2>3, <2>4
  <2> QED BY <2>1, <2>5 DEF Accounted
<1> QED BY <1>1, <1>2, <1>3, PTL DEF Spec

-----------------------------------------------------------------------------
(* Evictions that were not needed. *)

\* The quantities of the bound are numbers.
LEMMA DecidingType ==
    ASSUME StorageInv
    PROVE  /\ IsFiniteSet(Deciding) /\ Cardinality(Deciding) \in Nat
           /\ IsFiniteSet(entries) /\ Cardinality(entries) \in Nat
           /\ needless \in Nat /\ overlaps \in Nat /\ crossed \in Nat
           /\ eviction_policy.max_entries \in Nat
<1>1. Deciding \in SUBSET Threads
  BY DEF Deciding
<1> QED
  BY <1>1, CardinalitiesType, SlackType, ThreadsAssumption, FS_Subset, FS_CardinalityType
     DEF StorageInv, TypeOK

\* One step pays for a needless eviction with the overlap of its own call, of
\* the first call to overlap it, or of the cleanup that crossed it.
LEMMA NeedlessStep ==
    ASSUME StorageInv, NeedlessInv, Next,
           LimitsEntries(eviction_policy), ~TracksMemory(eviction_policy)
    PROVE  NeedlessInv'
<1> DEFINE n == Cardinality(entries)
           d == Cardinality(Deciding)
           m == eviction_policy.max_entries
           paid == overlaps + crossed
<1>0. /\ IsFiniteSet(Deciding) /\ d \in Nat /\ IsFiniteSet(entries) /\ n \in Nat
      /\ needless \in Nat /\ overlaps \in Nat /\ crossed \in Nat /\ m \in Nat
  BY DecidingType
<1>1. m' = m
  BY DEF Next
<1>2. /\ needless <= paid /\ needless + d <= paid + 1
      /\ (\E t \in Threads : SawFull(t)) /\ n < m => needless + d <= paid
  BY DEF NeedlessInv
<1>3. /\ pc \in [Threads -> Step] /\ full \in [Threads -> BOOLEAN]
      /\ entries \subseteq Keys /\ key \in [Threads -> Keys \cup {None}]
  BY DEF StorageInv, TypeOK
\* Steps that neither evict nor begin a call.
<1>4. ASSUME UNCHANGED <<needless, overlaps, crossed>>, Deciding' \subseteq Deciding,
             (\E t \in Threads : SawFull(t)') /\ n' < m => (\E t \in Threads : SawFull(t)) /\ n < m
      PROVE  NeedlessInv'
  <2>1. Cardinality(Deciding') <= d /\ Cardinality(Deciding') \in Nat
    BY <1>0, <1>4, FS_Subset, FS_CardinalityType
  <2>2. needless + Cardinality(Deciding') <= paid + 1
    BY <1>0, <1>2, <2>1
  <2>3. (\E t \in Threads : SawFull(t)') /\ n' < m => needless + Cardinality(Deciding') <= paid
    BY <1>0, <1>2, <1>4, <2>1
  <2> QED BY <1>1, <1>2, <1>4, <2>2, <2>3 DEF NeedlessInv
\* Steps after which every call that may evict has been paid for.
<1>5. ASSUME NEW c \in Nat, Cardinality(Deciding)' = c,
             needless' \in Nat, overlaps' \in Nat, crossed' \in Nat,
             needless' + c <= overlaps' + crossed'
      PROVE  NeedlessInv'
  <2>1. /\ needless' <= overlaps' + crossed'
        /\ needless' + c <= overlaps' + crossed' + 1
    <3>1. \A i, j, k, l \in Nat : i + l <= j + k => i <= j + k /\ i + l <= j + k + 1
      OBVIOUS
    <3> QED BY <1>5, <3>1
  <2> QED BY <1>5, <2>1 DEF NeedlessInv
<1> USE DEF Goto, map, local, history, Step
<1>6. ASSUME NEW t \in Threads, NEW k \in Keys, Call(t, k) PROVE NeedlessInv'
  <2>1. /\ pc' = [pc EXCEPT ![t] = "contains"] /\ pc[t] = "idle"
        /\ UNCHANGED <<entries, full, needless, crossed>>
        /\ overlaps' = IF Quiescent THEN overlaps ELSE overlaps + 1
    BY <1>6 DEF Call
  <2>2. Deciding' = Deciding \cup {t} /\ t \notin Deciding
    BY <1>3, <2>1 DEF Deciding
  <2>3. Cardinality(Deciding') = d + 1
    BY <1>0, <2>2, FS_AddElement
  <2>4. \A u \in Threads : SawFull(u)' => SawFull(u)
    BY <1>3, <2>1 DEF SawFull
  <2>5. CASE Quiescent
    <3>1. Deciding = {} /\ d = 0
      BY <2>5, FS_EmptySet DEF Deciding, Quiescent
    <3>2. \A u \in Threads : ~SawFull(u)'
      BY <2>4, <2>5 DEF SawFull, Quiescent
    <3>3. overlaps' = overlaps
      BY <2>1, <2>5
    <3> QED BY <1>0, <1>2, <2>1, <2>3, <3>1, <3>2, <3>3 DEF NeedlessInv
  <2>6. CASE ~Quiescent
    <3>1. overlaps' = overlaps + 1
      BY <2>1, <2>6
    <3>2. needless + (d + 1) <= (overlaps + 1) + crossed + 1
      BY <1>0, <1>2
    <3>3. (\E u \in Threads : SawFull(u)') /\ n < m => needless + (d + 1) <= (overlaps + 1) + crossed
      BY <1>0, <1>2, <2>4
    <3>4. needless <= (overlaps + 1) + crossed
      BY <1>0, <1>2
    <3> QED BY <1>1, <2>1, <2>3, <3>1, <3>2, <3>3, <3>4 DEF NeedlessInv
  <2> QED BY <2>5, <2>6
<1>7. ASSUME NEW t \in Threads,
             \/ ContainsKey(t) \/ ReadLen(t) \/ ReadMemory(t) \/ SelectVictim(t)
             \/ SubMemory(t) \/ RecordEviction(t) \/ ReadNow(t)
      PROVE  NeedlessInv'
  <2>1. /\ UNCHANGED <<entries, needless, overlaps, crossed>>
        /\ \A u \in Threads \ {t} : pc'[u] = pc[u] /\ full'[u] = full[u]
    BY <1>3, <1>7
       DEF ContainsKey, ReadLen, ReadMemory, SelectVictim, SubMemory, RecordEviction, ReadNow
  <2>2. t \in Deciding' => t \in Deciding
    BY <1>3, <1>7
       DEF Deciding, ContainsKey, ReadLen, ReadMemory, SelectVictim, SubMemory, RecordEviction, ReadNow
  <2>3. Deciding' \subseteq Deciding
    BY <2>1, <2>2 DEF Deciding
  <2>4. SawFull(t)' /\ n < m => SawFull(t)
    <3>1. CASE ReadLen(t)
      <4>1. full'[t] = TooManyEntries(eviction_policy, n)
        BY <1>3, <3>1, Zenon DEF ReadLen
      <4>2. pc'[t] = "memory"
        BY <1>3, <3>1 DEF ReadLen
      <4>3. n < m => ~TooManyEntries(eviction_policy, n)
        BY <1>0 DEF TooManyEntries
      <4>4. n < m => ~full'[t]
        BY <4>1, <4>3, Zenon
      <4> QED BY <4>2, <4>4 DEF SawFull
    <3>2. CASE ReadMemory(t)
      BY <1>3, <3>2 DEF ReadMemory, TooMuchMemory, SawFull
    <3>3. CASE SelectVictim(t)
      <4>1. pc[t] = "sample"
        BY <3>3 DEF SelectVictim
      <4> QED BY <4>1 DEF SawFull
    <3>5. CASE ContainsKey(t)
      <4>1. pc'[t] \in {"len", "now"}
        BY <1>3, <3>5 DEF ContainsKey
      <4> QED BY <4>1 DEF SawFull
    <3>4. CASE SubMemory(t) \/ RecordEviction(t) \/ ReadNow(t)
      BY <1>3, <3>4 DEF SubMemory, RecordEviction, ReadNow, SawFull
    <3> QED BY <1>7, <3>1, <3>2, <3>3, <3>4, <3>5
  <2>5. \A u \in Threads \ {t} : SawFull(u)' => SawFull(u)
    BY <2>1 DEF SawFull
  <2> QED BY <1>4, <2>1, <2>3, <2>4, <2>5
<1>8. ASSUME NEW t \in Threads, RemoveVictim(t) PROVE NeedlessInv'
  <2>1. /\ UNCHANGED <<overlaps, crossed, full>>
        /\ pc[t] = "remove" /\ pc'[t] \in {"sub", "metric", "now"}
        /\ \A u \in Threads \ {t} : pc'[u] = pc[u]
    BY <1>3, <1>8 DEF RemoveVictim
  <2>2. Deciding' = Deciding \ {t} /\ t \in Deciding
    BY <2>1 DEF Deciding
  <2>3. Cardinality(Deciding') = d - 1 /\ Cardinality(Deciding') \in Nat
    BY <1>0, <2>2, RemoveOne, FS_RemoveElement, FS_CardinalityType
  <2>4. CASE victim[t] \notin entries
    <3>1. UNCHANGED <<entries, needless>>
      BY <1>8, <2>4 DEF RemoveVictim
    <3> QED BY <1>0, <1>2, <1>5, <2>1, <2>3, <3>1
  <2>5. CASE victim[t] \in entries /\ n < m
    <3>1. needless' = needless + 1
      BY <1>8, <2>5 DEF RemoveVictim, BelowLimit
    <3>2. needless + d <= paid
      BY <1>2, <2>1, <2>5 DEF SawFull
    <3> QED BY <1>0, <1>5, <2>1, <2>3, <3>1, <3>2
  <2>6. CASE victim[t] \in entries /\ ~(n < m)
    <3>1. needless' = needless
      BY <1>0, <1>8, <2>6 DEF RemoveVictim, BelowLimit
    <3> QED BY <1>0, <1>2, <1>5, <2>1, <2>3, <3>1
  <2> QED BY <2>4, <2>5, <2>6
<1>9. ASSUME NEW t \in Threads, Access(t) PROVE NeedlessInv'
  <2>1. /\ UNCHANGED <<needless, overlaps, crossed, full>>
        /\ entries' = entries \cup {key[t]}
        /\ pc'[t] = "idle" /\ \A u \in Threads \ {t} : pc'[u] = pc[u]
    BY <1>3, <1>9 DEF Access
  <2>2. Deciding' \subseteq Deciding
    BY <2>1 DEF Deciding
  <2>3. IsFiniteSet(entries') /\ n <= n' /\ n' \in Nat
    BY <1>0, <2>1, FS_AddElement, FS_Subset, FS_CardinalityType
  <2>4. \A u \in Threads : SawFull(u)' => SawFull(u)
    BY <2>1 DEF SawFull
  <2> QED BY <1>0, <1>4, <2>1, <2>2, <2>3, <2>4
<1>10. ASSUME NEW t \in Threads, Cleanup(t) PROVE NeedlessInv'
  <2>1. /\ UNCHANGED <<needless, overlaps, pc, full>>
        /\ crossed' = IF Quiescent THEN crossed ELSE crossed + 1
    BY <1>10 DEF Cleanup
  <2>2. Deciding' = Deciding /\ \A u \in Threads : SawFull(u)' = SawFull(u)
    BY <2>1 DEF Deciding, SawFull
  <2>3. CASE Quiescent
    <3>1. \A u \in Threads : ~SawFull(u)
      BY <2>3 DEF SawFull, Quiescent
    <3> QED BY <1>4, <2>1, <2>2, <2>3, <3>1
  <2>4. CASE ~Quiescent
    <3>1. crossed' = crossed + 1 /\ Cardinality(Deciding)' = d
      BY <2>1, <2>2, <2>4
    <3> QED BY <1>0, <1>2, <1>5, <2>1, <3>1
  <2> QED BY <2>3, <2>4
<1> QED BY <1>6, <1>7, <1>8, <1>9, <1>10 DEF Next

\* However calls and cleanups overlap, the storage evicts from a map below its
\* entry limit at most once for each of them that overlapped another.
THEOREM EvictionsAreNeeded == Spec => []EvictionsNeeded
<1>1. Init => NeededInv
  <2> SUFFICES ASSUME Init PROVE NeedlessInv
    BY StorageInit DEF NeededInv
  <2>1. Deciding = {}
    BY DEF Init, Deciding
  <2>2. Cardinality(Deciding) = 0
    BY <2>1, FS_EmptySet
  <2>3. \A t \in Threads : ~SawFull(t)
    BY DEF Init, SawFull
  <2> QED BY <2>2, <2>3 DEF Init, NeedlessInv
<1>2. NeededInv /\ [Next]_vars => NeededInv'
  <2> SUFFICES ASSUME NeededInv, [Next]_vars PROVE NeededInv'
    OBVIOUS
  <2>1. StorageInv'
    BY StorageStep DEF NeededInv
  <2>2. eviction_policy' = eviction_policy
    BY DEF Next, vars
  <2>3. CASE Next
    BY <2>1, <2>2, <2>3, NeedlessStep DEF NeededInv
  <2>4. CASE UNCHANGED vars
    <3>1. NeedlessInv' = NeedlessInv
      BY <2>4 DEF vars, map, local, history, NeedlessInv, Deciding, SawFull
    <3> QED BY <2>1, <2>2, <3>1 DEF NeededInv
  <2> QED BY <2>3, <2>4
<1>3. NeededInv => EvictionsNeeded
  BY DEF NeededInv, NeedlessInv, EvictionsNeeded
<1> QED BY <1>1, <1>2, <1>3, PTL DEF Spec
=============================================================================
