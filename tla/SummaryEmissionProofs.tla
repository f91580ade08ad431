------------------------ MODULE SummaryEmissionProofs ------------------------
(***************************************************************************)
(* Proofs about SummaryEmission, for any signatures, agents and bounds,    *)
(* and about EmitterLifecycle, for any callers of shutdown.                *)
(***************************************************************************)
EXTENDS SummaryEmission, EmitterLifecycle, FiniteSetTheorems, TLAPS

\* The methods of the counter keep its type, and a claim has the claim's type.
LEMMA CounterOpsType ==
    ASSUME NEW S, NEW c \in Counter(S), NEW ts \in S
    PROVE  /\ NewCounter(ts) \in Counter(S)
           /\ AfterSuppression(c, ts) \in Counter(S)
           /\ AfterClaim(c) \in Counter(S)
           /\ ClaimOf(c) \in ClaimedSuppressions(S)
           /\ \A k \in ClaimedSuppressions(S) : AfterRollback(c, k) \in Counter(S)
<1>1. NewCounter(ts) \in Counter(S)
  BY DEF Counter, NewCounter
<1>2. AfterSuppression(c, ts) \in Counter(S)
  <2> DEFINE total == c.suppressed_count + 1
             first == IF c.suppressed_count = 0 THEN ts ELSE c.first_suppressed
             unreported == IF c.suppressed_count = c.reported_count
                              THEN ts ELSE c.first_unreported
             after == [c EXCEPT !.suppressed_count = total, !.first_suppressed = first,
                                !.first_unreported = unreported, !.last_suppressed = ts]
  <2>1. total \in Nat /\ first \in S /\ unreported \in S
    BY DEF Counter
  <2>2. AfterSuppression(c, ts) = after
    BY DEF AfterSuppression
  <2> HIDE DEF total, first, unreported
  <2>3. after \in Counter(S)
    BY <2>1 DEF Counter
  <2> QED BY <2>2, <2>3
<1>3. AfterClaim(c) \in Counter(S)
  BY DEF Counter, AfterClaim
<1>4. UnreportedCount(c) \in Nat
  BY DEF Counter, UnreportedCount, SaturatingSub
<1>5. ClaimOf(c) \in ClaimedSuppressions(S)
  BY <1>4 DEF Counter, ClaimedSuppressions, ClaimOf
<1>6. ASSUME NEW k \in ClaimedSuppressions(S) PROVE AfterRollback(c, k) \in Counter(S)
  BY DEF Counter, ClaimedSuppressions, AfterRollback
<1> QED
  BY <1>1, <1>2, <1>3, <1>5, <1>6

\* A pair of naturals is a stamp.
LEMMA StampType == \A m, n \in Nat : <<m, n>> \in Stamp
  BY DEF Stamp

\* Every variable keeps its type.
LEMMA TypeStep == TypeOK /\ [Next]_vars => TypeOK'
<1> SUFFICES ASSUME TypeOK, [Next]_vars PROVE TypeOK'
  OBVIOUS
<1> USE DEF TypeOK
<1>0. ASSUME NEW s \in Signatures
      PROVE  counter[s] \in Counter(Stamp) /\ epoch[s] \in Nat
             /\ counter[s].suppressed_count \in Nat
  BY DEF Counter
<1>1. ASSUME NEW s \in Signatures, RecordSuppression(s) PROVE TypeOK'
  <2>1. <<epoch[s], counter[s].suppressed_count + 1>> \in Stamp
    BY <1>0, StampType
  <2>2. AfterSuppression(counter[s], <<epoch[s], counter[s].suppressed_count + 1>>) \in Counter(Stamp)
    BY <2>1, <1>0, CounterOpsType
  <2> QED BY <2>2, <1>1 DEF RecordSuppression
<1>2. ASSUME NEW s \in Signatures, Evict(s) PROVE TypeOK'
  <2>0. <<epoch[s] + 1, 0>> \in Stamp
    BY <1>0, StampType
  <2>1. NewCounter(<<epoch[s] + 1, 0>>) \in Counter(Stamp)
    BY <2>0, <1>0, CounterOpsType, ZenonT(60)
  <2>2. counter' \in [Signatures -> Counter(Stamp)] /\ epoch' \in [Signatures -> Nat]
    BY <2>1, <1>0, <1>2 DEF Evict
  <2>3. /\ delivered' \in [Signatures -> SUBSET Nat]
        /\ shown' \in [Signatures -> SUBSET Nat]
    BY <1>2 DEF Evict
  <2>4. mark' \in [Emitters -> [Signatures -> Nat]]
    BY <1>2 DEF Evict
  <2> QED BY <2>2, <2>3, <2>4, <1>2 DEF Evict
<1>3. ASSUME NEW e \in Emitters, RequestShutdown(e) PROVE TypeOK'
  <2>1. mark' \in [Emitters -> [Signatures -> Nat]] /\ shutdown' \in [Emitters -> BOOLEAN]
    BY <1>3, <1>0 DEF RequestShutdown
  <2> QED BY <2>1, <1>3 DEF RequestShutdown
<1>4. ASSUME NEW e \in Emitters, PollSignal(e) \/ Tick(e) \/ Woken(e) PROVE TypeOK'
  <2>1. CASE PollSignal(e)
    BY <2>1 DEF PollSignal, Agents, Phase
  <2>2. CASE Tick(e)
    BY <2>2 DEF Tick, StartCollect, Agents, Phase
  <2>3. CASE Woken(e)
    BY <2>3 DEF Woken, Agents, Phase
  <2> QED BY <1>4, <2>1, <2>2, <2>3
<1>5. ASSUME NEW e \in Emitters, ShutdownBranch(e) PROVE TypeOK'
  BY <1>5 DEF ShutdownBranch, StartCollect, Agents, Phase
<1>6. ASSUME NEW a \in Collectors, CollectSummaries(a) PROVE TypeOK'
  BY <1>6 DEF CollectSummaries, StartCollect, Agents, Phase
<1>7. ASSUME NEW a \in Agents, NEW s \in Signatures, CollectVisit(a, s) PROVE TypeOK'
  <2>1. AfterClaim(counter[s]) \in Counter(Stamp)
    BY <1>0, StampType, CounterOpsType
  <2>2. ClaimOf(counter[s]) \in ClaimedSuppressions(Stamp)
    BY <1>0, StampType, CounterOpsType
  <2>3. [signature |-> s, epoch |-> epoch[s], claim |-> ClaimOf(counter[s])] \in ClaimedSummary
    BY <2>2, <1>0 DEF ClaimedSummary
  <2>4. CASE CanClaim(counter[s], MinCount)
    <3>1. counter' \in [Signatures -> Counter(Stamp)]
      BY <2>1, <2>4, <1>7 DEF CollectVisit
    <3>2. claims' \in [Agents -> SUBSET ClaimedSummary]
      BY <2>3, <2>4, <1>7 DEF CollectVisit
    <3>3. todo' \in [Agents -> SUBSET Signatures]
      BY <1>7 DEF CollectVisit
    <3> QED BY <3>1, <3>2, <3>3, <1>7 DEF CollectVisit
  <2>5. CASE ~CanClaim(counter[s], MinCount)
    BY <2>5, <1>7 DEF CollectVisit
  <2> QED BY <2>4, <2>5
<1>8. ASSUME NEW a \in Agents, EmitNothing(a) PROVE TypeOK'
  BY <1>8 DEF EmitNothing, AfterEmission, Phase
<1>9. ASSUME NEW a \in Agents, EmitOk(a) PROVE TypeOK'
  <2>1. \A s \in Signatures : PositionsIn(claims[a], s, epoch[s]) \in SUBSET Nat
    BY DEF PositionsIn, ClaimedPositions, ClaimedSummary, ClaimedSuppressions
  <2> QED BY <2>1, <1>9 DEF EmitOk, AfterEmission, Phase
<1>10. ASSUME NEW e \in Emitters, EmitPanic(e) PROVE TypeOK'
  <2>1. \A told \in SUBSET claims[e] : \A s \in Signatures :
          PositionsIn(told, s, epoch[s]) \in SUBSET Nat
    BY DEF PositionsIn, ClaimedPositions, ClaimedSummary, ClaimedSuppressions, Agents
  <2>2. shown' \in [Signatures -> SUBSET Nat]
    BY <2>1, <1>10 DEF EmitPanic
  <2>3. phase' \in [Agents -> Phase]
    BY <1>10 DEF EmitPanic, Agents, Phase
  <2> QED BY <2>2, <2>3, <1>10 DEF EmitPanic
<1>11. ASSUME NEW e \in Emitters, RollbackVisit(e) PROVE TypeOK'
  <2>1. e \in Agents
    BY DEF Agents
  <2>2. PICK c \in claims[e] :
          /\ counter' = [counter EXCEPT ![c.signature] = AfterRollback(@, c.claim)]
          /\ claims' = [claims EXCEPT ![e] = @ \ {c}]
          /\ phase' = [phase EXCEPT ![e] = IF claims[e] = {c} THEN AfterEmission(e) ELSE @]
    BY <1>11 DEF RollbackVisit
  <2>3. c \in ClaimedSummary
    BY <2>1
  <2>4. c.signature \in Signatures /\ c.claim \in ClaimedSuppressions(Stamp)
    BY <2>3 DEF ClaimedSummary
  <2>5. AfterRollback(counter[c.signature], c.claim) \in Counter(Stamp)
    BY <2>4, <1>0, StampType, CounterOpsType
  <2>6. counter' \in [Signatures -> Counter(Stamp)]
    BY <2>2, <2>4, <2>5
  <2>7. phase' \in [Agents -> Phase] /\ claims' \in [Agents -> SUBSET ClaimedSummary]
    BY <2>1, <2>2 DEF AfterEmission, Phase
  <2>8. UNCHANGED <<todo, final, shutdown, epoch, delivered, shown, mark>>
    BY <1>11 DEF RollbackVisit
  <2> QED BY <2>6, <2>7, <2>8
<1>12. CASE UNCHANGED vars
  BY <1>12 DEF vars
<1> QED
  BY <1>1, <1>2, <1>3, <1>4, <1>5, <1>6, <1>7, <1>8, <1>9, <1>10, <1>11, <1>12
  DEF Next, EmitterStep, CollectorStep, Agents
\* How the methods move the two counts.
LEMMA CounterOpsCounts ==
    ASSUME NEW S, NEW c \in Counter(S), NEW ts \in S
    PROVE  /\ c.suppressed_count \in Nat
           /\ c.reported_count \in Nat
           /\ NewCounter(ts).suppressed_count = 0
           /\ NewCounter(ts).reported_count = 0
           /\ AfterSuppression(c, ts).suppressed_count = c.suppressed_count + 1
           /\ AfterSuppression(c, ts).reported_count = c.reported_count
           /\ AfterClaim(c).suppressed_count = c.suppressed_count
           /\ AfterClaim(c).reported_count = c.suppressed_count
  BY DEF Counter, NewCounter, AfterSuppression, AfterClaim

\* A rollback moves the reported cursor to the start of the claim or leaves
\* the counter alone.
LEMMA RollbackCounts ==
    ASSUME NEW S, NEW c \in Counter(S), NEW k \in ClaimedSuppressions(S)
    PROVE  /\ AfterRollback(c, k).suppressed_count = c.suppressed_count
           /\ c.reported_count >= k.total_count =>
                 AfterRollback(c, k).reported_count = k.previous_reported_count
           /\ c.reported_count < k.total_count => AfterRollback(c, k) = c
  BY DEF Counter, ClaimedSuppressions, AfterRollback

\* A claim that claim_unreported grants is not empty.
LEMMA ClaimCounts ==
    ASSUME NEW S, NEW c \in Counter(S), CanClaim(c, MinCount)
    PROVE  /\ ClaimOf(c).previous_reported_count = c.reported_count
           /\ ClaimOf(c).total_count = c.suppressed_count
           /\ c.reported_count < c.suppressed_count
  BY MinCountAssumption DEF Counter, ClaimOf, CanClaim, UnreportedCount, SaturatingSub

\* A claim in an agent's hands has the parts of a claim.
LEMMA ClaimParts ==
    ASSUME TypeOK, NEW a \in Agents, NEW c \in claims[a]
    PROVE  /\ c.signature \in Signatures
           /\ c.epoch \in Nat
           /\ c.claim \in ClaimedSuppressions(Stamp)
           /\ c.claim.previous_reported_count \in Nat
           /\ c.claim.total_count \in Nat
  BY DEF TypeOK, ClaimedSummary, ClaimedSuppressions

\* The counts of an entry are naturals.
LEMMA EntryParts ==
    ASSUME TypeOK, NEW s \in Signatures
    PROVE  /\ counter[s] \in Counter(Stamp)
           /\ counter[s].suppressed_count \in Nat
           /\ counter[s].reported_count \in Nat
           /\ epoch[s] \in Nat
  BY DEF TypeOK, Counter

\* Effect of RecordSuppression on the counts.
LEMMA RecordEffect ==
    ASSUME TypeOK, NEW s \in Signatures, RecordSuppression(s)
    PROVE  /\ counter'[s].suppressed_count = counter[s].suppressed_count + 1
           /\ counter'[s].reported_count = counter[s].reported_count
           /\ \A t \in Signatures \ {s} : counter'[t] = counter[t]
<1>1. <<epoch[s], counter[s].suppressed_count + 1>> \in Stamp
  BY EntryParts, StampType
<1>2. counter'[s] = AfterSuppression(counter[s], <<epoch[s], counter[s].suppressed_count + 1>>)
  BY DEF RecordSuppression, TypeOK
<1>3. \A t \in Signatures \ {s} : counter'[t] = counter[t]
  BY DEF RecordSuppression, TypeOK
<1> QED BY <1>1, <1>2, <1>3, EntryParts, CounterOpsCounts

\* Effect of Evict on the counts.
LEMMA EvictEffect ==
    ASSUME TypeOK, NEW s \in Signatures, Evict(s)
    PROVE  /\ counter'[s].suppressed_count = 0
           /\ counter'[s].reported_count = 0
           /\ epoch'[s] = epoch[s] + 1
           /\ \A t \in Signatures \ {s} : counter'[t] = counter[t] /\ epoch'[t] = epoch[t]
<1>1. <<epoch[s] + 1, 0>> \in Stamp
  BY EntryParts, StampType
<1>2. counter'[s] = NewCounter(<<epoch[s] + 1, 0>>) /\ epoch'[s] = epoch[s] + 1
  BY DEF Evict, TypeOK
<1>3. \A t \in Signatures \ {s} : counter'[t] = counter[t] /\ epoch'[t] = epoch[t]
  BY DEF Evict, TypeOK
<1> QED BY <1>1, <1>2, <1>3, EntryParts, CounterOpsCounts

\* Effect of a visit that claims.
LEMMA VisitEffect ==
    ASSUME TypeOK, NEW a \in Agents, NEW s \in Signatures, CollectVisit(a, s),
           CanClaim(counter[s], MinCount)
    PROVE  \E c :
           /\ claims'[a] = claims[a] \cup {c}
           /\ \A b \in Agents \ {a} : claims'[b] = claims[b]
           /\ c.signature = s
           /\ c.epoch = epoch[s]
           /\ c.claim.previous_reported_count = counter[s].reported_count
           /\ c.claim.total_count = counter[s].suppressed_count
           /\ counter[s].reported_count < counter[s].suppressed_count
           /\ counter'[s].suppressed_count = counter[s].suppressed_count
           /\ counter'[s].reported_count = counter[s].suppressed_count
           /\ \A t \in Signatures \ {s} : counter'[t] = counter[t]
<1> DEFINE c == [signature |-> s, epoch |-> epoch[s], claim |-> ClaimOf(counter[s])]
<1>1. /\ claims'[a] = claims[a] \cup {c}
      /\ \A b \in Agents \ {a} : claims'[b] = claims[b]
  BY DEF CollectVisit, TypeOK
<1>2. counter'[s] = AfterClaim(counter[s])
  BY DEF CollectVisit, TypeOK
<1>3. \A t \in Signatures \ {s} : counter'[t] = counter[t]
  BY DEF CollectVisit, TypeOK
<1>4. /\ c.claim.previous_reported_count = counter[s].reported_count
      /\ c.claim.total_count = counter[s].suppressed_count
      /\ counter[s].reported_count < counter[s].suppressed_count
  BY EntryParts, ClaimCounts
<1>5. <<0, 0>> \in Stamp
  BY StampType
<1>6. /\ counter'[s].suppressed_count = counter[s].suppressed_count
      /\ counter'[s].reported_count = counter[s].suppressed_count
  BY <1>2, <1>5, EntryParts, CounterOpsCounts
<1>7. c.signature = s /\ c.epoch = epoch[s]
  OBVIOUS
<1> HIDE DEF c
<1> QED BY <1>1, <1>3, <1>4, <1>6, <1>7

\* Effect of one visit of a rollback.
LEMMA RollbackEffect ==
    ASSUME TypeOK, NEW e \in Emitters, RollbackVisit(e)
    PROVE  \E c \in claims[e] :
           /\ claims'[e] = claims[e] \ {c}
           /\ \A b \in Agents \ {e} : claims'[b] = claims[b]
           /\ counter'[c.signature].suppressed_count = counter[c.signature].suppressed_count
           /\ counter[c.signature].reported_count >= c.claim.total_count =>
                 counter'[c.signature].reported_count = c.claim.previous_reported_count
           /\ counter[c.signature].reported_count < c.claim.total_count =>
                 counter'[c.signature] = counter[c.signature]
           /\ \A t \in Signatures \ {c.signature} : counter'[t] = counter[t]
           /\ \A b \in Agents \ {e} : phase'[b] = phase[b]
           /\ phase'[e] = IF claims[e] = {c} THEN AfterEmission(e) ELSE phase[e]
<1>1. e \in Agents
  BY DEF Agents
<1>2. PICK c \in claims[e] :
        /\ counter' = [counter EXCEPT ![c.signature] = AfterRollback(@, c.claim)]
        /\ claims' = [claims EXCEPT ![e] = @ \ {c}]
        /\ phase' = [phase EXCEPT ![e] = IF claims[e] = {c} THEN AfterEmission(e) ELSE @]
  BY DEF RollbackVisit
<1>3. c.signature \in Signatures /\ c.claim \in ClaimedSuppressions(Stamp)
  BY <1>1, ClaimParts
<1>4. counter'[c.signature] = AfterRollback(counter[c.signature], c.claim)
  BY <1>2, <1>3 DEF TypeOK
<1>5. /\ counter'[c.signature].suppressed_count = counter[c.signature].suppressed_count
      /\ counter[c.signature].reported_count >= c.claim.total_count =>
            counter'[c.signature].reported_count = c.claim.previous_reported_count
      /\ counter[c.signature].reported_count < c.claim.total_count =>
            counter'[c.signature] = counter[c.signature]
  BY <1>3, <1>4, EntryParts, RollbackCounts
<1>6. \A t \in Signatures \ {c.signature} : counter'[t] = counter[t]
  BY <1>2 DEF TypeOK
<1>7. /\ claims'[e] = claims[e] \ {c}
      /\ \A b \in Agents \ {e} : claims'[b] = claims[b]
      /\ \A b \in Agents \ {e} : phase'[b] = phase[b]
      /\ phase'[e] = IF claims[e] = {c} THEN AfterEmission(e) ELSE phase[e]
  BY <1>1, <1>2 DEF TypeOK
<1> QED BY <1>5, <1>6, <1>7
\* SafetyInv is inductive.
LEMMA SafetyStep == SafetyInv /\ [Next]_vars => SafetyInv'
<1> SUFFICES ASSUME SafetyInv, [Next]_vars PROVE SafetyInv'
  OBVIOUS
<1>0. TypeOK /\ TypeOK' /\ ReportedWithinSuppressed /\ ClaimsWellFormed /\ WalkInv
  BY TypeStep DEF SafetyInv
<1> SUFFICES (ReportedWithinSuppressed /\ ClaimsWellFormed /\ WalkInv)'
  BY <1>0 DEF SafetyInv
<1> USE DEF ReportedWithinSuppressed, ClaimsWellFormed, WalkInv
<1>a. \A s \in Signatures : /\ counter[s].suppressed_count \in Nat
                            /\ counter[s].reported_count \in Nat
                            /\ epoch[s] \in Nat
  BY <1>0, EntryParts
<1>b. \A a \in Agents : \A c \in claims[a] :
        /\ c.signature \in Signatures
        /\ c.epoch \in Nat
        /\ c.claim.previous_reported_count \in Nat
        /\ c.claim.total_count \in Nat
  BY <1>0, ClaimParts
<1>1. ASSUME NEW s \in Signatures, RecordSuppression(s)
      PROVE  (ReportedWithinSuppressed /\ ClaimsWellFormed /\ WalkInv)'
  <2>1. UNCHANGED <<phase, todo, claims, epoch>>
    BY <1>1 DEF RecordSuppression
  <2>2. WalkInv'
    BY <1>0, <2>1
  <2>3. (ReportedWithinSuppressed /\ ClaimsWellFormed)'
    BY <1>0, <1>a, <1>b, <1>1, <2>1, RecordEffect
  <2> QED BY <2>2, <2>3
<1>2. ASSUME NEW s \in Signatures, Evict(s)
      PROVE  (ReportedWithinSuppressed /\ ClaimsWellFormed /\ WalkInv)'
  <2>1. UNCHANGED <<phase, todo, claims>>
    BY <1>2 DEF Evict
  <2>2. WalkInv'
    BY <1>0, <2>1
  <2>3. (ReportedWithinSuppressed /\ ClaimsWellFormed)'
    BY <1>0, <1>a, <1>b, <1>2, <2>1, EvictEffect
  <2> QED BY <2>2, <2>3
<1>3. ASSUME NEW e \in Emitters, RequestShutdown(e)
      PROVE  (ReportedWithinSuppressed /\ ClaimsWellFormed /\ WalkInv)'
  BY <1>0, <1>3 DEF RequestShutdown
<1>4. ASSUME NEW a \in Agents, phase[a] \in {"select", "tick"}, StartCollect(a)
      PROVE  (ReportedWithinSuppressed /\ ClaimsWellFormed /\ WalkInv)'
  BY <1>0, <1>4 DEF StartCollect, TypeOK
<1>5. ASSUME NEW e \in Emitters, ShutdownBranch(e), ~EmitFinal
      PROVE  (ReportedWithinSuppressed /\ ClaimsWellFormed /\ WalkInv)'
  BY <1>0, <1>5 DEF ShutdownBranch, TypeOK
<1>6. ASSUME NEW a \in Agents, NEW s \in Signatures, CollectVisit(a, s)
      PROVE  (ReportedWithinSuppressed /\ ClaimsWellFormed /\ WalkInv)'
  <2>0. /\ UNCHANGED <<phase, epoch>>
        /\ phase[a] = "collect" /\ s \in todo[a]
        /\ todo'[a] = todo[a] \ {s}
        /\ \A b \in Agents \ {a} : todo'[b] = todo[b]
    BY <1>0, <1>6 DEF CollectVisit, TypeOK
  <2>1. CASE ~CanClaim(counter[s], MinCount)
    <3>1. UNCHANGED <<claims, counter>>
      BY <1>6, <2>1 DEF CollectVisit
    <3> QED BY <1>0, <2>0, <3>1
  <2>2. CASE CanClaim(counter[s], MinCount)
    <3>1. PICK c :
           /\ claims'[a] = claims[a] \cup {c}
           /\ \A b \in Agents \ {a} : claims'[b] = claims[b]
           /\ c.signature = s
           /\ c.epoch = epoch[s]
           /\ c.claim.previous_reported_count = counter[s].reported_count
           /\ c.claim.total_count = counter[s].suppressed_count
           /\ counter[s].reported_count < counter[s].suppressed_count
           /\ counter'[s].suppressed_count = counter[s].suppressed_count
           /\ counter'[s].reported_count = counter[s].suppressed_count
           /\ \A t \in Signatures \ {s} : counter'[t] = counter[t]
      BY <1>0, <1>6, <2>2, VisitEffect
    <3>2. ReportedWithinSuppressed'
      BY <1>0, <1>a, <3>1
    <3>3. ClaimsWellFormed'
      BY <1>0, <1>a, <1>b, <2>0, <3>1
    <3>4. WalkInv'
      BY <1>0, <1>b, <2>0, <3>1
    <3> QED BY <3>2, <3>3, <3>4
  <2> QED BY <2>1, <2>2
<1>7. ASSUME NEW a \in Agents, EmitNothing(a)
      PROVE  (ReportedWithinSuppressed /\ ClaimsWellFormed /\ WalkInv)'
  BY <1>0, <1>7 DEF EmitNothing, AfterEmission, TypeOK
<1>8. ASSUME NEW a \in Agents, EmitOk(a)
      PROVE  (ReportedWithinSuppressed /\ ClaimsWellFormed /\ WalkInv)'
  BY <1>0, <1>8 DEF EmitOk, AfterEmission, TypeOK
<1>9. ASSUME NEW e \in Emitters, EmitPanic(e)
      PROVE  (ReportedWithinSuppressed /\ ClaimsWellFormed /\ WalkInv)'
  BY <1>0, <1>9 DEF EmitPanic, TypeOK
<1>10. ASSUME NEW e \in Emitters, RollbackVisit(e)
       PROVE  (ReportedWithinSuppressed /\ ClaimsWellFormed /\ WalkInv)'
  <2>1. e \in Agents /\ UNCHANGED <<todo, epoch>> /\ phase[e] = "rollback"
    BY <1>10 DEF Agents, RollbackVisit
  <2>2. PICK c \in claims[e] :
           /\ claims'[e] = claims[e] \ {c}
           /\ \A b \in Agents \ {e} : claims'[b] = claims[b]
           /\ counter'[c.signature].suppressed_count = counter[c.signature].suppressed_count
           /\ counter[c.signature].reported_count >= c.claim.total_count =>
                 counter'[c.signature].reported_count = c.claim.previous_reported_count
           /\ counter[c.signature].reported_count < c.claim.total_count =>
                 counter'[c.signature] = counter[c.signature]
           /\ \A t \in Signatures \ {c.signature} : counter'[t] = counter[t]
           /\ \A b \in Agents \ {e} : phase'[b] = phase[b]
           /\ phase'[e] = IF claims[e] = {c} THEN AfterEmission(e) ELSE phase[e]
    BY <1>0, <1>10, RollbackEffect
  <2>3. ReportedWithinSuppressed'
    BY <1>0, <1>a, <1>b, <2>1, <2>2
  <2>4. \A t \in Signatures : counter'[t].suppressed_count = counter[t].suppressed_count
    BY <2>2
  <2>5. \A b \in Agents : claims'[b] \subseteq claims[b]
    BY <2>2
  <2>6. ClaimsWellFormed'
    BY <1>0, <1>b, <2>1, <2>4, <2>5
  <2>7. WalkInv'
    BY <1>0, <2>1, <2>2 DEF AfterEmission
  <2> QED BY <2>3, <2>6, <2>7
<1>11. CASE UNCHANGED vars
  BY <1>0, <1>11 DEF vars
<1>12. ASSUME NEW e \in Emitters, EmitterStep(e)
       PROVE  (ReportedWithinSuppressed /\ ClaimsWellFormed /\ WalkInv)'
  <2>1. e \in Agents
    BY DEF Agents
  <2>2. CASE Tick(e)
    BY <1>4, <2>1, <2>2 DEF Tick
  <2>3. CASE ShutdownBranch(e)
    BY <1>4, <1>5, <2>1, <2>3 DEF ShutdownBranch
  <2>4. CASE PollSignal(e) \/ Woken(e)
    BY <1>0, <2>1, <2>4 DEF PollSignal, Woken, TypeOK
  <2> QED BY <1>6, <1>7, <1>8, <1>9, <1>10, <1>12, <2>1, <2>2, <2>3, <2>4 DEF EmitterStep
<1>13. ASSUME NEW a \in Collectors, CollectorStep(a)
       PROVE  (ReportedWithinSuppressed /\ ClaimsWellFormed /\ WalkInv)'
  <2>1. a \in Agents
    BY DEF Agents
  <2>2. CASE CollectSummaries(a)
    BY <1>4, <2>1, <2>2 DEF CollectSummaries
  <2> QED BY <1>6, <1>7, <1>8, <1>13, <2>1, <2>2 DEF CollectorStep
<1> QED BY <1>1, <1>2, <1>3, <1>11, <1>12, <1>13 DEF Next
\* Every variable keeps its type in every behaviour.
THEOREM TypeCorrect == Spec => []TypeOK
<1>1. Init => TypeOK
  <2> SUFFICES ASSUME Init PROVE TypeOK
    OBVIOUS
  <2>1. <<0, 0>> \in Stamp
    BY StampType
  <2>2. NewCounter(<<0, 0>>) \in Counter(Stamp)
    BY <2>1 DEF NewCounter, Counter
  <2> QED BY <2>2 DEF Init, TypeOK, Phase
<1> QED BY <1>1, TypeStep, PTL DEF Spec

\* SafetyInv holds initially.
LEMMA SafetyInit == Init => SafetyInv
<1> SUFFICES ASSUME Init PROVE SafetyInv
  OBVIOUS
<1>1. <<0, 0>> \in Stamp
  BY StampType
<1>2. NewCounter(<<0, 0>>) \in Counter(Stamp)
  BY <1>1 DEF NewCounter, Counter
<1>3. TypeOK
  BY <1>2 DEF Init, TypeOK, Phase
<1>4. ReportedWithinSuppressed
  BY DEF Init, ReportedWithinSuppressed, NewCounter
<1> QED BY <1>3, <1>4 DEF Init, SafetyInv, ClaimsWellFormed, WalkInv

\* No counter ever reports more than it counted, whoever claims and rolls back.
THEOREM ReportedBounded == Spec => []ReportedWithinSuppressed
<1>1. SafetyInv => ReportedWithinSuppressed
  BY DEF SafetyInv
<1> QED BY <1>1, SafetyInit, SafetyStep, PTL DEF Spec

\* Membership in the positions that a set of claims holds, spelled out.
LEMMA PositionsIff ==
    ASSUME NEW cs \in SUBSET ClaimedSummary, NEW s, NEW ep, NEW i \in Nat
    PROVE  i \in PositionsIn(cs, s, ep) <=>
             \E c \in cs : /\ c.signature = s
                           /\ c.epoch = ep
                           /\ c.claim.previous_reported_count < i
                           /\ i <= c.claim.total_count
<1>1. \A c \in cs : /\ c.claim.previous_reported_count \in Nat
                    /\ c.claim.total_count \in Nat
  BY DEF ClaimedSummary, ClaimedSuppressions
<1>2. \A c \in cs : i \in ClaimedPositions(c) <=> /\ c.claim.previous_reported_count < i
                                               /\ i <= c.claim.total_count
  BY <1>1 DEF ClaimedPositions
<1>3. i \in PositionsIn(cs, s, ep) <=>
        \E c \in cs : /\ c.signature = s
                      /\ c.epoch = ep
                      /\ i \in ClaimedPositions(c)
  BY DEF PositionsIn
<1> QED BY <1>2, <1>3

\* With a single emitter the reported cursor cannot fall below a claim that
\* may still be rolled back.
LEMMA ReachStep ==
    ASSUME SingleEmitter, SafetyInv, RollbacksReach, [Next]_vars
    PROVE  RollbacksReach'
<1>0. TypeOK /\ ReportedWithinSuppressed /\ ClaimsWellFormed /\ WalkInv
  BY DEF SafetyInv
<1>a. \A s \in Signatures : /\ counter[s].suppressed_count \in Nat
                            /\ counter[s].reported_count \in Nat
                            /\ epoch[s] \in Nat
  BY <1>0, EntryParts
<1>b. \A a \in Agents : \A c \in claims[a] :
        /\ c.signature \in Signatures
        /\ c.epoch \in Nat
        /\ c.claim.total_count \in Nat
  BY <1>0, ClaimParts
<1>c. Emitters \subseteq Agents
  BY DEF Agents
<1> USE DEF RollbacksReach
<1>1. ASSUME NEW s \in Signatures, RecordSuppression(s) PROVE RollbacksReach'
  <2>1. UNCHANGED <<claims, epoch>>
    BY <1>1 DEF RecordSuppression
  <2>2. \A t \in Signatures : counter'[t].reported_count = counter[t].reported_count
    BY <1>0, <1>1, RecordEffect
  <2> QED BY <1>b, <1>c, <2>1, <2>2
<1>2. ASSUME NEW s \in Signatures, Evict(s) PROVE RollbacksReach'
  <2>1. UNCHANGED claims
    BY <1>2 DEF Evict
  <2>2. /\ epoch'[s] = epoch[s] + 1
        /\ \A t \in Signatures \ {s} : counter'[t] = counter[t] /\ epoch'[t] = epoch[t]
    BY <1>0, <1>2, EvictEffect
  <2>3. \A e \in Emitters : \A c \in claims[e] : c.signature = s => c.epoch # epoch'[s]
    BY <1>0, <1>a, <1>b, <1>c, <2>2 DEF ClaimsWellFormed
  <2> QED BY <1>b, <1>c, <2>1, <2>2, <2>3
<1>3. ASSUME UNCHANGED <<counter, claims, epoch>> PROVE RollbacksReach'
  BY <1>3
<1>4. ASSUME NEW a \in Agents, NEW s \in Signatures, CollectVisit(a, s) PROVE RollbacksReach'
  <2>0. UNCHANGED epoch
    BY <1>4 DEF CollectVisit
  <2>1. CASE ~CanClaim(counter[s], MinCount)
    BY <1>3, <1>4, <2>0, <2>1 DEF CollectVisit
  <2>2. CASE CanClaim(counter[s], MinCount)
    <3>1. PICK c :
           /\ claims'[a] = claims[a] \cup {c}
           /\ \A b \in Agents \ {a} : claims'[b] = claims[b]
           /\ c.signature = s
           /\ c.epoch = epoch[s]
           /\ c.claim.previous_reported_count = counter[s].reported_count
           /\ c.claim.total_count = counter[s].suppressed_count
           /\ counter[s].reported_count < counter[s].suppressed_count
           /\ counter'[s].suppressed_count = counter[s].suppressed_count
           /\ counter'[s].reported_count = counter[s].suppressed_count
           /\ \A t \in Signatures \ {s} : counter'[t] = counter[t]
      BY <1>0, <1>4, <2>2, VisitEffect
    <3> QED BY <1>a, <1>b, <1>c, <2>0, <3>1
  <2> QED BY <2>1, <2>2
<1>5. ASSUME NEW a \in Agents, EmitOk(a) PROVE RollbacksReach'
  BY <1>0, <1>5, <1>c DEF EmitOk, TypeOK
<1>6. ASSUME NEW e \in Emitters, RollbackVisit(e) PROVE RollbacksReach'
  <2>1. UNCHANGED epoch
    BY <1>6 DEF RollbackVisit
  <2>2. PICK c \in claims[e] :
           /\ claims'[e] = claims[e] \ {c}
           /\ \A t \in Signatures \ {c.signature} : counter'[t] = counter[t]
    BY <1>0, <1>6, RollbackEffect
  <2>3. \A d \in claims'[e] : d \in claims[e] /\ d.signature # c.signature
    BY <1>0, <1>c, <2>2 DEF WalkInv
  <2> QED BY <1>b, <1>c, <2>1, <2>2, <2>3 DEF SingleEmitter
<1>7. ASSUME NEW e \in Emitters, EmitterStep(e) PROVE RollbacksReach'
  <2>1. CASE Tick(e)
    BY <1>3, <2>1 DEF Tick, StartCollect
  <2>2. CASE ShutdownBranch(e)
    BY <1>3, <2>2 DEF ShutdownBranch, StartCollect
  <2>3. CASE PollSignal(e) \/ Woken(e) \/ EmitNothing(e) \/ EmitPanic(e)
    BY <1>3, <2>3 DEF PollSignal, Woken, EmitNothing, EmitPanic
  <2> QED BY <1>4, <1>5, <1>6, <1>7, <1>c, <2>1, <2>2, <2>3 DEF EmitterStep
<1>8. ASSUME NEW a \in Collectors, CollectorStep(a) PROVE RollbacksReach'
  <2>1. CASE CollectSummaries(a) \/ EmitNothing(a)
    BY <1>3, <2>1 DEF CollectSummaries, StartCollect, EmitNothing
  <2> QED BY <1>4, <1>5, <1>8, <2>1 DEF CollectorStep, Agents
<1>9. ASSUME NEW e \in Emitters, RequestShutdown(e) PROVE RollbacksReach'
  BY <1>3, <1>9 DEF RequestShutdown
<1>10. CASE UNCHANGED vars
  BY <1>3, <1>10 DEF vars
<1> QED BY <1>1, <1>2, <1>7, <1>8, <1>9, <1>10 DEF Next
\* No step loses a suppression while rollbacks reach their claims.
LEMMA LossStep ==
    ASSUME SafetyInv, RollbacksReach, NoSuppressionLost, [Next]_vars
    PROVE  NoSuppressionLost'
<1>0. TypeOK /\ TypeOK' /\ ReportedWithinSuppressed /\ ClaimsWellFormed /\ WalkInv
  BY TypeStep DEF SafetyInv
<1>a. \A s \in Signatures : /\ counter[s].suppressed_count \in Nat
                            /\ counter[s].reported_count \in Nat
                            /\ epoch[s] \in Nat
  BY <1>0, EntryParts
<1>b. \A a \in Agents : \A c \in claims[a] :
        /\ c.signature \in Signatures
        /\ c.epoch \in Nat
        /\ c.claim.previous_reported_count \in Nat
        /\ c.claim.total_count \in Nat
  BY <1>0, ClaimParts
<1>c. Emitters \subseteq Agents
  BY DEF Agents
<1> DEFINE Holds(c, s, ep, i) == /\ c.signature = s
                                 /\ c.epoch = ep
                                 /\ c.claim.previous_reported_count < i
                                 /\ i <= c.claim.total_count
<1>d. \A s \in Signatures : \A i \in Nat :
        i \in InFlight(s) <=> \E a \in Agents : \E c \in claims[a] : Holds(c, s, epoch[s], i)
  <2>1. \A a \in Agents : claims[a] \in SUBSET ClaimedSummary
    BY <1>0 DEF TypeOK
  <2>2. \A s \in Signatures : \A i \in Nat : \A a \in Agents :
          i \in PositionsIn(claims[a], s, epoch[s]) <=>
              \E c \in claims[a] : Holds(c, s, epoch[s], i)
    BY <2>1, PositionsIff
  <2> QED BY <2>2 DEF InFlight
<1>e. \A s \in Signatures : \A i \in Nat :
        i \in InFlight(s)' <=> \E a \in Agents : \E c \in claims'[a] : Holds(c, s, epoch'[s], i)
  <2>1. \A a \in Agents : claims'[a] \in SUBSET ClaimedSummary
    BY <1>0 DEF TypeOK
  <2>2. \A s \in Signatures : \A i \in Nat : \A a \in Agents :
          i \in PositionsIn(claims'[a], s, epoch'[s]) <=>
              \E c \in claims'[a] : Holds(c, s, epoch'[s], i)
    BY <2>1, PositionsIff
  <2> QED BY <2>2 DEF InFlight
<1> HIDE DEF Holds
<1>f. \A s \in Signatures : \A i \in 1 .. counter[s].reported_count :
        i \in Nat /\ (i \in delivered[s] \/ i \in InFlight(s))
  BY <1>a DEF NoSuppressionLost
<1>g. SUFFICES ASSUME NEW t \in Signatures, NEW i \in 1 .. counter'[t].reported_count, i \in Nat
               PROVE  i \in delivered'[t] \/ i \in InFlight(t)'
  <2>1. \A s \in Signatures : counter'[s].reported_count \in Nat
    BY <1>0 DEF TypeOK, Counter
  <2> QED BY <2>1 DEF NoSuppressionLost
<1>1. ASSUME NEW s \in Signatures, RecordSuppression(s)
      PROVE  i \in delivered'[t] \/ i \in InFlight(t)'
  <2>1. UNCHANGED <<claims, epoch, delivered>>
    BY <1>1 DEF RecordSuppression
  <2>2. counter'[t].reported_count = counter[t].reported_count
    BY <1>0, <1>1, RecordEffect
  <2> QED BY <1>d, <1>e, <1>f, <2>1, <2>2
<1>2. ASSUME NEW s \in Signatures, Evict(s)
      PROVE  i \in delivered'[t] \/ i \in InFlight(t)'
  <2>1. UNCHANGED claims /\ (t # s => delivered'[t] = delivered[t])
    BY <1>0, <1>2 DEF Evict, TypeOK
  <2>2. /\ counter'[s].reported_count = 0
        /\ t # s => counter'[t] = counter[t] /\ epoch'[t] = epoch[t]
    BY <1>0, <1>2, EvictEffect
  <2>3. t # s
    BY <1>g, <2>2
  <2> QED BY <1>d, <1>e, <1>f, <2>1, <2>2, <2>3
<1>3. ASSUME UNCHANGED <<counter, claims, epoch, delivered>>
      PROVE  i \in delivered'[t] \/ i \in InFlight(t)'
  BY <1>d, <1>e, <1>f, <1>3
<1>4. ASSUME NEW a \in Agents, NEW s \in Signatures, CollectVisit(a, s)
      PROVE  i \in delivered'[t] \/ i \in InFlight(t)'
  <2>0. UNCHANGED <<epoch, delivered>>
    BY <1>4 DEF CollectVisit
  <2>1. CASE ~CanClaim(counter[s], MinCount)
    BY <1>3, <1>4, <2>0, <2>1 DEF CollectVisit
  <2>2. CASE CanClaim(counter[s], MinCount)
    <3>1. PICK c :
           /\ claims'[a] = claims[a] \cup {c}
           /\ \A b \in Agents \ {a} : claims'[b] = claims[b]
           /\ c.signature = s
           /\ c.epoch = epoch[s]
           /\ c.claim.previous_reported_count = counter[s].reported_count
           /\ c.claim.total_count = counter[s].suppressed_count
           /\ counter[s].reported_count < counter[s].suppressed_count
           /\ counter'[s].suppressed_count = counter[s].suppressed_count
           /\ counter'[s].reported_count = counter[s].suppressed_count
           /\ \A u \in Signatures \ {s} : counter'[u] = counter[u]
      BY <1>0, <1>4, <2>2, VisitEffect
    <3>2. \A b \in Agents : claims[b] \subseteq claims'[b]
      BY <3>1
    <3>3. CASE i \in 1 .. counter[t].reported_count
      BY <1>d, <1>e, <1>f, <2>0, <3>2, <3>3
    <3>4. CASE i \notin 1 .. counter[t].reported_count
      <4>1. t = s /\ counter[s].reported_count < i /\ i <= counter[s].suppressed_count
        BY <1>a, <1>g, <3>1, <3>4
      <4>2. c \in claims'[a] /\ Holds(c, t, epoch'[t], i)
        BY <2>0, <3>1, <4>1 DEF Holds
      <4> QED BY <1>e, <4>2
    <3> QED BY <3>3, <3>4
  <2> QED BY <2>1, <2>2
<1>5. ASSUME NEW a \in Agents, EmitOk(a)
      PROVE  i \in delivered'[t] \/ i \in InFlight(t)'
  <2>1. /\ UNCHANGED <<counter, epoch>>
        /\ \A b \in Agents \ {a} : claims'[b] = claims[b]
        /\ delivered'[t] = delivered[t] \cup PositionsIn(claims[a], t, epoch[t])
    BY <1>0, <1>5 DEF EmitOk, TypeOK
  <2>2. CASE i \in delivered[t]
    BY <2>1, <2>2
  <2>3. CASE i \notin delivered[t]
    <3>1. PICK b \in Agents : \E c \in claims[b] : Holds(c, t, epoch[t], i)
      BY <1>d, <1>f, <2>1, <2>3
    <3>2. CASE b = a
      <4>1. claims[a] \in SUBSET ClaimedSummary
        BY <1>0 DEF TypeOK
      <4>2. i \in PositionsIn(claims[a], t, epoch[t])
        BY <3>1, <3>2, <4>1, PositionsIff DEF Holds
      <4> QED BY <2>1, <4>2
    <3>3. CASE b # a
      BY <1>e, <2>1, <3>1, <3>3
    <3> QED BY <3>2, <3>3
  <2> QED BY <2>2, <2>3
<1>6. ASSUME NEW e \in Emitters, RollbackVisit(e)
      PROVE  i \in delivered'[t] \/ i \in InFlight(t)'
  <2>1. UNCHANGED <<epoch, delivered>>
    BY <1>6 DEF RollbackVisit
  <2>2. PICK c \in claims[e] :
           /\ claims'[e] = claims[e] \ {c}
           /\ \A b \in Agents \ {e} : claims'[b] = claims[b]
           /\ counter[c.signature].reported_count >= c.claim.total_count =>
                 counter'[c.signature].reported_count = c.claim.previous_reported_count
           /\ counter[c.signature].reported_count < c.claim.total_count =>
                 counter'[c.signature] = counter[c.signature]
           /\ \A u \in Signatures \ {c.signature} : counter'[u] = counter[u]
    BY <1>0, <1>6, RollbackEffect
  <2>3. /\ c.signature \in Signatures
        /\ c.claim.previous_reported_count \in Nat
        /\ c.claim.total_count \in Nat
        /\ c.claim.previous_reported_count < c.claim.total_count
    BY <1>0, <1>b, <1>c DEF ClaimsWellFormed
  <2>4. ~Holds(c, t, epoch[t], i)
    <3> SUFFICES ASSUME Holds(c, t, epoch[t], i) PROVE FALSE
      OBVIOUS
    <3>1. counter[t].reported_count >= c.claim.total_count
      BY <1>a, <1>c, <2>3 DEF Holds, RollbacksReach
    <3>2. counter'[t].reported_count = c.claim.previous_reported_count
      BY <2>2, <3>1 DEF Holds
    <3> QED BY <1>g, <2>3, <3>2 DEF Holds
  <2>5. i \in 1 .. counter[t].reported_count
    BY <1>a, <1>g, <2>2, <2>3
  <2>6. CASE i \in delivered[t]
    BY <2>1, <2>6
  <2>7. CASE i \notin delivered[t]
    <3>0. PICK b \in Agents : \E d \in claims[b] : Holds(d, t, epoch[t], i)
      BY <1>d, <1>f, <2>5, <2>7
    <3>1. PICK d \in claims[b] : Holds(d, t, epoch[t], i)
      BY <3>0
    <3>2. d \in claims'[b]
      BY <1>c, <2>2, <2>4, <3>1
    <3> QED BY <1>e, <2>1, <3>1, <3>2
  <2> QED BY <2>6, <2>7
<1>7. ASSUME NEW e \in Emitters, EmitterStep(e)
      PROVE  i \in delivered'[t] \/ i \in InFlight(t)'
  <2>1. CASE Tick(e)
    BY <1>3, <2>1 DEF Tick, StartCollect
  <2>2. CASE ShutdownBranch(e)
    BY <1>3, <2>2 DEF ShutdownBranch, StartCollect
  <2>3. CASE PollSignal(e) \/ Woken(e) \/ EmitNothing(e) \/ EmitPanic(e)
    BY <1>3, <2>3 DEF PollSignal, Woken, EmitNothing, EmitPanic
  <2> QED BY <1>4, <1>5, <1>6, <1>7, <1>c, <2>1, <2>2, <2>3 DEF EmitterStep
<1>8. ASSUME NEW a \in Collectors, CollectorStep(a)
      PROVE  i \in delivered'[t] \/ i \in InFlight(t)'
  <2>1. CASE CollectSummaries(a) \/ EmitNothing(a)
    BY <1>3, <2>1 DEF CollectSummaries, StartCollect, EmitNothing
  <2> QED BY <1>4, <1>5, <1>8, <2>1 DEF CollectorStep, Agents
<1>9. ASSUME NEW e \in Emitters, RequestShutdown(e)
      PROVE  i \in delivered'[t] \/ i \in InFlight(t)'
  BY <1>3, <1>9 DEF RequestShutdown
<1>10. CASE UNCHANGED vars
  BY <1>3, <1>10 DEF vars
<1> QED BY <1>1, <1>2, <1>7, <1>8, <1>9, <1>10 DEF Next

\* With one emitter task, and any number of collect_summaries callers and
\* evictions, no suppression that a counter calls reported is ever lost.
THEOREM NothingLost == SingleEmitter => (Spec => []NoSuppressionLost)
<1> SUFFICES ASSUME SingleEmitter PROVE Spec => []NoSuppressionLost
  OBVIOUS
<1>1. Init => LossInv
  <2> SUFFICES ASSUME Init PROVE RollbacksReach /\ NoSuppressionLost
    BY SafetyInit DEF LossInv
  <2>1. RollbacksReach
    BY DEF Init, RollbacksReach, Agents
  <2>2. \A s \in Signatures : counter[s].reported_count = 0
    BY DEF Init, NewCounter
  <2>3. NoSuppressionLost
    BY <2>2 DEF NoSuppressionLost
  <2> QED BY <2>1, <2>3
<1>2. LossInv /\ [Next]_vars => LossInv'
  BY SafetyStep, ReachStep, LossStep DEF LossInv
<1>3. LossInv => NoSuppressionLost
  BY DEF LossInv
<1> QED BY <1>1, <1>2, <1>3, PTL DEF Spec

\* How the methods move the stamp cursors.
LEMMA CounterOpsStamps ==
    ASSUME NEW S, NEW c \in Counter(S), NEW ts \in S
    PROVE  /\ AfterSuppression(c, ts).last_suppressed = ts
           /\ AfterSuppression(c, ts).first_unreported =
                 IF c.suppressed_count = c.reported_count THEN ts ELSE c.first_unreported
           /\ AfterClaim(c).last_suppressed = c.last_suppressed
           /\ ClaimOf(c).first_suppressed = c.first_unreported
           /\ ClaimOf(c).last_suppressed = c.last_suppressed
           /\ c.reported_count <= c.suppressed_count =>
                 ClaimOf(c).count = c.suppressed_count - c.reported_count
           /\ \A k \in ClaimedSuppressions(S) :
                 /\ AfterRollback(c, k).last_suppressed = c.last_suppressed
                 /\ c.reported_count >= k.total_count =>
                       AfterRollback(c, k).first_unreported = k.first_suppressed
<1>1. c.suppressed_count \in Nat /\ c.reported_count \in Nat
  BY DEF Counter
<1>2. /\ AfterSuppression(c, ts).last_suppressed = ts
      /\ AfterSuppression(c, ts).first_unreported =
            IF c.suppressed_count = c.reported_count THEN ts ELSE c.first_unreported
  BY DEF Counter, AfterSuppression
<1>3. c.reported_count <= c.suppressed_count =>
         ClaimOf(c).count = c.suppressed_count - c.reported_count
  BY <1>1 DEF ClaimOf, UnreportedCount, SaturatingSub
<1>4. /\ AfterClaim(c).last_suppressed = c.last_suppressed
      /\ ClaimOf(c).first_suppressed = c.first_unreported
      /\ ClaimOf(c).last_suppressed = c.last_suppressed
  BY DEF Counter, AfterClaim, ClaimOf
<1>5. ASSUME NEW k \in ClaimedSuppressions(S)
      PROVE  /\ AfterRollback(c, k).last_suppressed = c.last_suppressed
             /\ c.reported_count >= k.total_count =>
                   AfterRollback(c, k).first_unreported = k.first_suppressed
  <2>1. k.total_count \in Nat
    BY DEF ClaimedSuppressions
  <2> QED BY <1>1, <2>1 DEF Counter, AfterRollback
<1> QED BY <1>2, <1>3, <1>4, <1>5

\* The stamps a recorded suppression leaves in its entry.
LEMMA RecordStamps ==
    ASSUME TypeOK, NEW s \in Signatures, RecordSuppression(s)
    PROVE  LET ts == <<epoch[s], counter[s].suppressed_count + 1>>
           IN  /\ counter'[s].last_suppressed = ts
               /\ counter'[s].first_unreported =
                     IF counter[s].suppressed_count = counter[s].reported_count
                        THEN ts ELSE counter[s].first_unreported
<1>1. <<epoch[s], counter[s].suppressed_count + 1>> \in Stamp
  BY EntryParts, StampType
<1>2. counter'[s] = AfterSuppression(counter[s], <<epoch[s], counter[s].suppressed_count + 1>>)
  BY DEF RecordSuppression, TypeOK
<1> QED BY <1>1, <1>2, EntryParts, CounterOpsStamps

\* The claim a visit takes carries the cursors of the entry.
LEMMA VisitStamps ==
    ASSUME TypeOK, ReportedWithinSuppressed, NEW a \in Agents, NEW s \in Signatures,
           CollectVisit(a, s), CanClaim(counter[s], MinCount)
    PROVE  /\ counter'[s].last_suppressed = counter[s].last_suppressed
           /\ \A b \in Agents : \A c \in claims'[b] : c \in claims[b] \/
                 /\ b = a
                 /\ c.epoch = epoch[s]
                 /\ c.claim.previous_reported_count = counter[s].reported_count
                 /\ c.claim.total_count = counter[s].suppressed_count
                 /\ c.claim.count = counter[s].suppressed_count - counter[s].reported_count
                 /\ c.claim.first_suppressed = counter[s].first_unreported
                 /\ c.claim.last_suppressed = counter[s].last_suppressed
<1> DEFINE k == [signature |-> s, epoch |-> epoch[s], claim |-> ClaimOf(counter[s])]
<1>1. /\ claims'[a] = claims[a] \cup {k}
      /\ \A b \in Agents \ {a} : claims'[b] = claims[b]
  BY DEF CollectVisit, TypeOK
<1>2. counter'[s] = AfterClaim(counter[s])
  BY DEF CollectVisit, TypeOK
<1>3. <<0, 0>> \in Stamp
  BY StampType
<1>4. /\ counter'[s].last_suppressed = counter[s].last_suppressed
      /\ k.claim.first_suppressed = counter[s].first_unreported
      /\ k.claim.last_suppressed = counter[s].last_suppressed
      /\ k.claim.count = counter[s].suppressed_count - counter[s].reported_count
  BY <1>2, <1>3, EntryParts, CounterOpsStamps DEF ReportedWithinSuppressed
<1>5. /\ k.claim.previous_reported_count = counter[s].reported_count
      /\ k.claim.total_count = counter[s].suppressed_count
  BY EntryParts, ClaimCounts
<1>6. k.epoch = epoch[s]
  OBVIOUS
<1> HIDE DEF k
<1> QED BY <1>1, <1>4, <1>5, <1>6

\* What rolling a claim back does to its entry: the cursors return to the
\* start of the claim, or nothing changes.
LEMMA RollbackStamps ==
    ASSUME TypeOK, NEW e \in Emitters, RollbackVisit(e)
    PROVE  \E c \in claims[e] :
           /\ claims'[e] = claims[e] \ {c}
           /\ \A b \in Agents \ {e} : claims'[b] = claims[b]
           /\ counter'[c.signature].suppressed_count = counter[c.signature].suppressed_count
           /\ counter'[c.signature].last_suppressed = counter[c.signature].last_suppressed
           /\ counter[c.signature].reported_count >= c.claim.total_count =>
                 /\ counter'[c.signature].reported_count = c.claim.previous_reported_count
                 /\ counter'[c.signature].first_unreported = c.claim.first_suppressed
           /\ counter[c.signature].reported_count < c.claim.total_count => counter' = counter
           /\ \A t \in Signatures \ {c.signature} : counter'[t] = counter[t]
           /\ phase'[e] = IF claims[e] = {c} THEN AfterEmission(e) ELSE phase[e]
<1>1. e \in Agents
  BY DEF Agents
<1>2. PICK c \in claims[e] :
        /\ counter' = [counter EXCEPT ![c.signature] = AfterRollback(@, c.claim)]
        /\ claims' = [claims EXCEPT ![e] = @ \ {c}]
        /\ phase' = [phase EXCEPT ![e] = IF claims[e] = {c} THEN AfterEmission(e) ELSE @]
  BY DEF RollbackVisit
<1>3. c.signature \in Signatures /\ c.claim \in ClaimedSuppressions(Stamp)
  BY <1>1, ClaimParts
<1>4. counter'[c.signature] = AfterRollback(counter[c.signature], c.claim)
  BY <1>2, <1>3 DEF TypeOK
<1>5. /\ counter'[c.signature].suppressed_count = counter[c.signature].suppressed_count
      /\ counter[c.signature].reported_count >= c.claim.total_count =>
            counter'[c.signature].reported_count = c.claim.previous_reported_count
      /\ counter[c.signature].reported_count < c.claim.total_count =>
            counter'[c.signature] = counter[c.signature]
  BY <1>3, <1>4, EntryParts, RollbackCounts
<1>6. <<0, 0>> \in Stamp
  BY StampType
<1>7. /\ counter'[c.signature].last_suppressed = counter[c.signature].last_suppressed
      /\ counter[c.signature].reported_count >= c.claim.total_count =>
            counter'[c.signature].first_unreported = c.claim.first_suppressed
  BY <1>3, <1>4, <1>6, EntryParts, CounterOpsStamps
<1>8. \A t \in Signatures \ {c.signature} : counter'[t] = counter[t]
  BY <1>2 DEF TypeOK
<1>9. counter[c.signature].reported_count < c.claim.total_count => counter' = counter
  BY <1>2, <1>4, <1>5 DEF TypeOK
<1>10. /\ claims'[e] = claims[e] \ {c}
       /\ \A b \in Agents \ {e} : claims'[b] = claims[b]
       /\ phase'[e] = IF claims[e] = {c} THEN AfterEmission(e) ELSE phase[e]
  BY <1>1, <1>2 DEF TypeOK
<1> QED BY <1>5, <1>7, <1>8, <1>9, <1>10

\* SoleInv is inductive when one agent does all the claiming.
LEMMA SoleStep == ASSUME SoleAgent, SoleInv, [Next]_vars PROVE SoleInv'
<1>0. /\ TypeOK /\ TypeOK' /\ ReportedWithinSuppressed /\ ClaimsWellFormed /\ WalkInv
      /\ ClaimsReported /\ StaleClaimsInert /\ DeliveredBelow
      /\ CursorsMatchCounts /\ SummarySpansItsSuppressions
  BY TypeStep DEF SoleInv, LossInv, SafetyInv
<1>1. LossInv'
  <2>1. SingleEmitter
    BY DEF SoleAgent, SingleEmitter, Agents
  <2> QED BY <2>1, SafetyStep, ReachStep, LossStep DEF SoleInv, LossInv
<1>a. \A s \in Signatures : /\ counter[s].suppressed_count \in Nat
                            /\ counter[s].reported_count \in Nat
                            /\ epoch[s] \in Nat
                            /\ delivered[s] \in SUBSET Nat
  BY <1>0, EntryParts DEF TypeOK
<1>b. \A a \in Agents : \A c \in claims[a] :
        /\ c.signature \in Signatures
        /\ c.epoch \in Nat
        /\ c.claim.previous_reported_count \in Nat
        /\ c.claim.total_count \in Nat
  BY <1>0, ClaimParts
<1>c. Emitters \subseteq Agents /\ Collectors \subseteq Agents
  BY DEF Agents
<1> SUFFICES (/\ ClaimsReported /\ StaleClaimsInert /\ DeliveredBelow
              /\ CursorsMatchCounts /\ SummarySpansItsSuppressions)'
  BY <1>1 DEF SoleInv
<1> USE DEF ClaimsReported, StaleClaimsInert, DeliveredBelow,
            CursorsMatchCounts, SummarySpansItsSuppressions
<1> DEFINE Rest == /\ ClaimsReported /\ StaleClaimsInert /\ DeliveredBelow
                   /\ CursorsMatchCounts /\ SummarySpansItsSuppressions
<1>2. ASSUME NEW s \in Signatures, RecordSuppression(s) PROVE Rest'
  <2>1. UNCHANGED <<claims, epoch, delivered>>
    BY <1>2 DEF RecordSuppression
  <2>2. /\ counter'[s].suppressed_count = counter[s].suppressed_count + 1
        /\ counter'[s].reported_count = counter[s].reported_count
        /\ \A t \in Signatures \ {s} : counter'[t] = counter[t]
    BY <1>0, <1>2, RecordEffect
  <2>3. /\ counter'[s].last_suppressed = <<epoch[s], counter[s].suppressed_count + 1>>
        /\ counter'[s].first_unreported =
              IF counter[s].suppressed_count = counter[s].reported_count
                 THEN <<epoch[s], counter[s].suppressed_count + 1>> ELSE counter[s].first_unreported
    BY <1>0, <1>2, RecordStamps
  <2>4. \A t \in Signatures : counter'[t].reported_count = counter[t].reported_count
    BY <2>2
  <2>5. (ClaimsReported /\ StaleClaimsInert)'
    BY <1>0, <1>b, <2>1, <2>4
  <2>6. DeliveredBelow'
    BY <1>0, <2>1, <2>4
  <2>7. CursorsMatchCounts'
    <3> SUFFICES ASSUME NEW t \in Signatures
                 PROVE  /\ counter'[t].suppressed_count > 0 =>
                             counter'[t].last_suppressed = <<epoch[t], counter'[t].suppressed_count>>
                        /\ counter'[t].reported_count < counter'[t].suppressed_count =>
                             counter'[t].first_unreported = <<epoch[t], counter'[t].reported_count + 1>>
      BY <2>1
    <3>1. CASE t = s
      <4>1. counter[s].reported_count <= counter[s].suppressed_count
        BY <1>0 DEF ReportedWithinSuppressed
      <4>2. CASE counter[s].suppressed_count = counter[s].reported_count
        BY <1>a, <2>2, <2>3, <3>1, <4>2
      <4>3. CASE counter[s].suppressed_count # counter[s].reported_count
        BY <1>0, <1>a, <2>2, <2>3, <3>1, <4>1, <4>3
      <4> QED BY <4>2, <4>3
    <3>2. CASE t # s
      BY <1>0, <2>2, <3>2
    <3> QED BY <3>1, <3>2
  <2>8. SummarySpansItsSuppressions'
    BY <1>0, <2>1
  <2> QED BY <2>5, <2>6, <2>7, <2>8
<1>3. ASSUME NEW s \in Signatures, Evict(s) PROVE Rest'
  <2>1. /\ UNCHANGED claims
        /\ delivered'[s] = {}
        /\ \A t \in Signatures \ {s} : delivered'[t] = delivered[t]
    BY <1>0, <1>3 DEF Evict, TypeOK
  <2>2. /\ counter'[s].suppressed_count = 0
        /\ counter'[s].reported_count = 0
        /\ epoch'[s] = epoch[s] + 1
        /\ \A t \in Signatures \ {s} : counter'[t] = counter[t] /\ epoch'[t] = epoch[t]
    BY <1>0, <1>3, EvictEffect
  <2>3. \A a \in Agents : \A c \in claims[a] : c.signature = s => c.epoch # epoch'[s]
    BY <1>0, <1>a, <1>b, <2>2 DEF ClaimsWellFormed
  <2>4. (ClaimsReported /\ StaleClaimsInert)'
    BY <1>0, <1>b, <2>1, <2>2, <2>3
  <2>5. DeliveredBelow'
    BY <1>0, <2>1, <2>2
  <2>6. (CursorsMatchCounts /\ SummarySpansItsSuppressions)'
    BY <1>0, <2>1, <2>2
  <2> QED BY <2>4, <2>5, <2>6
<1>4. ASSUME UNCHANGED <<counter, claims, epoch, delivered>> PROVE Rest'
  BY <1>0, <1>4
<1>5. ASSUME NEW a \in Agents, NEW s \in Signatures, CollectVisit(a, s) PROVE Rest'
  <2>0. UNCHANGED <<epoch, delivered>> /\ s \in todo[a]
    BY <1>5 DEF CollectVisit
  <2>1. CASE ~CanClaim(counter[s], MinCount)
    BY <1>4, <1>5, <2>0, <2>1 DEF CollectVisit
  <2>2. CASE CanClaim(counter[s], MinCount)
    <3>1. PICK c :
           /\ claims'[a] = claims[a] \cup {c}
           /\ \A b \in Agents \ {a} : claims'[b] = claims[b]
           /\ c.signature = s
           /\ c.epoch = epoch[s]
           /\ c.claim.previous_reported_count = counter[s].reported_count
           /\ c.claim.total_count = counter[s].suppressed_count
           /\ counter[s].reported_count < counter[s].suppressed_count
           /\ counter'[s].suppressed_count = counter[s].suppressed_count
           /\ counter'[s].reported_count = counter[s].suppressed_count
           /\ \A t \in Signatures \ {s} : counter'[t] = counter[t]
      BY <1>0, <1>5, <2>2, VisitEffect
    <3>2. \A b \in Agents : \A d \in claims[b] : d.signature # s
      BY <1>0, <2>0 DEF WalkInv, SoleAgent
    <3>3. \A b \in Agents : \A d \in claims'[b] : d \in claims[b] \/ d = c
      BY <3>1
    <3>4. (ClaimsReported /\ StaleClaimsInert)'
      BY <1>0, <1>a, <1>b, <2>0, <3>1, <3>2, <3>3
    <3>5. DeliveredBelow'
      <4> SUFFICES ASSUME NEW t \in Signatures, NEW i \in delivered[t]
                   PROVE  /\ i \in 1 .. counter'[t].reported_count
                          /\ \A b \in Agents : \A d \in claims'[b] :
                               d.signature = t /\ d.epoch = epoch[t] =>
                                   i <= d.claim.previous_reported_count
        BY <2>0
      <4>1. i \in 1 .. counter[t].reported_count /\ i \in Nat
        BY <1>0, <1>a
      <4>2. i \in 1 .. counter'[t].reported_count
        BY <1>a, <3>1, <4>1
      <4> QED BY <1>0, <1>a, <3>1, <3>3, <4>1, <4>2
    <3>6. /\ counter'[s].last_suppressed = counter[s].last_suppressed
          /\ \A b \in Agents : \A d \in claims'[b] : d \in claims[b] \/
                 /\ b = a
                 /\ d.epoch = epoch[s]
                 /\ d.claim.previous_reported_count = counter[s].reported_count
                 /\ d.claim.total_count = counter[s].suppressed_count
                 /\ d.claim.count = counter[s].suppressed_count - counter[s].reported_count
                 /\ d.claim.first_suppressed = counter[s].first_unreported
                 /\ d.claim.last_suppressed = counter[s].last_suppressed
      BY <1>0, <1>5, <2>2, VisitStamps
    <3>7. CursorsMatchCounts'
      BY <1>0, <1>a, <2>0, <3>1, <3>6
    <3>8. /\ counter[s].last_suppressed = <<epoch[s], counter[s].suppressed_count>>
          /\ counter[s].first_unreported = <<epoch[s], counter[s].reported_count + 1>>
      BY <1>0, <1>a, <3>1
    <3>9. SummarySpansItsSuppressions'
      BY <1>0, <3>6, <3>8
    <3> QED BY <3>4, <3>5, <3>7, <3>9
  <2> QED BY <2>1, <2>2
<1>6. ASSUME NEW a \in Agents, EmitOk(a) PROVE Rest'
  <2>1. /\ UNCHANGED <<counter, epoch>>
        /\ claims'[a] = {}
        /\ \A b \in Agents \ {a} : claims'[b] = claims[b]
        /\ \A t \in Signatures :
             delivered'[t] = delivered[t] \cup PositionsIn(claims[a], t, epoch[t])
    BY <1>0, <1>6 DEF EmitOk, TypeOK
  <2>2. \A b \in Agents : claims'[b] = {}
    BY <2>1 DEF SoleAgent
  <2>3. (ClaimsReported /\ StaleClaimsInert /\ CursorsMatchCounts /\ SummarySpansItsSuppressions)'
    BY <1>0, <2>1, <2>2
  <2>4. ASSUME NEW t \in Signatures, NEW i \in delivered'[t]
        PROVE  i \in 1 .. counter[t].reported_count
    <3>1. CASE i \in delivered[t]
      BY <1>0, <3>1
    <3>2. CASE i \in PositionsIn(claims[a], t, epoch[t])
      <4>0. claims[a] \in SUBSET ClaimedSummary /\ i \in Nat
        BY <1>0 DEF TypeOK
      <4>1. PICK c \in claims[a] : /\ c.signature = t
                                   /\ c.epoch = epoch[t]
                                   /\ c.claim.previous_reported_count < i
                                   /\ i <= c.claim.total_count
        BY <3>2, <4>0, PositionsIff
      <4>2. c.claim.total_count <= counter[t].reported_count
        BY <1>0, <4>1
      <4> QED BY <1>a, <1>b, <4>0, <4>1, <4>2
    <3> QED BY <2>1, <2>4, <3>1, <3>2
  <2> QED BY <2>1, <2>2, <2>3, <2>4
<1>7. ASSUME NEW e \in Emitters, RollbackVisit(e) PROVE Rest'
  <2>1. UNCHANGED <<epoch, delivered>>
    BY <1>7 DEF RollbackVisit
  <2>2. PICK c \in claims[e] :
           /\ claims'[e] = claims[e] \ {c}
           /\ \A b \in Agents \ {e} : claims'[b] = claims[b]
           /\ counter'[c.signature].suppressed_count = counter[c.signature].suppressed_count
           /\ counter'[c.signature].last_suppressed = counter[c.signature].last_suppressed
           /\ counter[c.signature].reported_count >= c.claim.total_count =>
                 /\ counter'[c.signature].reported_count = c.claim.previous_reported_count
                 /\ counter'[c.signature].first_unreported = c.claim.first_suppressed
           /\ counter[c.signature].reported_count < c.claim.total_count => counter' = counter
           /\ \A t \in Signatures \ {c.signature} : counter'[t] = counter[t]
    BY <1>0, <1>7, RollbackStamps
  <2>3. /\ \A b \in Agents : b = e
        /\ e \in Agents
        /\ \A d \in claims'[e] : d \in claims[e] /\ d.signature # c.signature
    BY <1>0, <1>c, <2>2 DEF WalkInv, SoleAgent
  <2>4. CASE c.epoch # epoch[c.signature]
    <3>1. counter' = counter
      BY <1>0, <1>a, <1>b, <2>2, <2>3, <2>4 DEF ClaimsWellFormed
    <3> QED BY <1>0, <2>1, <2>3, <3>1
  <2>5. CASE c.epoch = epoch[c.signature]
    <3>0. c.signature \in Signatures
      BY <1>b, <2>3
    <3>1. /\ counter'[c.signature].reported_count = c.claim.previous_reported_count
          /\ counter'[c.signature].first_unreported =
                <<epoch[c.signature], c.claim.previous_reported_count + 1>>
      BY <1>0, <1>a, <1>b, <2>2, <2>3, <2>5, <3>0
    <3>2. (ClaimsReported /\ StaleClaimsInert)'
      BY <1>0, <1>b, <2>1, <2>2, <2>3
    <3>3. DeliveredBelow'
      <4> SUFFICES ASSUME NEW t \in Signatures, NEW i \in delivered[t]
                   PROVE  /\ i \in 1 .. counter'[t].reported_count
                          /\ \A d \in claims'[e] : d.signature = t /\ d.epoch = epoch[t] =>
                                i <= d.claim.previous_reported_count
        BY <2>1, <2>3
      <4>1. i \in 1 .. counter'[t].reported_count
        <5>1. CASE t = c.signature
          BY <1>0, <1>a, <1>b, <2>3, <2>5, <3>1, <5>1
        <5>2. CASE t # c.signature
          BY <1>0, <2>2, <5>2
        <5> QED BY <5>1, <5>2
      <4> QED BY <1>0, <2>3, <4>1
    <3>4. CursorsMatchCounts'
      BY <1>0, <2>1, <2>2, <3>1
    <3>5. SummarySpansItsSuppressions'
      BY <1>0, <2>3
    <3> QED BY <3>2, <3>3, <3>4, <3>5
  <2> QED BY <2>4, <2>5
<1>8. ASSUME NEW e \in Emitters, EmitterStep(e) PROVE Rest'
  <2>1. CASE Tick(e)
    BY <1>4, <2>1 DEF Tick, StartCollect
  <2>2. CASE ShutdownBranch(e)
    BY <1>4, <2>2 DEF ShutdownBranch, StartCollect
  <2>3. CASE PollSignal(e) \/ Woken(e) \/ EmitNothing(e) \/ EmitPanic(e)
    BY <1>4, <2>3 DEF PollSignal, Woken, EmitNothing, EmitPanic
  <2> HIDE DEF Rest
  <2> QED BY <1>5, <1>6, <1>7, <1>8, <1>c, <2>1, <2>2, <2>3 DEF EmitterStep
<1>9. ASSUME NEW a \in Collectors, CollectorStep(a) PROVE Rest'
  <2>1. CASE CollectSummaries(a) \/ EmitNothing(a)
    BY <1>4, <2>1 DEF CollectSummaries, StartCollect, EmitNothing
  <2> HIDE DEF Rest
  <2> QED BY <1>5, <1>6, <1>9, <1>c, <2>1 DEF CollectorStep
<1>10. ASSUME NEW e \in Emitters, RequestShutdown(e) PROVE Rest'
  BY <1>4, <1>10 DEF RequestShutdown
<1>11. ASSUME UNCHANGED vars PROVE Rest'
  BY <1>4, <1>11 DEF vars
<1>12. Rest'
  <2> HIDE DEF Rest
  <2> QED BY <1>2, <1>3, <1>8, <1>9, <1>10, <1>11 DEF Next
<1> QED BY <1>12

\* SoleInv holds initially.
LEMMA SoleInit == Init => SoleInv
<1> SUFFICES ASSUME Init PROVE SoleInv
  OBVIOUS
<1>1. SafetyInv
  BY SafetyInit
<1>2. \A a \in Agents : claims[a] = {}
  BY DEF Init
<1>3. \A s \in Signatures : /\ counter[s].reported_count = 0
                            /\ counter[s].suppressed_count = 0
                            /\ delivered[s] = {}
  BY DEF Init, NewCounter
<1>4. RollbacksReach /\ NoSuppressionLost
  BY <1>2, <1>3 DEF RollbacksReach, NoSuppressionLost, Agents
<1> QED BY <1>1, <1>2, <1>3, <1>4
    DEF SoleInv, LossInv, ClaimsReported, StaleClaimsInert, DeliveredBelow,
        CursorsMatchCounts, SummarySpansItsSuppressions

\* With a sole claimant what a consumed batch reported is never emitted again,
\* whatever panics, rollbacks and evictions happen: none of it is in a claim or
\* left to be claimed.
THEOREM DeliveredOnce == SoleAgent => (Spec => []NoDuplicateDelivery)
<1> SUFFICES ASSUME SoleAgent PROVE Spec => []NoDuplicateDelivery
  OBVIOUS
<1>1. SoleInv => NoDuplicateDelivery
  <2> SUFFICES ASSUME SoleInv, NEW s \in Signatures, NEW i \in delivered[s],
                      \/ i \in InFlight(s)
                      \/ i \in (counter[s].reported_count + 1) .. counter[s].suppressed_count
               PROVE  FALSE
    BY DEF NoDuplicateDelivery
  <2>0. TypeOK /\ DeliveredBelow
    BY DEF SoleInv, LossInv, SafetyInv
  <2>1. i \in InFlight(s)
    <3>1. i \in 1 .. counter[s].reported_count
      BY <2>0 DEF DeliveredBelow
    <3> QED BY <2>0, <3>1, EntryParts
  <2>2. PICK a \in Agents : i \in PositionsIn(claims[a], s, epoch[s])
    BY <2>1 DEF InFlight
  <2>3. claims[a] \in SUBSET ClaimedSummary /\ i \in Nat
    BY <2>0 DEF TypeOK
  <2>4. PICK c \in claims[a] : /\ c.signature = s
                               /\ c.epoch = epoch[s]
                               /\ c.claim.previous_reported_count < i
    BY <2>2, <2>3, PositionsIff
  <2>5. c.claim.previous_reported_count \in Nat
    BY <2>0, ClaimParts
  <2> QED BY <2>0, <2>3, <2>4, <2>5 DEF DeliveredBelow
<1> QED BY <1>1, SoleInit, SoleStep, PTL DEF Spec

\* With a sole claimant the count and the stamps of every summary are those of
\* the suppressions it took, rolled back or not.
THEOREM SummariesDescribe == SoleAgent => (Spec => []SummarySpansItsSuppressions)
<1> SUFFICES ASSUME SoleAgent PROVE Spec => []SummarySpansItsSuppressions
  OBVIOUS
<1>1. SoleInv => SummarySpansItsSuppressions
  BY DEF SoleInv
<1> QED BY <1>1, SoleInit, SoleStep, PTL DEF Spec

\* An initial segment of the positions and its size.
LEMMA Segment ==
    ASSUME NEW m \in Nat, NEW n \in Nat, m <= n
    PROVE  Cardinality((m + 1) .. n) = n - m
<1>1. m + 1 \in Int /\ n \in Int
  OBVIOUS
<1>2. Cardinality((m + 1) .. n) = IF m + 1 > n THEN 0 ELSE n - (m + 1) + 1
  BY <1>1, FS_Interval
<1> QED BY <1>2

LEMMA LedgerHolds == SoleAgent /\ SoleInv => Ledger
<1> SUFFICES ASSUME SoleAgent, SoleInv PROVE Ledger
  OBVIOUS
<1>0. /\ TypeOK /\ ReportedWithinSuppressed /\ ClaimsWellFormed /\ WalkInv
      /\ NoSuppressionLost /\ ClaimsReported /\ DeliveredBelow
  BY DEF SoleInv, LossInv, SafetyInv
<1> SUFFICES ASSUME NEW s \in Signatures
             PROVE  /\ Cardinality(delivered[s]) \in 0 .. counter[s].reported_count
                    /\ delivered[s] = 1 .. Cardinality(delivered[s])
                    /\ ClaimedOf(s) = counter[s].reported_count - Cardinality(delivered[s])
                    /\ UnreportedCount(counter[s]) =
                          counter[s].suppressed_count - counter[s].reported_count
                    /\ \A a \in Agents : \A c \in claims[a] :
                          c.signature = s /\ c.epoch = epoch[s] =>
                              /\ c.claim.previous_reported_count = Cardinality(delivered[s])
                              /\ c.claim.total_count = counter[s].reported_count
                    /\ (\A a \in Agents : \A c \in claims[a] :
                            ~(c.signature = s /\ c.epoch = epoch[s])) =>
                          Cardinality(delivered[s]) = counter[s].reported_count
  BY DEF Ledger
<1> DEFINE rep == counter[s].reported_count
           Open(c) == c.signature = s /\ c.epoch = epoch[s]
<1>a. /\ counter[s].suppressed_count \in Nat /\ rep \in Nat /\ epoch[s] \in Nat
      /\ rep <= counter[s].suppressed_count
      /\ delivered[s] \in SUBSET Nat
  BY <1>0, EntryParts DEF TypeOK, ReportedWithinSuppressed
<1>b. \A a \in Agents : \A c \in claims[a] :
        /\ c.claim.previous_reported_count \in Nat
        /\ c.claim.total_count \in Nat
        /\ c.claim.previous_reported_count < c.claim.total_count
        /\ Open(c) => c.claim.total_count <= rep
  BY <1>0, ClaimParts DEF ClaimsWellFormed, ClaimsReported
<1>c. \A i \in Nat : i \in InFlight(s) <=>
        \E a \in Agents : \E c \in claims[a] : /\ Open(c)
                                               /\ c.claim.previous_reported_count < i
                                               /\ i <= c.claim.total_count
  <2>1. \A a \in Agents : claims[a] \in SUBSET ClaimedSummary
    BY <1>0 DEF TypeOK
  <2>2. \A i \in Nat : \A a \in Agents :
          i \in PositionsIn(claims[a], s, epoch[s]) <=>
              \E c \in claims[a] : /\ Open(c)
                                   /\ c.claim.previous_reported_count < i
                                   /\ i <= c.claim.total_count
    BY <2>1, PositionsIff
  <2> QED BY <2>2 DEF InFlight
<1>d. InFlight(s) \subseteq Nat
  BY <1>0 DEF InFlight, PositionsIn, ClaimedPositions, TypeOK, ClaimedSummary, ClaimedSuppressions
<1>e. \A i \in 1 .. rep : i \in delivered[s] \/ i \in InFlight(s)
  BY <1>0 DEF NoSuppressionLost
<1>f. \A i \in delivered[s] :
        /\ i \in 1 .. rep
        /\ \A a \in Agents : \A c \in claims[a] : Open(c) => i <= c.claim.previous_reported_count
  BY <1>0 DEF DeliveredBelow
<1>1. UnreportedCount(counter[s]) = counter[s].suppressed_count - rep
  BY <1>a DEF UnreportedCount, SaturatingSub
<1>2. CASE \A a \in Agents : \A c \in claims[a] : ~Open(c)
  <2>1. InFlight(s) = {}
    BY <1>c, <1>d, <1>2
  <2>2. delivered[s] = 1 .. rep
    BY <1>e, <1>f, <2>1
  <2>3. Cardinality(1 .. rep) = rep
    <3>1. Cardinality((0 + 1) .. rep) = rep - 0
      BY <1>a, Segment
    <3> QED BY <1>a, <3>1
  <2>4. ClaimedOf(s) = 0
    BY <2>1, FS_EmptySet DEF ClaimedOf
  <2> QED BY <1>1, <1>2, <1>a, <2>2, <2>3, <2>4
<1>3. ASSUME NEW a \in Agents, NEW c \in claims[a], Open(c)
      PROVE  /\ delivered[s] = 1 .. c.claim.previous_reported_count
             /\ InFlight(s) = (c.claim.previous_reported_count + 1) .. rep
             /\ c.claim.total_count = rep
  <2> DEFINE prev == c.claim.previous_reported_count
  <2>1. \A b \in Agents : \A d \in claims[b] : Open(d) => d = c
    BY <1>0, <1>3 DEF WalkInv, SoleAgent
  <2>2. \A i \in Nat : i \in InFlight(s) <=> prev < i /\ i <= c.claim.total_count
    BY <1>3, <1>c, <2>1
  <2>3. \A i \in delivered[s] : i \in 1 .. rep /\ i <= prev
    BY <1>3, <1>f
  <2>4. c.claim.total_count = rep
    <3>1. prev < c.claim.total_count /\ c.claim.total_count <= rep /\ prev \in Nat
          /\ c.claim.total_count \in Nat
      BY <1>3, <1>b
    <3>2. rep \in delivered[s] \/ rep \in InFlight(s)
      BY <1>a, <1>e, <3>1
    <3> QED BY <1>a, <2>2, <2>3, <3>1, <3>2
  <2>a. prev \in Nat /\ prev < rep
    BY <1>3, <1>b, <2>4
  <2>5. InFlight(s) = (prev + 1) .. rep
    <3>1. \A i \in Nat : i \in InFlight(s) <=> prev < i /\ i <= rep
      BY <2>2, <2>4
    <3> HIDE DEF prev, rep
    <3>2. \A i : i \in (prev + 1) .. rep <=> i \in Nat /\ prev < i /\ i <= rep
      BY <1>a, <2>a
    <3> QED BY <1>d, <3>1, <3>2
  <2>6. delivered[s] = 1 .. prev
    <3> HIDE DEF prev
    <3>1. \A i \in 1 .. prev : i \in 1 .. rep /\ i \notin InFlight(s)
      BY <1>a, <2>a, <2>5
    <3>2. \A i \in delivered[s] : i \in 1 .. prev
      BY <1>a, <2>3, <2>a
    <3> QED BY <1>e, <3>1, <3>2
  <2> QED BY <2>4, <2>5, <2>6
<1>4. CASE \E a \in Agents : \E c \in claims[a] : Open(c)
  <2>1. PICK a \in Agents : \E c \in claims[a] : Open(c)
    BY <1>4
  <2>2. PICK c \in claims[a] : Open(c)
    BY <2>1
  <2> DEFINE prev == c.claim.previous_reported_count
  <2>3. delivered[s] = 1 .. prev /\ InFlight(s) = (prev + 1) .. rep /\ c.claim.total_count = rep
    BY <1>3, <2>2
  <2>4. prev \in Nat /\ prev < rep
    BY <1>b, <2>2, <2>3
  <2>5. Cardinality(1 .. prev) = prev /\ Cardinality((prev + 1) .. rep) = rep - prev
    <3> HIDE DEF prev, rep
    <3>1. rep \in Nat /\ prev \in Nat /\ prev <= rep
      BY <1>a, <2>4
    <3>2. Cardinality((prev + 1) .. rep) = rep - prev
      BY <3>1, Segment
    <3>3. Cardinality((0 + 1) .. prev) = prev - 0
      BY <3>1, Segment
    <3>4. 0 + 1 = 1 /\ prev - 0 = prev
      BY <3>1
    <3> QED BY <3>2, <3>3, <3>4
  <2>6. \A b \in Agents : \A d \in claims[b] : Open(d) => d = c
    BY <1>0, <2>2 DEF WalkInv, SoleAgent
  <2>7. Cardinality(delivered[s]) = prev /\ ClaimedOf(s) = rep - prev
    BY <2>3, <2>5 DEF ClaimedOf
  <2> HIDE DEF prev
  <2>8. \A b \in Agents : \A d \in claims[b] : Open(d) =>
           d.claim.previous_reported_count = prev /\ d.claim.total_count = rep
    BY <2>3, <2>6 DEF prev
  <2> QED BY <1>1, <1>4, <1>a, <2>3, <2>4, <2>7, <2>8
<1> QED BY <1>2, <1>4

\* SeenInv holds initially.
LEMMA SeenInit == Init => SeenInv
<1> SUFFICES ASSUME Init PROVE SeenInv
  OBVIOUS
<1>1. \A s \in Signatures : /\ counter[s].suppressed_count = 0
                            /\ delivered[s] \cup shown[s] = {}
  BY DEF Init, NewCounter
<1>2. \A a \in Agents : claims[a] = {}
  BY DEF Init
<1>3. 1 .. 0 = {} /\ 0 \in 0 .. 0
  OBVIOUS
<1> QED BY <1>1, <1>2, <1>3 DEF SeenInv

\* What a batch adds to what has been seen of an entry: everything up to the
\* reported cursor if it holds an open claim on the entry, else nothing.
LEMMA BatchCovers ==
    ASSUME SoleAgent, SoleInv, SeenInv, NEW a \in Agents, NEW s \in Signatures,
           NEW told \in SUBSET claims[a]
    PROVE  LET rep == counter[s].reported_count
               open == \E c \in told : c.signature = s /\ c.epoch = epoch[s]
               seen == delivered[s] \cup shown[s]
           IN  /\ open => /\ seen \cup PositionsIn(told, s, epoch[s]) = 1 .. rep
                          /\ ClaimedOf(s) > 0
               /\ ~open => PositionsIn(told, s, epoch[s]) = {}
<1>0. TypeOK /\ WalkInv /\ ClaimsWellFormed
  BY DEF SoleInv, LossInv, SafetyInv
<1>1. Ledger
  BY LedgerHolds
<1>2. told \in SUBSET ClaimedSummary
  BY <1>0 DEF TypeOK
<1>3. CASE ~\E c \in told : c.signature = s /\ c.epoch = epoch[s]
  BY <1>3 DEF PositionsIn
<1>4. ASSUME NEW c \in told, c.signature = s, c.epoch = epoch[s]
      PROVE  /\ (delivered[s] \cup shown[s]) \cup PositionsIn(told, s, epoch[s])
                    = 1 .. counter[s].reported_count
             /\ ClaimedOf(s) > 0
  <2> DEFINE rep == counter[s].reported_count
             prev == c.claim.previous_reported_count
  <2>1. /\ delivered[s] = 1 .. prev
        /\ c.claim.total_count = rep
        /\ prev \in Nat /\ rep \in Nat /\ prev < rep
        /\ ClaimedOf(s) = rep - prev
    <3>1. c \in claims[a] /\ a \in Agents
      BY <1>4
    <3>2. prev = Cardinality(delivered[s]) /\ c.claim.total_count = rep
      BY <1>1, <1>4, <3>1 DEF Ledger
    <3>3. prev < c.claim.total_count /\ prev \in Nat /\ rep \in Nat
      BY <1>0, <3>1, ClaimParts, EntryParts DEF ClaimsWellFormed
    <3> QED BY <1>1, <3>2, <3>3 DEF Ledger
  <2>2. PICK k \in 0 .. counter[s].suppressed_count :
          delivered[s] \cup shown[s] = 1 .. k /\ k <= rep
    BY <1>4, <2>1 DEF SeenInv
  <2>3. k \in Nat
    BY <1>0, <2>2, EntryParts
  <2>4. \A d \in told : d.signature = s => d = c
    BY <1>0, <1>4 DEF WalkInv
  <2>5. \A i \in Nat : i \in PositionsIn(told, s, epoch[s]) <=> prev < i /\ i <= rep
    BY <1>2, <1>4, <2>1, <2>4, PositionsIff
  <2>6. PositionsIn(told, s, epoch[s]) \subseteq Nat
    BY <1>2 DEF PositionsIn, ClaimedPositions, ClaimedSummary, ClaimedSuppressions
  <2> DEFINE P == PositionsIn(told, s, epoch[s])
  <2> HIDE DEF prev, rep, P
  <2>7. P = (prev + 1) .. rep
    <3>1. prev \in Nat /\ rep \in Nat
      BY <2>1
    <3>2. \A i \in Nat : i \in P <=> i \in (prev + 1) .. rep
      BY <2>5, <3>1 DEF P
    <3>3. P \subseteq Nat /\ (prev + 1) .. rep \subseteq Nat
      BY <2>6, <3>1 DEF P
    <3> QED BY <3>2, <3>3
  <2>8. 1 .. prev \subseteq 1 .. k
    BY <2>1, <2>2
  <2>9. (1 .. k) \cup ((prev + 1) .. rep) = 1 .. rep
    <3>1. \A i \in 1 .. k : i \in 1 .. rep
      BY <2>1, <2>2, <2>3
    <3>2. \A i \in (prev + 1) .. rep : i \in 1 .. rep
      BY <2>1
    <3>3. \A i \in 1 .. rep : i \in 1 .. prev \/ i \in (prev + 1) .. rep
      BY <2>1
    <3> QED BY <2>8, <3>1, <3>2, <3>3
  <2> QED BY <2>1, <2>2, <2>7, <2>9 DEF rep, P
<1> QED BY <1>3, <1>4

\* Only an open claim makes ClaimedOf positive.
LEMMA ClaimedIsOpen ==
    ASSUME SoleAgent, SoleInv, NEW a \in Agents, NEW s \in Signatures, ClaimedOf(s) > 0
    PROVE  \E c \in claims[a] : c.signature = s /\ c.epoch = epoch[s]
<1>1. Ledger
  BY LedgerHolds
<1>2. \A b \in Agents : b = a
  BY DEF SoleAgent
<1>3. TypeOK
  BY DEF SoleInv, LossInv, SafetyInv
<1>4. counter[s].reported_count \in Nat
  BY <1>3, EntryParts
<1> QED BY <1>1, <1>2, <1>4 DEF Ledger

\* After a delivery what was seen of an entry it covered is what was delivered.
LEMMA SeenDelivered ==
    ASSUME SoleAgent, SoleInv, SoleInv', SeenInv, NEW a \in Agents, EmitOk(a), NEW s \in Signatures
    PROVE  Cardinality(delivered[s] \cup shown[s])' =
             IF ClaimedOf(s) > 0 THEN Cardinality(delivered'[s])
                                 ELSE Cardinality(delivered[s] \cup shown[s])
<1>0. TypeOK /\ claims[a] \in SUBSET claims[a]
  BY DEF SoleInv, LossInv, SafetyInv
<1>1. /\ UNCHANGED <<counter, shown>>
      /\ claims'[a] = {}
      /\ delivered'[s] = delivered[s] \cup PositionsIn(claims[a], s, epoch[s])
  BY <1>0 DEF EmitOk, TypeOK
<1>2. CASE ClaimedOf(s) > 0
  <2>1. delivered'[s] \cup shown'[s] = 1 .. counter[s].reported_count
    BY <1>0, <1>1, <1>2, ClaimedIsOpen, BatchCovers
  <2>2. Ledger'
    BY LedgerHolds, PTL
  <2>3. Cardinality(delivered'[s]) = counter[s].reported_count
    BY <1>1, <2>2 DEF Ledger, SoleAgent
  <2>4. delivered'[s] = 1 .. counter[s].reported_count
    BY <2>2, <2>3 DEF Ledger
  <2> QED BY <1>2, <2>1, <2>4
<1>3. CASE ~(ClaimedOf(s) > 0)
  <2>1. PositionsIn(claims[a], s, epoch[s]) = {}
    BY <1>0, <1>3, BatchCovers
  <2> QED BY <1>1, <1>3, <2>1
<1> QED BY <1>2, <1>3

\* A panic leaves the whole claims of some signatures seen.
LEMMA SeenBeforePanic ==
    ASSUME SoleAgent, SoleInv, SeenInv, NEW e \in Emitters, EmitPanic(e)
    PROVE  \E part \in SUBSET Signatures : \A s \in Signatures :
             Cardinality(delivered[s] \cup shown[s])' =
               IF s \in part /\ ClaimedOf(s) > 0
                 THEN Cardinality(delivered[s]) + ClaimedOf(s)
                 ELSE Cardinality(delivered[s] \cup shown[s])
<1>0. TypeOK /\ WalkInv /\ e \in Agents
  BY DEF SoleInv, LossInv, SafetyInv, Agents
<1>1. Ledger
  BY LedgerHolds
<1>2. PICK told \in SUBSET claims[e] :
        shown' = [s \in Signatures |-> shown[s] \cup PositionsIn(told, s, epoch[s])]
  BY DEF EmitPanic
<1> DEFINE part == {s \in Signatures : \E c \in told : c.signature = s}
<1> SUFFICES ASSUME NEW s \in Signatures
             PROVE  Cardinality(delivered[s] \cup shown[s])' =
                      IF s \in part /\ ClaimedOf(s) > 0
                        THEN Cardinality(delivered[s]) + ClaimedOf(s)
                        ELSE Cardinality(delivered[s] \cup shown[s])
  <2>1. part \in SUBSET Signatures
    OBVIOUS
  <2> HIDE DEF part
  <2> QED BY <2>1
<1>3. delivered'[s] \cup shown'[s] =
        (delivered[s] \cup shown[s]) \cup PositionsIn(told, s, epoch[s])
  BY <1>2 DEF EmitPanic
<1>4. CASE \E c \in told : c.signature = s /\ c.epoch = epoch[s]
  <2>1. delivered'[s] \cup shown'[s] = 1 .. counter[s].reported_count /\ ClaimedOf(s) > 0
    BY <1>0, <1>3, <1>4, BatchCovers
  <2>2. s \in part
    BY <1>4
  <2>3. /\ counter[s].reported_count \in Nat
        /\ Cardinality(delivered[s]) + ClaimedOf(s) = counter[s].reported_count
    BY <1>0, <1>1, EntryParts DEF Ledger
  <2>4. Cardinality((0 + 1) .. counter[s].reported_count) = counter[s].reported_count - 0
    BY <2>3, Segment
  <2>5. Cardinality(1 .. counter[s].reported_count) = counter[s].reported_count
    BY <2>3, <2>4
  <2> QED BY <2>1, <2>2, <2>3, <2>5
<1>5. CASE ~\E c \in told : c.signature = s /\ c.epoch = epoch[s]
  <2>1. PositionsIn(told, s, epoch[s]) = {}
    BY <1>0, <1>5, BatchCovers
  <2>2. ~(s \in part /\ ClaimedOf(s) > 0)
    BY <1>0, <1>5, ClaimedIsOpen DEF WalkInv
  <2> QED BY <1>3, <2>1, <2>2
<1> QED BY <1>4, <1>5

\* What the reader has seen stays a prefix that an open claim covers.
LEMMA SeenStep ==
    ASSUME SoleAgent, SoleInv, SoleInv', SeenInv, [Next]_vars
    PROVE  SeenInv'
<1>0. /\ TypeOK /\ WalkInv /\ ClaimsWellFormed /\ ReportedWithinSuppressed
  BY DEF SoleInv, LossInv, SafetyInv
<1>1. Ledger
  BY LedgerHolds
<1>a. \A s \in Signatures : /\ counter[s].suppressed_count \in Nat
                            /\ counter[s].reported_count \in Nat
                            /\ epoch[s] \in Nat
                            /\ counter[s].reported_count <= counter[s].suppressed_count
  BY <1>0, EntryParts DEF ReportedWithinSuppressed
<1>b. \A a \in Agents : \A c \in claims[a] :
        c.signature \in Signatures /\ c.epoch \in Nat /\ c.claim.total_count \in Nat
  BY <1>0, ClaimParts
<1>c. Emitters \subseteq Agents /\ Collectors \subseteq Agents
  BY DEF Agents
<1> USE DEF SeenInv
<1>2. ASSUME UNCHANGED <<claims, epoch, delivered, shown>>,
             \A s \in Signatures : /\ counter'[s].suppressed_count \in Nat
                                   /\ counter[s].suppressed_count <= counter'[s].suppressed_count
      PROVE  SeenInv'
  <2>1. \A s \in Signatures : \A k \in 0 .. counter[s].suppressed_count :
          k \in 0 .. counter'[s].suppressed_count
    BY <1>2, <1>a
  <2> QED BY <1>2, <2>1
<1>3. ASSUME NEW s \in Signatures, RecordSuppression(s) PROVE SeenInv'
  <2>1. UNCHANGED <<claims, epoch, delivered, shown>>
    BY <1>3 DEF RecordSuppression
  <2>2. /\ counter'[s].suppressed_count = counter[s].suppressed_count + 1
        /\ \A t \in Signatures \ {s} : counter'[t] = counter[t]
    BY <1>0, <1>3, RecordEffect
  <2> QED BY <1>2, <1>a, <2>1, <2>2
<1>4. ASSUME NEW s \in Signatures, Evict(s) PROVE SeenInv'
  <2>1. /\ UNCHANGED claims
        /\ delivered'[s] \cup shown'[s] = {}
        /\ \A t \in Signatures \ {s} : delivered'[t] = delivered[t] /\ shown'[t] = shown[t]
    BY <1>0, <1>4 DEF Evict, TypeOK
  <2>2. /\ counter'[s].suppressed_count = 0
        /\ epoch'[s] = epoch[s] + 1
        /\ \A t \in Signatures \ {s} : counter'[t] = counter[t] /\ epoch'[t] = epoch[t]
    BY <1>0, <1>4, EvictEffect
  <2>3. \A a \in Agents : \A c \in claims[a] : c.signature = s => c.epoch # epoch'[s]
    BY <1>0, <1>a, <1>b, <2>2 DEF ClaimsWellFormed
  <2>4. 1 .. 0 = {} /\ 0 \in 0 .. 0
    OBVIOUS
  <2>5. ASSUME NEW t \in Signatures
        PROVE  \E k \in 0 .. counter'[t].suppressed_count :
                 /\ delivered'[t] \cup shown'[t] = 1 .. k
                 /\ \A a \in Agents : \A c \in claims'[a] :
                       c.signature = t /\ c.epoch = epoch'[t] => k <= c.claim.total_count
    <3>1. CASE t = s
      BY <2>1, <2>2, <2>3, <2>4, <3>1
    <3>2. CASE t # s
      BY <2>1, <2>2, <3>2
    <3> QED BY <3>1, <3>2
  <2> QED BY <2>5
<1>5. ASSUME NEW a \in Agents, NEW s \in Signatures, CollectVisit(a, s) PROVE SeenInv'
  <2>0. UNCHANGED <<epoch, delivered, shown>>
    BY <1>5 DEF CollectVisit
  <2>1. CASE ~CanClaim(counter[s], MinCount)
    <3>1. UNCHANGED <<counter, claims>>
      BY <1>5, <2>1 DEF CollectVisit
    <3> QED BY <1>2, <1>a, <2>0, <3>1
  <2>2. CASE CanClaim(counter[s], MinCount)
    <3>1. PICK c :
           /\ claims'[a] = claims[a] \cup {c}
           /\ \A b \in Agents \ {a} : claims'[b] = claims[b]
           /\ c.signature = s
           /\ c.claim.total_count = counter[s].suppressed_count
           /\ counter'[s].suppressed_count = counter[s].suppressed_count
           /\ \A t \in Signatures \ {s} : counter'[t] = counter[t]
      BY <1>0, <1>5, <2>2, VisitEffect
    <3>2. \A b \in Agents : \A d \in claims'[b] : d \in claims[b] \/ d = c
      BY <3>1
    <3>3. \A t \in Signatures : counter'[t].suppressed_count = counter[t].suppressed_count
      BY <3>1
    <3>4. \A k \in 0 .. counter[s].suppressed_count : k <= c.claim.total_count
      BY <1>a, <3>1
    <3> QED BY <2>0, <3>1, <3>2, <3>3, <3>4
  <2> QED BY <2>1, <2>2
<1>6. ASSUME NEW a \in Agents, NEW told \in SUBSET claims[a],
             UNCHANGED <<counter, epoch>>,
             \A s \in Signatures :
               delivered'[s] \cup shown'[s] =
                 (delivered[s] \cup shown[s]) \cup PositionsIn(told, s, epoch[s]),
             claims' = claims \/ claims'[a] = {}
      PROVE  SeenInv'
  <2> SUFFICES ASSUME NEW s \in Signatures
               PROVE  \E k \in 0 .. counter'[s].suppressed_count :
                        /\ delivered'[s] \cup shown'[s] = 1 .. k
                        /\ \A b \in Agents : \A c \in claims'[b] :
                              c.signature = s /\ c.epoch = epoch'[s] => k <= c.claim.total_count
    OBVIOUS
  <2>0. \A b \in Agents : \A c \in claims'[b] : c \in claims[b]
    BY <1>6 DEF SoleAgent
  <2>1. CASE \E c \in told : c.signature = s /\ c.epoch = epoch[s]
    <3>1. delivered'[s] \cup shown'[s] = 1 .. counter[s].reported_count
      BY <1>6, <2>1, BatchCovers
    <3>2. \A b \in Agents : \A c \in claims[b] :
            c.signature = s /\ c.epoch = epoch[s] => c.claim.total_count = counter[s].reported_count
      BY <1>1 DEF Ledger
    <3>3. counter[s].reported_count \in 0 .. counter'[s].suppressed_count
      BY <1>6, <1>a
    <3> QED BY <1>6, <1>a, <2>0, <3>1, <3>2, <3>3
  <2>2. CASE ~\E c \in told : c.signature = s /\ c.epoch = epoch[s]
    <3>1. PositionsIn(told, s, epoch[s]) = {}
      BY <1>6, <2>2, BatchCovers
    <3>2. delivered'[s] \cup shown'[s] = delivered[s] \cup shown[s]
      BY <1>6, <3>1
    <3> QED BY <1>6, <2>0, <3>2
  <2> QED BY <2>1, <2>2
<1>7. ASSUME NEW a \in Agents, EmitOk(a) PROVE SeenInv'
  <2>1. /\ UNCHANGED <<counter, epoch, shown>>
        /\ claims'[a] = {}
        /\ \A s \in Signatures :
              delivered'[s] = delivered[s] \cup PositionsIn(claims[a], s, epoch[s])
    BY <1>0, <1>7 DEF EmitOk, TypeOK
  <2>2. \A s \in Signatures :
          delivered'[s] \cup shown'[s] =
            (delivered[s] \cup shown[s]) \cup PositionsIn(claims[a], s, epoch[s])
    BY <2>1
  <2>3. claims[a] \in SUBSET claims[a] /\ UNCHANGED <<counter, epoch>>
    BY <2>1
  <2> HIDE DEF SeenInv
  <2> QED BY <1>6, <2>1, <2>2, <2>3
<1>8. ASSUME NEW e \in Emitters, EmitPanic(e) PROVE SeenInv'
  <2>1. UNCHANGED <<counter, epoch, claims, delivered>>
    BY <1>8 DEF EmitPanic
  <2>2. PICK told \in SUBSET claims[e] :
          shown' = [s \in Signatures |-> shown[s] \cup PositionsIn(told, s, epoch[s])]
    BY <1>8 DEF EmitPanic
  <2>3. \A s \in Signatures :
          delivered'[s] \cup shown'[s] =
            (delivered[s] \cup shown[s]) \cup PositionsIn(told, s, epoch[s])
    BY <2>1, <2>2
  <2> QED BY <1>6, <1>c, <2>1, <2>3
<1>9. ASSUME NEW e \in Emitters, RollbackVisit(e) PROVE SeenInv'
  <2>1. UNCHANGED <<epoch, delivered, shown>>
    BY <1>9 DEF RollbackVisit
  <2>2. PICK c \in claims[e] :
           /\ claims'[e] = claims[e] \ {c}
           /\ \A b \in Agents \ {e} : claims'[b] = claims[b]
           /\ counter'[c.signature].suppressed_count = counter[c.signature].suppressed_count
           /\ \A t \in Signatures \ {c.signature} : counter'[t] = counter[t]
    BY <1>0, <1>9, RollbackEffect
  <2>3. \A t \in Signatures : counter'[t].suppressed_count = counter[t].suppressed_count
    BY <2>2
  <2>4. \A b \in Agents : \A d \in claims'[b] : d \in claims[b]
    BY <1>c, <2>2
  <2>5. ASSUME NEW t \in Signatures
        PROVE  \E k \in 0 .. counter'[t].suppressed_count :
                 /\ delivered'[t] \cup shown'[t] = 1 .. k
                 /\ \A b \in Agents : \A d \in claims'[b] :
                       d.signature = t /\ d.epoch = epoch'[t] => k <= d.claim.total_count
    <3>1. PICK k \in 0 .. counter[t].suppressed_count :
            /\ delivered[t] \cup shown[t] = 1 .. k
            /\ \A b \in Agents : \A d \in claims[b] :
                  d.signature = t /\ d.epoch = epoch[t] => k <= d.claim.total_count
      OBVIOUS
    <3>2. k \in 0 .. counter'[t].suppressed_count
      BY <2>3
    <3>3. delivered'[t] \cup shown'[t] = 1 .. k
      BY <2>1, <3>1
    <3>4. \A b \in Agents : \A d \in claims'[b] :
            d.signature = t /\ d.epoch = epoch'[t] => k <= d.claim.total_count
      BY <2>1, <2>4, <3>1
    <3> QED BY <3>2, <3>3, <3>4
  <2> QED BY <2>5
<1>10. ASSUME UNCHANGED <<counter, claims, epoch, delivered, shown>> PROVE SeenInv'
  BY <1>2, <1>10, <1>a
<1>11. ASSUME NEW e \in Emitters, EmitterStep(e) PROVE SeenInv'
  <2>1. CASE PollSignal(e) \/ Woken(e) \/ EmitNothing(e)
    BY <1>10, <2>1 DEF PollSignal, Woken, EmitNothing
  <2>2. CASE Tick(e) \/ ShutdownBranch(e)
    BY <1>10, <2>2 DEF Tick, ShutdownBranch, StartCollect
  <2> HIDE DEF SeenInv
  <2> QED BY <1>5, <1>7, <1>8, <1>9, <1>11, <1>c, <2>1, <2>2 DEF EmitterStep
<1>12. ASSUME NEW a \in Collectors, CollectorStep(a) PROVE SeenInv'
  <2>1. CASE CollectSummaries(a) \/ EmitNothing(a)
    BY <1>10, <2>1 DEF CollectSummaries, StartCollect, EmitNothing
  <2> HIDE DEF SeenInv
  <2> QED BY <1>5, <1>7, <1>12, <1>c, <2>1 DEF CollectorStep
<1>13. ASSUME NEW e \in Emitters, RequestShutdown(e) PROVE SeenInv'
  BY <1>10, <1>13 DEF RequestShutdown
<1>14. CASE UNCHANGED vars
  BY <1>10, <1>14 DEF vars
<1> HIDE DEF SeenInv
<1> QED BY <1>3, <1>4, <1>11, <1>12, <1>13, <1>14 DEF Next

\* Every step of the emission is a step of the abstract delivery or leaves its
\* variables alone.
LEMMA DeliveryStep ==
    ASSUME SoleAgent, SoleInv, SoleInv', SeenInv, SeenInv', [Next]_vars
    PROVE  [Delivery!Next]_(Delivery!vars)
<1>0. TypeOK /\ WalkInv /\ ClaimsWellFormed /\ StaleClaimsInert /\ ClaimsReported
  BY DEF SoleInv, LossInv, SafetyInv
<1>1. Ledger /\ Ledger'
  BY LedgerHolds, PTL
<1> DEFINE P(s) == UnreportedCount(counter[s])
           D(s) == Cardinality(delivered[s])
           C(s) == ClaimedOf(s)
           K(s) == Cardinality(delivered[s] \cup shown[s])
           Some == \E s \in Signatures : C(s) > 0
           R == \E e \in Emitters : phase[e] = "rollback" /\ Some
           Same(s) == /\ counter'[s].suppressed_count = counter[s].suppressed_count
                      /\ counter'[s].reported_count = counter[s].reported_count
                      /\ delivered'[s] = delivered[s]
                      /\ shown'[s] = shown[s]
<1>a. \A s \in Signatures :
        /\ counter[s].suppressed_count \in Nat /\ counter[s].reported_count \in Nat
        /\ counter'[s].suppressed_count \in Nat /\ counter'[s].reported_count \in Nat
        /\ D(s) \in Nat /\ D(s)' \in Nat
        /\ P(s) = counter[s].suppressed_count - counter[s].reported_count
        /\ P(s)' = counter'[s].suppressed_count - counter'[s].reported_count
        /\ C(s) = counter[s].reported_count - D(s)
        /\ C(s)' = counter'[s].reported_count - D(s)'
        /\ D(s) <= counter[s].reported_count
        /\ D(s)' <= counter'[s].reported_count
  <2>1. /\ TypeOK
        /\ TypeOK'
    BY DEF SoleInv, LossInv, SafetyInv
  <2>2. \A s \in Signatures :
          /\ counter[s].suppressed_count \in Nat /\ counter[s].reported_count \in Nat
          /\ counter'[s].suppressed_count \in Nat /\ counter'[s].reported_count \in Nat
    BY <2>1 DEF TypeOK, Counter
  <2> QED BY <1>1, <2>2 DEF Ledger
<1>b. \A s \in Signatures : Same(s) => P(s)' = P(s) /\ D(s)' = D(s) /\ C(s)' = C(s) /\ K(s)' = K(s)
  BY <1>a
<1>c. Emitters \subseteq Agents /\ Collectors \subseteq Agents
  BY DEF Agents
<1>d. \A a, b \in Agents : a = b
  BY DEF SoleAgent
<1>e. \A a \in Agents : claims[a] = {} => ~Some
  BY <1>1, <1>a, <1>d DEF Ledger
<1>f. \A a \in Agents : claims'[a] = {} => ~Some'
  BY <1>1, <1>a, <1>d DEF Ledger
<1>g. ASSUME \A s \in Signatures : Same(s), R' = R
      PROVE  [Delivery!Next]_(Delivery!vars)
  <2>1. \A s \in Signatures : P(s)' = P(s) /\ D(s)' = D(s) /\ C(s)' = C(s) /\ K(s)' = K(s)
    BY <1>b, <1>g
  <2> QED BY <1>g, <2>1 DEF Delivery!vars
<1>2. ASSUME NEW s \in Signatures, RecordSuppression(s) PROVE [Delivery!Next]_(Delivery!vars)
  <2>1. UNCHANGED <<phase, delivered, shown>>
    BY <1>2 DEF RecordSuppression
  <2>2. /\ counter'[s].suppressed_count = counter[s].suppressed_count + 1
        /\ counter'[s].reported_count = counter[s].reported_count
        /\ \A t \in Signatures \ {s} : counter'[t] = counter[t]
    BY <1>0, <1>2, RecordEffect
  <2>3. /\ P(s)' = P(s) + 1
        /\ \A t \in Signatures \ {s} : P(t)' = P(t)
        /\ \A t \in Signatures : D(t)' = D(t) /\ C(t)' = C(t) /\ K(t)' = K(t)
    BY <1>a, <2>1, <2>2
  <2>4. R' = R
    BY <2>1, <2>3
  <2>5. Delivery!Suppress(s)
    BY <2>3, <2>4 DEF Delivery!Suppress
  <2> QED BY <2>5 DEF Delivery!Next
<1>3. ASSUME NEW s \in Signatures, Evict(s) PROVE [Delivery!Next]_(Delivery!vars)
  <2>1. /\ UNCHANGED phase
        /\ delivered'[s] = {} /\ shown'[s] = {}
        /\ \A t \in Signatures \ {s} : delivered'[t] = delivered[t] /\ shown'[t] = shown[t]
    BY <1>0, <1>3 DEF Evict, TypeOK
  <2>2. /\ counter'[s].suppressed_count = 0
        /\ counter'[s].reported_count = 0
        /\ \A t \in Signatures \ {s} : counter'[t] = counter[t]
    BY <1>0, <1>3, EvictEffect
  <2>3. /\ P(s)' = 0 /\ D(s)' = 0 /\ C(s)' = 0 /\ K(s)' = 0
        /\ \A t \in Signatures \ {s} :
              P(t)' = P(t) /\ D(t)' = D(t) /\ C(t)' = C(t) /\ K(t)' = K(t)
    <3>0. K(s)' = 0
      BY <2>1, FS_EmptySet
    <3>1. P(s)' = 0 /\ D(s)' = 0 /\ C(s)' = 0 /\ K(s)' = 0
      BY <1>a, <2>2, <3>0
    <3>2. \A t \in Signatures \ {s} : Same(t)
      BY <2>1, <2>2
    <3> QED BY <1>b, <3>1, <3>2
  <2>4. R' = (R /\ Some')
    <3>1. ASSUME Some' PROVE Some
      <4>1. PICK t \in Signatures : C(t)' > 0
        BY <3>1
      <4>2. t # s
        BY <2>3, <4>1
      <4>3. C(t) > 0
        BY <2>3, <4>1, <4>2
      <4> QED BY <4>3
    <3>2. R' = \E e \in Emitters : phase[e] = "rollback" /\ Some'
      BY <2>1
    <3> HIDE DEF Some
    <3> QED BY <3>1, <3>2
  <2>5. Delivery!Forget(s)
    BY <2>3, <2>4 DEF Delivery!Forget, Delivery!SomeClaimed
  <2> QED BY <2>5 DEF Delivery!Next
<1>4. ASSUME NEW a \in Agents, phase[a] # "rollback", phase'[a] # "rollback",
             UNCHANGED <<counter, delivered, shown>>
      PROVE  [Delivery!Next]_(Delivery!vars)
  <2>1. ~R /\ ~R'
    BY <1>4, <1>c, <1>d
  <2> QED BY <1>4, <1>g, <2>1
<1>5. ASSUME NEW a \in Agents, NEW s \in Signatures, CollectVisit(a, s)
      PROVE  [Delivery!Next]_(Delivery!vars)
  <2>0. UNCHANGED <<phase, delivered, shown>> /\ phase[a] = "collect"
    BY <1>5 DEF CollectVisit
  <2>1. CASE ~CanClaim(counter[s], MinCount)
    BY <1>4, <1>5, <2>0, <2>1 DEF CollectVisit
  <2>2. CASE CanClaim(counter[s], MinCount)
    <3>1. /\ counter'[s].suppressed_count = counter[s].suppressed_count
          /\ counter'[s].reported_count = counter[s].suppressed_count
          /\ \A t \in Signatures \ {s} : counter'[t] = counter[t]
      BY <1>0, <1>5, <2>2, VisitEffect
    <3>2. /\ P(s)' = 0 /\ C(s)' = C(s) + P(s)
          /\ \A t \in Signatures \ {s} : P(t)' = P(t) /\ C(t)' = C(t)
          /\ \A t \in Signatures : D(t)' = D(t) /\ K(t)' = K(t)
      BY <1>a, <2>0, <3>1
    <3>3. ~R /\ ~R'
      BY <1>c, <1>d, <2>0
    <3>4. P(s) >= Threshold
      BY <2>2 DEF CanClaim, Threshold
    <3>5. Delivery!Claim(s)
      BY <3>2, <3>3, <3>4 DEF Delivery!Claim
    <3> QED BY <3>5 DEF Delivery!Next
  <2> QED BY <2>1, <2>2
<1>6. ASSUME NEW a \in Agents, EmitOk(a) PROVE [Delivery!Next]_(Delivery!vars)
  <2>1. /\ UNCHANGED <<counter, epoch, shown>>
        /\ claims'[a] = {}
        /\ phase[a] = "collect"
        /\ phase'[a] # "rollback"
        /\ \A s \in Signatures :
              delivered'[s] = delivered[s] \cup PositionsIn(claims[a], s, epoch[s])
    BY <1>0, <1>6 DEF EmitOk, AfterEmission, TypeOK
  <2>2. ~R /\ ~R'
    BY <1>c, <1>d, <2>1
  <2>3. \A s \in Signatures : P(s)' = P(s) /\ C(s)' = 0 /\ D(s)' = D(s) + C(s)
    <3>1. \A s \in Signatures : D(s)' = counter'[s].reported_count
      BY <1>1, <1>d, <2>1 DEF Ledger
    <3> QED BY <1>a, <2>1, <3>1
  <2>a. \A s \in Signatures : K(s)' = IF C(s) > 0 THEN D(s)' ELSE K(s)
    BY <1>6, SeenDelivered
  <2>4. CASE Some
    <3>1. Delivery!Deliver
      BY <2>2, <2>3, <2>4, <2>a DEF Delivery!Deliver, Delivery!SomeClaimed
    <3> QED BY <3>1 DEF Delivery!Next
  <2>5. CASE ~Some
    <3>1. \A s \in Signatures : C(s) = 0
      BY <1>a, <2>5
    <3>2. \A s \in Signatures : P(s)' = P(s) /\ C(s)' = C(s) /\ D(s)' = D(s) /\ K(s)' = K(s)
      BY <1>a, <2>3, <2>a, <3>1
    <3> QED BY <2>2, <3>2 DEF Delivery!vars
  <2> QED BY <2>4, <2>5
<1>7. ASSUME NEW e \in Emitters, EmitPanic(e) PROVE [Delivery!Next]_(Delivery!vars)
  <2>1. /\ UNCHANGED <<counter, delivered>>
        /\ phase[e] = "collect"
        /\ phase'[e] = "rollback"
    BY <1>0, <1>7, <1>c DEF EmitPanic, TypeOK
  <2>2. \A s \in Signatures : P(s)' = P(s) /\ D(s)' = D(s) /\ C(s)' = C(s)
    BY <1>a, <2>1
  <2>a. PICK part \in SUBSET Signatures :
          \A s \in Signatures : K(s)' = IF s \in part /\ C(s) > 0 THEN D(s) + C(s) ELSE K(s)
    BY <1>7, SeenBeforePanic
  <2>3. ~R /\ (R' = Some)
    BY <1>c, <1>d, <2>1, <2>2
  <2>4. CASE Some
    <3>1. Delivery!Fail
      BY <2>2, <2>3, <2>4, <2>a DEF Delivery!Fail, Delivery!SomeClaimed
    <3> QED BY <3>1 DEF Delivery!Next
  <2>5. CASE ~Some
    <3>1. \A s \in Signatures : ~(C(s) > 0)
      BY <2>5
    <3>2. \A s \in Signatures : K(s)' = K(s)
      BY <2>a, <3>1
    <3> QED BY <2>2, <2>3, <2>5, <3>2 DEF Delivery!vars
  <2> QED BY <2>4, <2>5
<1>8. ASSUME NEW e \in Emitters, RollbackVisit(e) PROVE [Delivery!Next]_(Delivery!vars)
  <2>1. UNCHANGED <<epoch, delivered, shown>> /\ phase[e] = "rollback" /\ e \in Agents
    BY <1>8, <1>c DEF RollbackVisit
  <2>2. PICK c \in claims[e] :
           /\ claims'[e] = claims[e] \ {c}
           /\ counter'[c.signature].suppressed_count = counter[c.signature].suppressed_count
           /\ counter[c.signature].reported_count >= c.claim.total_count =>
                 counter'[c.signature].reported_count = c.claim.previous_reported_count
           /\ counter[c.signature].reported_count < c.claim.total_count => counter' = counter
           /\ \A t \in Signatures \ {c.signature} : counter'[t] = counter[t]
           /\ phase'[e] = IF claims[e] = {c} THEN AfterEmission(e) ELSE phase[e]
    BY <1>0, <1>8, RollbackStamps
  <2>3. /\ c.signature \in Signatures
        /\ c.claim.previous_reported_count \in Nat
        /\ c.claim.total_count \in Nat
        /\ c.claim.previous_reported_count < c.claim.total_count
    BY <1>0, <2>1, ClaimParts DEF ClaimsWellFormed
  <2>4. Some' => phase'[e] = "rollback"
    BY <1>f, <2>1, <2>2
  <2>5. R' = Some' /\ R = Some
    BY <1>c, <1>d, <2>1, <2>4
  <2>6. CASE c.epoch # epoch[c.signature]
    <3>1. counter' = counter
      BY <1>0, <2>1, <2>2, <2>3, <2>6 DEF StaleClaimsInert
    <3>2. R' = R
      BY <1>b, <2>1, <2>5, <3>1
    <3> QED BY <1>g, <2>1, <3>1, <3>2
  <2>7. CASE c.epoch = epoch[c.signature]
    <3> DEFINE s == c.signature
    <3>1. D(s) = c.claim.previous_reported_count /\ counter[s].reported_count = c.claim.total_count
      BY <1>1, <2>1, <2>3, <2>7 DEF Ledger
    <3>2. counter'[s].reported_count = c.claim.previous_reported_count
      BY <1>a, <2>2, <2>3, <3>1
    <3>a. /\ s \in Signatures
          /\ counter'[s].suppressed_count = counter[s].suppressed_count
          /\ D(s)' = D(s)
      BY <2>1, <2>2, <2>3
    <3>3. C(s) > 0 /\ C(s)' = 0 /\ P(s)' = P(s) + C(s)
      <4> HIDE DEF C, P, D, s
      <4> QED BY <1>a, <2>3, <3>1, <3>2, <3>a
    <3>4. /\ \A t \in Signatures \ {s} : P(t)' = P(t) /\ C(t)' = C(t)
          /\ \A t \in Signatures : D(t)' = D(t) /\ K(t)' = K(t)
      BY <1>b, <2>1, <2>2
    <3>5. Delivery!Return(s)
      BY <2>3, <2>5, <3>3, <3>4 DEF Delivery!Return, Delivery!SomeClaimed
    <3> QED BY <2>3, <3>5 DEF Delivery!Next
  <2> QED BY <2>6, <2>7
<1>9. ASSUME NEW a \in Agents, EmitNothing(a) PROVE [Delivery!Next]_(Delivery!vars)
  <2>1. phase[a] # "rollback" /\ phase'[a] # "rollback" /\ UNCHANGED <<counter, delivered, shown>>
    BY <1>0, <1>9 DEF EmitNothing, AfterEmission, TypeOK
  <2> QED BY <1>4, <2>1
<1>10. ASSUME NEW a \in Agents, phase[a] \in {"select", "tick"}, StartCollect(a)
       PROVE  [Delivery!Next]_(Delivery!vars)
  <2>1. phase[a] # "rollback" /\ phase'[a] # "rollback" /\ UNCHANGED <<counter, delivered, shown>>
    BY <1>0, <1>10 DEF StartCollect, TypeOK
  <2> QED BY <1>4, <2>1
<1>11. ASSUME NEW e \in Emitters, ShutdownBranch(e), ~EmitFinal
       PROVE  [Delivery!Next]_(Delivery!vars)
  <2>1. phase[e] # "rollback" /\ phase'[e] # "rollback" /\ UNCHANGED <<counter, delivered, shown>>
    BY <1>0, <1>11, <1>c DEF ShutdownBranch, TypeOK
  <2> QED BY <1>4, <1>c, <2>1
<1>12. ASSUME UNCHANGED <<counter, phase, delivered, shown>> PROVE [Delivery!Next]_(Delivery!vars)
  <2>1. R' = R
    BY <1>b, <1>12
  <2> QED BY <1>12, <1>g, <2>1
<1>13. ASSUME NEW e \in Emitters, EmitterStep(e) PROVE [Delivery!Next]_(Delivery!vars)
  <2>1. CASE Tick(e)
    BY <1>10, <1>c, <2>1 DEF Tick
  <2>2. CASE ShutdownBranch(e)
    BY <1>10, <1>11, <1>c, <2>2 DEF ShutdownBranch
  <2>3. CASE PollSignal(e) \/ Woken(e)
    <3>1. phase[e] # "rollback" /\ phase'[e] # "rollback" /\ UNCHANGED <<counter, delivered, shown>>
      BY <1>0, <1>c, <2>3 DEF PollSignal, Woken, TypeOK
    <3> QED BY <1>4, <1>c, <3>1
  <2> QED BY <1>5, <1>6, <1>7, <1>8, <1>9, <1>13, <1>c, <2>1, <2>2, <2>3 DEF EmitterStep
<1>14. ASSUME NEW a \in Collectors, CollectorStep(a) PROVE [Delivery!Next]_(Delivery!vars)
  <2>1. CASE CollectSummaries(a)
    BY <1>10, <1>c, <2>1 DEF CollectSummaries
  <2> QED BY <1>5, <1>6, <1>9, <1>14, <1>c, <2>1 DEF CollectorStep
<1>15. ASSUME NEW e \in Emitters, RequestShutdown(e) PROVE [Delivery!Next]_(Delivery!vars)
  BY <1>12, <1>15 DEF RequestShutdown
<1>16. CASE UNCHANGED vars
  BY <1>12, <1>16 DEF vars
<1> QED BY <1>2, <1>3, <1>13, <1>14, <1>15, <1>16 DEF Next

\* With a sole claimant the emission of the code implements the abstract
\* delivery: suppressions move as wholes from pending to claimed to delivered,
\* a failed batch returns entire, whatever part of it was shown, the reader has
\* then seen a prefix that a later delivery covers, and only an eviction forgets
\* any.
THEOREM DeliveryImplemented == SoleAgent => (Spec => ImplementsDelivery)
<1> SUFFICES ASSUME SoleAgent PROVE Spec => ImplementsDelivery
  OBVIOUS
<1>1. Init => Delivery!Init
  <2> SUFFICES ASSUME Init PROVE Delivery!Init
    OBVIOUS
  <2>1. SoleInv
    BY SoleInit
  <2>2. Ledger
    BY <2>1, LedgerHolds
  <2>3. \A s \in Signatures : counter[s].suppressed_count = 0 /\ counter[s].reported_count = 0
    BY DEF Init, NewCounter
  <2>4. \A s \in Signatures : /\ UnreportedCount(counter[s]) = 0
                              /\ Cardinality(delivered[s]) = 0
                              /\ Cardinality(delivered[s] \cup shown[s]) = 0
                              /\ ClaimedOf(s) = 0
    <3>1. \A s \in Signatures : delivered[s] = {} /\ delivered[s] \cup shown[s] = {}
      BY DEF Init
    <3>2. Cardinality({}) = 0
      BY FS_EmptySet
    <3>3. \A s \in Signatures : Cardinality(delivered[s]) = 0 /\ Cardinality(delivered[s] \cup shown[s]) = 0
      BY <3>1, <3>2
    <3>4. \A s \in Signatures : UnreportedCount(counter[s]) = 0 /\ ClaimedOf(s) = 0
      BY <2>2, <2>3, <3>3 DEF Ledger
    <3> QED BY <3>3, <3>4
  <2>5. ~\E s \in Signatures : ClaimedOf(s) > 0
    <3>1. ASSUME NEW s \in Signatures PROVE ~(ClaimedOf(s) > 0)
      <4>1. ClaimedOf(s) = 0
        BY <2>4
      <4>2. ~(0 > 0)
        OBVIOUS
      <4> QED BY <4>1, <4>2
    <3> QED BY <3>1
  <2> QED BY <2>4, <2>5 DEF Delivery!Init
<1> QED BY <1>1, SoleInit, SoleStep, SeenInit, SeenStep, DeliveryStep, PTL
    DEF Spec, ImplementsDelivery, Delivery!Spec

\* FinalInv is inductive when the registry has one emitter task.
LEMMA FinalStep ==
    ASSUME SingleEmitter, SafetyInv, FinalInv, [Next]_vars
    PROVE  FinalInv'
<1>0. TypeOK /\ ReportedWithinSuppressed /\ WalkInv
  BY DEF SafetyInv
<1>a. \A s \in Signatures : /\ counter[s].suppressed_count \in Nat
                            /\ counter[s].reported_count \in Nat
                            /\ counter[s].reported_count <= counter[s].suppressed_count
  BY <1>0, EntryParts DEF ReportedWithinSuppressed
<1>b. Threshold \in Nat /\ Threshold > 0
  BY MinCountAssumption DEF Threshold
<1>c. Emitters \subseteq Agents /\ Collectors \subseteq Agents
  BY DEF Agents
<1>d. \A e \in Emitters : \A s \in Signatures : mark[e][s] \in Nat
  BY <1>0 DEF TypeOK
<1> USE DEF FinalInv
<1>1. ASSUME NEW s \in Signatures, RecordSuppression(s) PROVE FinalInv'
  <2>1. UNCHANGED <<phase, todo, final, shutdown, mark>>
    BY <1>1 DEF RecordSuppression
  <2>2. /\ \A t \in Signatures : counter'[t].reported_count = counter[t].reported_count
        /\ \A t \in Signatures : \/ counter'[t].suppressed_count = counter[t].suppressed_count
                                 \/ counter'[t].suppressed_count = counter[t].suppressed_count + 1
    BY <1>0, <1>1, RecordEffect
  <2> QED BY <1>a, <1>d, <2>1, <2>2
<1>2. ASSUME NEW s \in Signatures, Evict(s) PROVE FinalInv'
  <2>1. /\ UNCHANGED <<phase, todo, final, shutdown>>
        /\ \A e \in Emitters : /\ mark'[e][s] = 0
                               /\ \A t \in Signatures \ {s} : mark'[e][t] = mark[e][t]
    BY <1>0, <1>2 DEF Evict, TypeOK
  <2>2. /\ counter'[s].suppressed_count = 0 /\ counter'[s].reported_count = 0
        /\ \A t \in Signatures \ {s} : counter'[t] = counter[t]
    BY <1>0, <1>2, EvictEffect
  <2> QED BY <1>b, <2>1, <2>2
<1>3. ASSUME NEW e \in Emitters, RequestShutdown(e) PROVE FinalInv'
  <2>1. /\ ~shutdown[e]
        /\ UNCHANGED <<counter, phase, todo, final>>
        /\ \A f \in Emitters : shutdown[f] => shutdown'[f]
        /\ \A f \in Emitters \ {e} : mark'[f] = mark[f]
        /\ \A s \in Signatures : mark'[e][s] = counter[s].suppressed_count
    BY <1>0, <1>3 DEF RequestShutdown, TypeOK
  <2> QED BY <1>a, <2>1
<1>4. ASSUME NEW a \in Agents, phase[a] \in {"select", "tick"}, StartCollect(a),
             \A f \in Emitters : final'[f] => shutdown'[f],
             \A f \in Emitters : f # a => final'[f] = final[f]
      PROVE  FinalInv'
  <2>1. /\ UNCHANGED <<counter, mark>>
        /\ todo'[a] = Signatures
        /\ \A b \in Agents \ {a} : phase'[b] = phase[b] /\ todo'[b] = todo[b]
    BY <1>0, <1>4 DEF StartCollect, TypeOK
  <2> QED BY <1>4, <1>c, <2>1
<1>5. ASSUME NEW a \in Agents, NEW s \in Signatures, CollectVisit(a, s) PROVE FinalInv'
  <2>0. /\ UNCHANGED <<phase, final, shutdown, mark>>
        /\ todo'[a] = todo[a] \ {s}
        /\ \A b \in Agents \ {a} : todo'[b] = todo[b]
    BY <1>0, <1>5 DEF CollectVisit, TypeOK
  <2>1. /\ \A t \in Signatures \ {s} : counter'[t] = counter[t]
        /\ counter'[s].suppressed_count = counter[s].suppressed_count
        /\ counter'[s].reported_count >= counter[s].reported_count
        /\ counter'[s].reported_count \in Nat
        /\ counter[s].suppressed_count < counter'[s].reported_count + Threshold
    <3>1. CASE ~CanClaim(counter[s], MinCount)
      <4>1. UNCHANGED counter
        BY <1>5, <3>1 DEF CollectVisit
      <4>2. counter[s].suppressed_count - counter[s].reported_count < Threshold
        BY <1>a, <1>b, <3>1 DEF CanClaim, UnreportedCount, SaturatingSub, Threshold
      <4> QED BY <1>a, <1>b, <4>1, <4>2
    <3>2. CASE CanClaim(counter[s], MinCount)
      <4>1. /\ counter'[s].suppressed_count = counter[s].suppressed_count
            /\ counter'[s].reported_count = counter[s].suppressed_count
            /\ \A t \in Signatures \ {s} : counter'[t] = counter[t]
        BY <1>0, <1>5, <3>2, VisitEffect
      <4> QED BY <1>a, <1>b, <4>1
    <3> QED BY <3>1, <3>2
  <2>2. \A e \in Emitters : \A t \in Signatures : mark'[e][t] <= counter'[t].suppressed_count
    BY <2>0, <2>1
  <2>3. ASSUME NEW e \in Emitters, final[e], phase[e] = "collect",
               NEW t \in Signatures, t \notin todo'[e]
        PROVE  mark[e][t] < counter'[t].reported_count + Threshold
    <3>1. CASE t = s
      <4>1. mark[e][s] <= counter[s].suppressed_count
        OBVIOUS
      <4> QED BY <1>a, <1>b, <1>d, <2>1, <3>1, <4>1
    <3>2. CASE t # s
      <4>1. t \notin todo[e]
        BY <1>c, <2>0, <2>3, <3>2
      <4> QED BY <2>1, <2>3, <3>2, <4>1
    <3> QED BY <3>1, <3>2
  <2> QED BY <2>0, <2>2, <2>3
<1>6. ASSUME NEW a \in Agents, phase'[a] # "collect",
             \A b \in Agents \ {a} : phase'[b] = phase[b],
             UNCHANGED <<counter, todo, final, shutdown, mark>>
      PROVE  FinalInv'
  BY <1>6, <1>c
<1>7. ASSUME NEW e \in Emitters, RollbackVisit(e) PROVE FinalInv'
  <2>1. UNCHANGED <<todo, final, shutdown, mark>> /\ phase[e] = "rollback"
    BY <1>7 DEF RollbackVisit
  <2>2. PICK c \in claims[e] :
          /\ counter'[c.signature].suppressed_count = counter[c.signature].suppressed_count
          /\ \A t \in Signatures \ {c.signature} : counter'[t] = counter[t]
          /\ phase'[e] = IF claims[e] = {c} THEN AfterEmission(e) ELSE phase[e]
    BY <1>0, <1>7, RollbackEffect
  <2>3. phase'[e] # "collect"
    BY <2>1, <2>2 DEF AfterEmission
  <2>4. \A t \in Signatures : counter'[t].suppressed_count = counter[t].suppressed_count
    BY <2>2
  <2> QED BY <2>1, <2>3, <2>4 DEF SingleEmitter
<1>8. ASSUME NEW e \in Emitters, EmitterStep(e) PROVE FinalInv'
  <2>1. CASE Tick(e)
    <3>1. /\ phase[e] = "tick" /\ StartCollect(e) /\ UNCHANGED final
          /\ UNCHANGED shutdown
      BY <2>1 DEF Tick, StartCollect
    <3> QED BY <1>4, <1>c, <3>1
  <2>2. CASE ShutdownBranch(e) /\ EmitFinal
    <3>1. /\ phase[e] = "select" /\ StartCollect(e) /\ shutdown[e]
          /\ UNCHANGED shutdown
          /\ \A f \in Emitters \ {e} : final'[f] = final[f]
      BY <1>0, <2>2 DEF ShutdownBranch, StartCollect, TypeOK
    <3> QED BY <1>4, <1>c, <3>1
  <2>3. CASE ShutdownBranch(e) /\ ~EmitFinal
    <3>1. /\ phase'[e] # "collect"
          /\ \A b \in Agents \ {e} : phase'[b] = phase[b]
          /\ UNCHANGED <<counter, todo, final, shutdown, mark>>
      BY <1>0, <1>c, <2>3 DEF ShutdownBranch, TypeOK
    <3> QED BY <1>6, <1>c, <3>1
  <2>4. CASE EmitNothing(e) \/ EmitOk(e) \/ EmitPanic(e) \/ PollSignal(e) \/ Woken(e)
    <3>1. /\ phase'[e] # "collect"
          /\ \A b \in Agents \ {e} : phase'[b] = phase[b]
          /\ UNCHANGED <<counter, todo, final, shutdown, mark>>
      BY <1>0, <1>c, <2>4 DEF EmitNothing, EmitOk, EmitPanic, PollSignal, Woken, AfterEmission, TypeOK
    <3> QED BY <1>6, <1>c, <3>1
  <2> QED BY <1>5, <1>7, <1>8, <1>c, <2>1, <2>2, <2>3, <2>4 DEF EmitterStep
<1>9. ASSUME NEW a \in Collectors, CollectorStep(a) PROVE FinalInv'
  <2>1. CASE CollectSummaries(a)
    <3>1. phase[a] = "select" /\ StartCollect(a) /\ UNCHANGED final /\ UNCHANGED shutdown
      BY <2>1 DEF CollectSummaries, StartCollect
    <3> QED BY <1>4, <1>c, <3>1
  <2>2. CASE EmitNothing(a) \/ EmitOk(a)
    <3>1. /\ phase'[a] # "collect"
          /\ \A b \in Agents \ {a} : phase'[b] = phase[b]
          /\ UNCHANGED <<counter, todo, final, shutdown, mark>>
      BY <1>0, <1>c, <2>2 DEF EmitNothing, EmitOk, AfterEmission, TypeOK
    <3> QED BY <1>6, <1>c, <3>1
  <2> QED BY <1>5, <1>9, <1>c, <2>1, <2>2 DEF CollectorStep
<1>10. CASE UNCHANGED vars
  BY <1>10 DEF vars
<1> QED BY <1>1, <1>2, <1>3, <1>8, <1>9, <1>10 DEF Next

\* A step by which a task stops without a panic leaves fewer than min_count
\* suppressions of each entry behind.
LEMMA FinalCovers ==
    ASSUME LossInv, FinalInv, [Next]_vars,
           NEW e \in Emitters, EmitFinal,
           phase[e] \in {"select", "collect"}, phase'[e] = "done",
           NEW s \in Signatures
    PROVE  Cardinality((1 .. mark[e][s]) \ (delivered[s] \cup InFlight(s))) < Threshold
<1>0. TypeOK /\ NoSuppressionLost /\ WalkInv
  BY DEF LossInv, SafetyInv
<1>1. final[e] /\ phase[e] = "collect" /\ todo[e] = {}
  <2>0. e \in Agents /\ e \notin Collectors
    BY AgentsAssumption DEF Agents
  <2>1. \A t \in Signatures : ~RecordSuppression(t) /\ ~Evict(t)
    BY DEF RecordSuppression, Evict
  <2>2. \A f \in Emitters : ~RequestShutdown(f)
    BY DEF RequestShutdown
  <2>3. ASSUME NEW a \in Agents, a # e PROVE ~EmitNothing(a) /\ ~EmitOk(a)
                        /\ ~(phase[a] \in {"select", "tick"} /\ StartCollect(a))
    BY <1>0, <2>0, <2>3 DEF EmitNothing, EmitOk, StartCollect, TypeOK
  <2>4. \A a \in Agents : \A t \in Signatures : ~CollectVisit(a, t)
    BY DEF CollectVisit
  <2>5. \A a \in Collectors : ~CollectorStep(a)
    BY <2>0, <2>3, <2>4 DEF CollectorStep, CollectSummaries, Agents
  <2>6. ASSUME NEW f \in Emitters, EmitterStep(f)
        PROVE  EmitNothing(e) \/ EmitOk(e)
    <3>1. ~Tick(f) /\ ~ShutdownBranch(f) /\ ~PollSignal(f) /\ ~Woken(f)
      BY <1>0, <2>0 DEF Tick, ShutdownBranch, PollSignal, Woken, StartCollect, TypeOK, Agents
    <3>2. ~EmitPanic(f) /\ ~RollbackVisit(f)
      BY <1>0, <2>0 DEF EmitPanic, RollbackVisit, TypeOK, Agents
    <3> QED BY <2>0, <2>3, <2>4, <2>6, <3>1, <3>2 DEF EmitterStep, Agents
  <2>7. ~UNCHANGED vars
    BY DEF vars
  <2>8. EmitNothing(e) \/ EmitOk(e)
    BY <2>1, <2>2, <2>5, <2>6, <2>7 DEF Next
  <2> QED BY <1>0, <2>0, <2>8 DEF EmitNothing, EmitOk, AfterEmission, TypeOK
<1> DEFINE m == mark[e][s]
           r == counter[s].reported_count
           left == (1 .. m) \ (delivered[s] \cup InFlight(s))
<1>2. m \in Nat /\ r \in Nat /\ Threshold \in Nat /\ Threshold > 0
  BY <1>0, EntryParts, MinCountAssumption DEF TypeOK, Threshold
<1>3. m < r + Threshold
  BY <1>1 DEF FinalInv
<1>4. left \subseteq (r + 1) .. m
  BY <1>0, <1>2 DEF NoSuppressionLost
<1> HIDE DEF m, r, left
<1>5. IsFiniteSet((r + 1) .. m) /\ Cardinality((r + 1) .. m) = IF r + 1 > m THEN 0 ELSE m - (r + 1) + 1
  <2>1. r + 1 \in Int /\ m \in Int
    BY <1>2
  <2> QED BY <2>1, FS_Interval
<1>6. Cardinality(left) <= Cardinality((r + 1) .. m) /\ Cardinality(left) \in Nat
  BY <1>4, <1>5, FS_Subset, FS_CardinalityType
<1>7. Cardinality(left) < Threshold
  BY <1>2, <1>3, <1>5, <1>6
<1> QED BY <1>7 DEF left, m

\* With one emitter task, and any number of collect_summaries callers and
\* evictions, the last emission of a task that stops leaves fewer than
\* min_count of the suppressions that preceded the request unreported.
THEOREM FinalEmissionComplete == SingleEmitter => (Spec => FinalEmissionCovers)
<1> SUFFICES ASSUME SingleEmitter PROVE Spec => FinalEmissionCovers
  OBVIOUS
<1>1. Init => LossInv /\ FinalInv
  <2>1. Init => LossInv
    BY SoleInit DEF SoleInv
  <2>2. Init => FinalInv
    BY DEF Init, FinalInv, NewCounter
  <2> QED BY <2>1, <2>2
<1>2. LossInv /\ FinalInv /\ [Next]_vars => LossInv' /\ FinalInv'
  <2>1. LossInv => SafetyInv
    BY DEF LossInv
  <2> QED BY <2>1, SafetyStep, ReachStep, LossStep, FinalStep DEF LossInv
<1>3. LossInv /\ FinalInv /\ [Next]_vars =>
        [\A e \in Emitters :
          (EmitFinal /\ phase[e] \in {"select", "collect"} /\ phase'[e] = "done")
          => \A s \in Signatures :
                Cardinality((1 .. mark[e][s]) \ (delivered[s] \cup InFlight(s))) < Threshold]_vars
  BY FinalCovers
<1> QED BY <1>1, <1>2, <1>3, PTL DEF Spec, FinalEmissionCovers

\* With a sole claimant every suppression of an entry is accounted for: those
\* delivered, those claimed and those pending follow each other without gap or
\* overlap, and those the reader has seen, in batches that were delivered or
\* rolled back, come first, through panics, rollbacks and evictions.
THEOREM LedgerKept == SoleAgent => (Spec => [](Ledger /\ SeenInv))
<1> SUFFICES ASSUME SoleAgent PROVE Spec => [](Ledger /\ SeenInv)
  OBVIOUS
<1> QED BY SoleInit, SoleStep, LedgerHolds, SeenInit, SeenStep, PTL DEF Spec

-----------------------------------------------------------------------------
(* The other half of SummaryEmitter: the life of its task and its handle,  *)
(* for any number of callers of shutdown.                                  *)

\* The invariant holds at first: the layer has the handle, nothing was sent.
LEMMA LifecycleStart == LifecycleInit => LifecycleInv
<1> SUFFICES ASSUME LifecycleInit
             PROVE  LifecycleInv
    OBVIOUS
<1> USE DEF LifecycleInit
<1>1. LifecycleTypeOK
      BY DEF LifecycleTypeOK, Running, Result
<1>2. OneFinalInv /\ FinalsAsAsked
      BY DEF OneFinalInv, FinalsAsAsked
<1>3. HandleInv /\ OneSenderInv /\ OkMeansStopped
      BY DEF HandleInv, OneSenderInv, OkMeansStopped
<1>4. SignalPending /\ RaceInv /\ NoTickAfterSignal
      BY DEF SignalPending, RaceInv, NoTickAfterSignal
<1> QED
    BY <1>1, <1>2, <1>3, <1>4 DEF LifecycleInv

\* What the signal, the select and its ticks are to each other, every step of
\* the task, of a caller and of the environment keeps.
LEMMA SignalStep ==
    ASSUME LifecycleInv, [LifecycleNext]_lifecycleVars
    PROVE  (OneSenderInv /\ SignalPending /\ RaceInv /\ NoTickAfterSignal)'
<1> USE DEF LifecycleInv, LifecycleTypeOK, OneSenderInv, SignalPending, RaceInv, NoTickAfterSignal, ChangedReady
<1>1. CASE IntervalElapses
      BY <1>1 DEF IntervalElapses, history
<1>2. CASE ChangedBranch
      BY <1>2 DEF ChangedBranch, history
<1>3. CASE PollTick
      BY <1>3 DEF PollTick, history
<1>4. CASE TickBranch
      BY <1>4 DEF TickBranch, history
<1>5. CASE Wait
      BY <1>5 DEF Wait, history
<1>6. CASE EmissionEnds
      BY <1>6 DEF EmissionEnds, history
<1>7. CASE EmissionPanics
      BY <1>7 DEF EmissionPanics, history
<1>8. CASE RuntimeStops
      BY <1>8 DEF RuntimeStops, history
<1>9. ASSUME NEW c \in Callers, TakeHandle(c)
      PROVE  (OneSenderInv /\ SignalPending /\ RaceInv /\ NoTickAfterSignal)'
      BY <1>9 DEF TakeHandle, Return, history
<1>10. ASSUME NEW c \in Callers, SendSignal(c)
      PROVE  (OneSenderInv /\ SignalPending /\ RaceInv /\ NoTickAfterSignal)'
  <2>1. CASE task \in Running
    <3>1. /\ pc' = [pc EXCEPT ![c] = "wait"]
          /\ signal' /\ unseen' /\ raced' = (task = "tick")
          /\ UNCHANGED <<task, handle, late>>
          BY <1>10, <2>1 DEF SendSignal
    <3>2. ~handle /\ ~signal /\ late = 0 /\ \A d \in Callers \ {c} : pc[d] # "send"
          BY <1>10 DEF SendSignal
    <3>3. OneSenderInv'
          BY <3>1, <3>2
    <3>4. SignalPending'
          BY <3>1
    <3>5. RaceInv'
      <4>1. task' = "tick" => raced' = TRUE
            BY <3>1
      <4>2. late' = 0 /\ signal' = TRUE
            BY <1>10, <2>1, <3>1, <3>2 DEF SendSignal
      <4> QED
          BY <4>1, <4>2
    <3>6. NoTickAfterSignal'
      <4>1. late' = 0
            BY <3>1, <3>2
      <4> QED
          BY <4>1
    <3> QED
        BY <3>3, <3>4, <3>5, <3>6
  <2>2. CASE task \notin Running
    <3>1. /\ pc' = [pc EXCEPT ![c] = "returned"]
          /\ ~sender'
          /\ UNCHANGED <<task, handle, signal, unseen, raced, late>>
          BY <1>10, <2>2 DEF SendSignal, Return
    <3> QED
        BY <3>1
  <2> QED
      BY <2>1, <2>2
<1>11. ASSUME NEW c \in Callers, Join(c)
      PROVE  (OneSenderInv /\ SignalPending /\ RaceInv /\ NoTickAfterSignal)'
      BY <1>11 DEF Join, Return, Running, history
<1>12. ASSUME NEW c \in Callers, TimeoutElapses(c)
      PROVE  (OneSenderInv /\ SignalPending /\ RaceInv /\ NoTickAfterSignal)'
      BY <1>12 DEF TimeoutElapses, Return, history
<1>13. CASE DropHandle
      BY <1>13 DEF DropHandle, history
<1>14. CASE UNCHANGED lifecycleVars
      BY <1>14 DEF lifecycleVars, history
<1> QED
    BY <1>1, <1>2, <1>3, <1>4, <1>5, <1>6, <1>7, <1>8, <1>9, <1>10, <1>11, <1>12, <1>13, <1>14
       DEF LifecycleNext, TaskStep, CallerStep

\* Every step keeps the types, the single final emission and what the callers
\* have been told.
LEMMA CallersStep ==
    ASSUME LifecycleInv, [LifecycleNext]_lifecycleVars
    PROVE  (LifecycleTypeOK /\ OneFinalInv /\ HandleInv /\ FinalsAsAsked /\ OkMeansStopped)'
<1> USE DEF LifecycleInv, LifecycleTypeOK, OneFinalInv, HandleInv, SignalPending,
            FinalsAsAsked, OkMeansStopped, Running, Result
<1>1. CASE IntervalElapses
      BY <1>1 DEF IntervalElapses, history
<1>2. CASE ChangedBranch
  <2> USE <1>2 DEF ChangedBranch, history
  <2>1. LifecycleTypeOK'
    <3>1. finals' \in {0, 1}
      <4>1. finals = 0
            OBVIOUS
      <4>2. finals' = finals \/ finals' = finals + 1
            OBVIOUS
      <4> QED
          BY <4>1, <4>2
    <3>2. task' \in Running \cup {"done", "panicked", "cancelled"}
          OBVIOUS
    <3> QED
        BY <3>1, <3>2, Zenon
  <2>2. OneFinalInv' /\ FinalsAsAsked'
        OBVIOUS
  <2>3. HandleInv' /\ OkMeansStopped'
        OBVIOUS
  <2> QED
      BY <2>1, <2>2, <2>3
<1>3. CASE PollTick
      BY <1>3 DEF PollTick, history
<1>4. CASE TickBranch
  <2>1. UNCHANGED raced /\ late' \in Nat
        BY <1>4 DEF TickBranch
  <2> QED
      BY <1>4, <2>1, Zenon DEF TickBranch
<1>5. CASE Wait
      BY <1>5 DEF Wait, history
<1>6. CASE EmissionEnds
      BY <1>6 DEF EmissionEnds, history
<1>7. CASE EmissionPanics
      BY <1>7 DEF EmissionPanics, history
<1>8. CASE RuntimeStops
      BY <1>8 DEF RuntimeStops, history
<1>9. ASSUME NEW c \in Callers, TakeHandle(c)
      PROVE  (LifecycleTypeOK /\ OneFinalInv /\ HandleInv /\ FinalsAsAsked /\ OkMeansStopped)'
      BY <1>9 DEF TakeHandle, Return, history
<1>10. ASSUME NEW c \in Callers, SendSignal(c)
      PROVE  (LifecycleTypeOK /\ OneFinalInv /\ HandleInv /\ FinalsAsAsked /\ OkMeansStopped)'
      BY <1>10 DEF SendSignal, Return, Running, history
<1>11. ASSUME NEW c \in Callers, Join(c)
      PROVE  (LifecycleTypeOK /\ OneFinalInv /\ HandleInv /\ FinalsAsAsked /\ OkMeansStopped)'
      BY <1>11 DEF Join, Return, Outcome, history
<1>12. ASSUME NEW c \in Callers, TimeoutElapses(c)
      PROVE  (LifecycleTypeOK /\ OneFinalInv /\ HandleInv /\ FinalsAsAsked /\ OkMeansStopped)'
      BY <1>12 DEF TimeoutElapses, Return, history
<1>13. CASE DropHandle
      BY <1>13 DEF DropHandle, history
<1>14. CASE UNCHANGED lifecycleVars
      BY <1>14 DEF lifecycleVars, history
<1> QED
    BY <1>1, <1>2, <1>3, <1>4, <1>5, <1>6, <1>7, <1>8, <1>9, <1>10, <1>11, <1>12, <1>13, <1>14
       DEF LifecycleNext, TaskStep, CallerStep

\* The invariant is inductive.
LEMMA LifecycleStep == LifecycleInv /\ [LifecycleNext]_lifecycleVars => LifecycleInv'
BY SignalStep, CallersStep DEF LifecycleInv

\* The invariant holds throughout every behaviour.
THEOREM LifecycleSafe == LifecycleSpec => []LifecycleInv
BY LifecycleStart, LifecycleStep, PTL DEF LifecycleSpec

\* Every variable keeps its type; no second final emission is ever started.
THEOREM LifecycleTypeCorrect == LifecycleSpec => []LifecycleTypeOK
<1>1. LifecycleInv => LifecycleTypeOK
      BY DEF LifecycleInv
<1> QED
    BY <1>1, LifecycleSafe, PTL

\* A task that has ended was signalled and made the final emission that
\* emit_final asks for, however its ticks and its callers interleave.
THEOREM FinalEmissionAsAsked == LifecycleSpec => []FinalsAsAsked
<1>1. LifecycleInv => FinalsAsAsked
      BY DEF LifecycleInv
<1> QED
    BY <1>1, LifecycleSafe, PTL

\* When shutdown returns Ok to the caller that took the handle, the task is
\* over.
THEOREM OkIsStopped == LifecycleSpec => []OkMeansStopped
<1>1. LifecycleInv => OkMeansStopped
      BY DEF LifecycleInv
<1> QED
    BY <1>1, LifecycleSafe, PTL

\* Once the signal was sent no tick begins an emission, unless the signal came
\* between the two polls of one select, and then only that one.
THEOREM SignalFirst == LifecycleSpec => []NoTickAfterSignal
<1>1. LifecycleInv => NoTickAfterSignal
      BY DEF LifecycleInv
<1> QED
    BY <1>1, LifecycleSafe, PTL
=============================================================================
