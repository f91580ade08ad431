------------------------ MODULE CircuitBreakerProofs ------------------------
(* Proofs about CircuitBreaker, for any set of threads and any configuration. *)
EXTENDS CircuitBreaker, TLAPS

\* The types hold at first.
LEMMA TypeInit == Init => TypeOK
<1> SUFFICES ASSUME Init PROVE TypeOK
  OBVIOUS
<1>1. /\ state \in CircuitState
      /\ consecutive_failures \in Nat /\ last_failure \in Nat /\ now \in Nat
      /\ pc \in [Threads -> Step]
      /\ seen_now \in [Threads -> Nat] /\ seen_failures \in [Threads -> Nat]
      /\ failed \in Nat /\ resets \in Nat
  BY DEF Init, Step, CircuitState
<1>2. recovered \in BOOLEAN
  BY Zenon DEF Init
<1> QED
  BY <1>1, <1>2, Zenon DEF TypeOK

\* Every step keeps the types.
LEMMA TypeStep == TypeOK /\ [Next]_vars => TypeOK'
<1> SUFFICES ASSUME TypeOK, [Next]_vars PROVE TypeOK'
  OBVIOUS
<1> USE DEF TypeOK, shared, local, history, Goto, Step, CircuitState
<1>1. CASE Tick
  BY <1>1 DEF Tick
<1>2. ASSUME NEW t \in Threads,
             AllowLoad(t) \/ AllowNow(t) \/ AllowElapsed(t) \/ AllowCas(t) \/ AllowRecheck(t)
      PROVE  TypeOK'
  <2>1. CASE AllowCas(t)
    <3>1. recovered' \in BOOLEAN
      BY <2>1, Zenon DEF AllowCas
    <3>2. /\ state' \in CircuitState /\ pc' \in [Threads -> Step]
          /\ UNCHANGED <<consecutive_failures, last_failure, now, seen_now, seen_failures, failed, resets>>
      BY <2>1 DEF AllowCas
    <3> QED
      BY <3>1, <3>2
  <2> QED
    BY <1>2, <2>1 DEF AllowLoad, AllowNow, AllowElapsed, AllowRecheck
<1>3. ASSUME NEW t \in Threads, OperationSucceeds(t) \/ OperationPanics(t)
      PROVE  TypeOK'
  BY <1>3 DEF OperationSucceeds, OperationPanics
<1>4. ASSUME NEW t \in Threads, SuccessLoad(t) \/ SuccessZero(t) \/ SuccessClose(t)
      PROVE  TypeOK'
  BY <1>4 DEF SuccessLoad, SuccessZero, SuccessClose
<1>5. ASSUME NEW t \in Threads,
             FailureAdd(t) \/ FailureNow(t) \/ FailureTime(t) \/ FailureLoad(t) \/ FailureOpen(t)
      PROVE  TypeOK'
  BY <1>5 DEF FailureAdd, FailureNow, FailureTime, FailureLoad, FailureOpen
<1>6. ASSUME NEW t \in Threads, ResetState(t) \/ ResetZero(t)
      PROVE  TypeOK'
  BY <1>6 DEF ResetState, ResetZero
<1>7. CASE UNCHANGED vars
  BY <1>7 DEF vars
<1> QED
  BY <1>1, <1>2, <1>3, <1>4, <1>5, <1>6, <1>7 DEF Next, CheckEvent

\* Every variable keeps its type in every behaviour.
THEOREM TypeCorrect == Spec => []TypeOK
  BY TypeInit, TypeStep, PTL DEF Spec

\* A half-open circuit is never left without a call that settles it.
THEOREM HalfOpenTested == Spec => []HalfOpenIsTested
<1>1. Init => HalfOpenIsTested
  BY DEF Init, HalfOpenIsTested
<1>2. TypeOK /\ HalfOpenIsTested /\ [Next]_vars => HalfOpenIsTested'
  <2> SUFFICES ASSUME TypeOK, HalfOpenIsTested, [Next]_vars, state' = "HalfOpen"
               PROVE  \E u \in Threads : pc'[u] \in Testing
    BY DEF HalfOpenIsTested
  <2> USE DEF TypeOK, Testing, Goto, shared, local, history
  <2>0. state # "HalfOpen" \/ \E u \in Threads : pc[u] \in Testing
    BY DEF HalfOpenIsTested
  <2>1. CASE Tick
    BY <2>0, <2>1 DEF Tick
  <2>2. ASSUME NEW t \in Threads,
               AllowLoad(t) \/ AllowNow(t) \/ AllowElapsed(t) \/ AllowCas(t) \/ AllowRecheck(t)
        PROVE  \E u \in Threads : pc'[u] \in Testing
    BY <2>0, <2>2 DEF AllowLoad, AllowNow, AllowElapsed, AllowCas, AllowRecheck
  <2>3. ASSUME NEW t \in Threads, OperationSucceeds(t) \/ OperationPanics(t)
        PROVE  \E u \in Threads : pc'[u] \in Testing
    BY <2>0, <2>3 DEF OperationSucceeds, OperationPanics
  <2>4. ASSUME NEW t \in Threads, SuccessLoad(t) \/ SuccessZero(t) \/ SuccessClose(t)
        PROVE  \E u \in Threads : pc'[u] \in Testing
    BY <2>0, <2>4 DEF SuccessLoad, SuccessZero, SuccessClose
  <2>5. ASSUME NEW t \in Threads,
               FailureAdd(t) \/ FailureNow(t) \/ FailureTime(t) \/ FailureLoad(t) \/ FailureOpen(t)
        PROVE  \E u \in Threads : pc'[u] \in Testing
    BY <2>0, <2>5 DEF FailureAdd, FailureNow, FailureTime, FailureLoad, FailureOpen
  <2>6. ASSUME NEW t \in Threads, ResetState(t) \/ ResetZero(t)
        PROVE  \E u \in Threads : pc'[u] \in Testing
    BY <2>0, <2>6 DEF ResetState, ResetZero
  <2>7. CASE UNCHANGED vars
    BY <2>0, <2>7 DEF vars
  <2> QED
    BY <2>1, <2>2, <2>3, <2>4, <2>5, <2>6, <2>7 DEF Next, CheckEvent
<1> QED BY <1>1, <1>2, TypeInit, TypeStep, PTL DEF Spec

\* The circuit leaves Closed only after failure_threshold recorded failures.
THEOREM TripsOnThreshold == Spec => []NeverTripsEarly
<1>1. Init => TripInv
  BY TypeInit, ThresholdAssumption DEF Init, TripInv, NeverTripsEarly
<1>2. TripInv /\ [Next]_vars => TripInv'
  <2> SUFFICES ASSUME TripInv, [Next]_vars PROVE TripInv'
    OBVIOUS
  <2>0. TypeOK /\ TypeOK'
    BY TypeStep DEF TripInv
  <2> USE <2>0, ThresholdAssumption DEF TripInv, NeverTripsEarly, TypeOK, Goto, shared, local, history
  <2>1. CASE Tick
    BY <2>1 DEF Tick
  <2>2. ASSUME NEW t \in Threads,
               AllowLoad(t) \/ AllowNow(t) \/ AllowElapsed(t) \/ AllowCas(t) \/ AllowRecheck(t)
        PROVE  TripInv'
    BY <2>2 DEF AllowLoad, AllowNow, AllowElapsed, AllowCas, AllowRecheck
  <2>3. ASSUME NEW t \in Threads, OperationSucceeds(t) \/ OperationPanics(t)
        PROVE  TripInv'
    BY <2>3 DEF OperationSucceeds, OperationPanics
  <2>4. ASSUME NEW t \in Threads, SuccessLoad(t) \/ SuccessZero(t) \/ SuccessClose(t)
        PROVE  TripInv'
    BY <2>4 DEF SuccessLoad, SuccessZero, SuccessClose
  <2>5. ASSUME NEW t \in Threads, FailureAdd(t)
        PROVE  TripInv'
    BY <2>5 DEF FailureAdd
  <2>6. ASSUME NEW t \in Threads,
               FailureNow(t) \/ FailureTime(t) \/ FailureLoad(t) \/ FailureOpen(t)
        PROVE  TripInv'
    BY <2>6 DEF FailureNow, FailureTime, FailureLoad, FailureOpen
  <2>7. ASSUME NEW t \in Threads, ResetState(t) \/ ResetZero(t)
        PROVE  TripInv'
    BY <2>7 DEF ResetState, ResetZero
  <2>8. CASE UNCHANGED vars
    BY <2>8 DEF vars
  <2> QED
    BY <2>1, <2>2, <2>3, <2>4, <2>5, <2>6, <2>7, <2>8 DEF Next, CheckEvent
<1>3. TripInv => NeverTripsEarly
  BY DEF TripInv
<1> QED BY <1>1, <1>2, <1>3, PTL DEF Spec

\* Between calls, failure_threshold consecutive failures have opened the
\* circuit, as long as no recovery has begun.  A threshold of zero, which the
\* configuration does not refuse, is left out: a circuit that was reset is
\* closed with a count of zero, which is the threshold.
THEOREM OpensOnThreshold == FailureThreshold > 0 => (Spec => []OpensAtThreshold)
<1> SUFFICES ASSUME FailureThreshold > 0 PROVE Spec => []OpensAtThreshold
  OBVIOUS
<1>1. Init => ThresholdInv
  BY ThresholdAssumption DEF Init, ThresholdInv
<1>2. TypeOK /\ ThresholdInv /\ [Next]_vars => ThresholdInv'
  <2> SUFFICES ASSUME TypeOK, ThresholdInv, [Next]_vars PROVE ThresholdInv'
    OBVIOUS
  <2> USE ThresholdAssumption DEF ThresholdInv, Settles, TypeOK, Goto, shared, local, history
  <2>1. CASE Tick
    BY <2>1 DEF Tick
  <2>2. ASSUME NEW t \in Threads,
               AllowLoad(t) \/ AllowNow(t) \/ AllowElapsed(t) \/ AllowCas(t) \/ AllowRecheck(t)
        PROVE  ThresholdInv'
    BY <2>2 DEF AllowLoad, AllowNow, AllowElapsed, AllowCas, AllowRecheck
  <2>3. ASSUME NEW t \in Threads, OperationSucceeds(t) \/ OperationPanics(t)
        PROVE  ThresholdInv'
    BY <2>3 DEF OperationSucceeds, OperationPanics
  <2>4. ASSUME NEW t \in Threads, SuccessLoad(t) \/ SuccessZero(t) \/ SuccessClose(t)
        PROVE  ThresholdInv'
    <3>1. CASE SuccessLoad(t)
      <4>1. pc[t] = "success_load" /\ UNCHANGED <<shared, seen_failures, recovered>>
        BY <3>1 DEF SuccessLoad
      <4>2. ~recovered => pc' = [pc EXCEPT ![t] = "closed_zero"] \/ pc' = [pc EXCEPT ![t] = "idle"]
        BY <3>1 DEF SuccessLoad, CircuitState
      <4> QED BY <4>1, <4>2
    <3>2. CASE SuccessZero(t)
      BY <3>2 DEF SuccessZero
    <3>3. CASE SuccessClose(t)
      BY <3>3 DEF SuccessClose
    <3> QED BY <2>4, <3>1, <3>2, <3>3
  <2>5. ASSUME NEW t \in Threads, FailureAdd(t)
        PROVE  ThresholdInv'
    BY <2>5 DEF FailureAdd
  <2>6. ASSUME NEW t \in Threads, FailureNow(t) \/ FailureTime(t)
        PROVE  ThresholdInv'
    BY <2>6 DEF FailureNow, FailureTime
  <2>7. ASSUME NEW t \in Threads, FailureLoad(t) \/ FailureOpen(t)
        PROVE  ThresholdInv'
    BY <2>7 DEF FailureLoad, FailureOpen
  <2>8. ASSUME NEW t \in Threads, ResetState(t) \/ ResetZero(t)
        PROVE  ThresholdInv'
    BY <2>8 DEF ResetState, ResetZero
  <2>9. CASE UNCHANGED vars
    BY <2>9 DEF vars
  <2> QED
    BY <2>1, <2>2, <2>3, <2>4, <2>5, <2>6, <2>7, <2>8, <2>9 DEF Next, CheckEvent
<1>3. ThresholdInv => OpensAtThreshold
  BY DEF ThresholdInv, OpensAtThreshold, Quiescent, Settles
<1> QED BY <1>1, <1>2, <1>3, TypeInit, TypeStep, PTL DEF Spec
=============================================================================
