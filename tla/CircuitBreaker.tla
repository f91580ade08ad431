--------------------------- MODULE CircuitBreaker ---------------------------
(***************************************************************************)
(* The circuit breaker of src/application/circuit_breaker.rs, driven the   *)
(* way RateLimiter::check_event drives it: allow_request, then the         *)
(* protected operation, then record_success or record_failure.             *)
(*                                                                         *)
(* The breaker has no lock: state, consecutive_failures and                *)
(* last_failure_time are three independent atomics.  Every load, store,    *)
(* read-modify-write and clock reading of a thread is a step of its own,   *)
(* and steps of different threads interleave in any order.  (Interleaving  *)
(* is what the orderings of the code give for each atomic alone; weaker    *)
(* cross-variable reorderings of the Relaxed counter are not modelled.)    *)
(* A local variable of the code that is dead is 0.                         *)
(***************************************************************************)
EXTENDS Integers, FiniteSets

CONSTANTS
    Threads,           \* threads that log events
    FailureThreshold,  \* CircuitBreakerConfig::failure_threshold
    RecoveryTimeout,   \* CircuitBreakerConfig::recovery_timeout, in clock ticks
    MaxFailures,       \* bound: failures recorded before operations stop panicking
    MaxResets,         \* bound: calls of reset
    ClockReach         \* bound: ticks the clock runs past the last failure

ASSUME ThresholdAssumption == FailureThreshold \in Nat
ASSUME TimeoutAssumption == RecoveryTimeout \in Nat
ASSUME BreakerBounds ==
    MaxFailures \in Nat /\ MaxResets \in Nat /\ ClockReach \in Nat

VARIABLES
    state,                 \* the atomic state
    consecutive_failures,  \* the atomic counter
    last_failure,          \* the atomic last_failure_time
    now,                   \* the monotonic clock (external)
    pc,                    \* thread -> its next step
    seen_now,              \* thread -> its last reading of the clock
    seen_failures,         \* thread -> what its fetch_add returned, plus one
    recovered,             \* history: has a recovery begun since the breaker was built?
    failed,                \* history: failures recorded since the breaker was built
    resets                 \* history: calls of reset

shared == <<state, consecutive_failures, last_failure>>
local == <<pc, seen_now, seen_failures>>
history == <<recovered, failed, resets>>
vars == <<shared, now, local, history>>

CircuitState == {"Closed", "Open", "HalfOpen"}

Step ==
    {"idle",
     "check_now", "check_elapsed", "cas", "recheck",      \* allow_request
     "running",                                           \* the operation
     "success_load", "half_zero", "half_close", "closed_zero",
     "failure_add", "failure_now", "failure_time", "failure_load", "open",
     "reset_zero"}

TypeOK ==
    /\ state \in CircuitState
    /\ consecutive_failures \in Nat
    /\ last_failure \in Nat
    /\ now \in Nat
    /\ pc \in [Threads -> Step]
    /\ seen_now \in [Threads -> Nat]
    /\ seen_failures \in [Threads -> Nat]
    /\ recovered \in BOOLEAN
    /\ failed \in Nat
    /\ resets \in Nat

Init ==
    /\ state = "Closed"
    /\ consecutive_failures = 0
    /\ last_failure = 0
    /\ now = 0
    /\ pc = [t \in Threads |-> "idle"]
    /\ seen_now = [t \in Threads |-> 0]
    /\ seen_failures = [t \in Threads |-> 0]
    /\ recovered = FALSE
    /\ failed = 0
    /\ resets = 0

Goto(t, step) == pc' = [pc EXCEPT ![t] = step]

\* The clock.  Instants past the last failure by more than the recovery
\* timeout are indistinguishable, so it need not run further than that.
Tick ==
    /\ now < last_failure + ClockReach
    /\ now' = now + 1
    /\ UNCHANGED <<shared, local, history>>

-----------------------------------------------------------------------------
(* allow_request *)

AllowLoad(t) ==
    /\ pc[t] = "idle"
    /\ Goto(t, IF state = "Open" THEN "check_now" ELSE "running")
    /\ UNCHANGED <<shared, now, seen_now, seen_failures, history>>

AllowNow(t) ==
    /\ pc[t] = "check_now"
    /\ seen_now' = [seen_now EXCEPT ![t] = now]
    /\ Goto(t, "check_elapsed")
    /\ UNCHANGED <<shared, now, seen_failures, history>>

\* Instant::duration_since is zero when the failure is the later instant.
Elapsed(later, earlier) == IF later > earlier THEN later - earlier ELSE 0

AllowElapsed(t) ==
    /\ pc[t] = "check_elapsed"
    /\ Goto(t, IF Elapsed(seen_now[t], last_failure) >= RecoveryTimeout THEN "cas" ELSE "idle")
    /\ seen_now' = [seen_now EXCEPT ![t] = 0]
    /\ UNCHANGED <<shared, now, seen_failures, history>>

AllowCas(t) ==
    /\ pc[t] = "cas"
    /\ \/ /\ state = "Open"
          /\ state' = "HalfOpen"
          /\ recovered' = TRUE
          /\ Goto(t, "running")
       \/ /\ state # "Open"
          /\ Goto(t, "recheck")
          /\ UNCHANGED <<state, recovered>>
    /\ UNCHANGED <<consecutive_failures, last_failure, now, seen_now, seen_failures, failed, resets>>

AllowRecheck(t) ==
    /\ pc[t] = "recheck"
    /\ Goto(t, IF state = "HalfOpen" THEN "running" ELSE "idle")
    /\ UNCHANGED <<shared, now, seen_now, seen_failures, history>>

-----------------------------------------------------------------------------
(* The protected operation: with_event_state under catch_unwind. *)

OperationSucceeds(t) ==
    /\ pc[t] = "running"
    /\ Goto(t, "success_load")
    /\ UNCHANGED <<shared, now, seen_now, seen_failures, history>>

OperationPanics(t) ==
    /\ pc[t] = "running"
    /\ failed < MaxFailures
    /\ Goto(t, "failure_add")
    /\ UNCHANGED <<shared, now, seen_now, seen_failures, history>>

-----------------------------------------------------------------------------
(* record_success *)

\* Mutant: a success in the half-open state resets the count only.
SuccessLoadKeepsHalfOpen(t) ==
    /\ pc[t] = "success_load"
    /\ Goto(t, IF state = "Open" THEN "idle" ELSE "closed_zero")
    /\ UNCHANGED <<shared, now, seen_now, seen_failures, history>>

SuccessLoad(t) ==
    /\ pc[t] = "success_load"
    /\ Goto(t, CASE state = "HalfOpen" -> "half_zero"
                 [] state = "Closed"   -> "closed_zero"
                 [] state = "Open"     -> "idle")
    /\ UNCHANGED <<shared, now, seen_now, seen_failures, history>>

SuccessZero(t) ==
    /\ pc[t] \in {"half_zero", "closed_zero"}
    /\ consecutive_failures' = 0
    /\ Goto(t, IF pc[t] = "half_zero" THEN "half_close" ELSE "idle")
    /\ UNCHANGED <<state, last_failure, now, seen_now, seen_failures, history>>

SuccessClose(t) ==
    /\ pc[t] = "half_close"
    /\ state' = "Closed"
    /\ Goto(t, "idle")
    /\ UNCHANGED <<consecutive_failures, last_failure, now, seen_now, seen_failures, history>>

-----------------------------------------------------------------------------
(* record_failure *)

FailureAdd(t) ==
    /\ pc[t] = "failure_add"
    /\ consecutive_failures' = consecutive_failures + 1
    /\ seen_failures' = [seen_failures EXCEPT ![t] = consecutive_failures + 1]
    /\ failed' = failed + 1
    /\ Goto(t, "failure_now")
    /\ UNCHANGED <<state, last_failure, now, seen_now, recovered, resets>>

FailureNow(t) ==
    /\ pc[t] = "failure_now"
    /\ seen_now' = [seen_now EXCEPT ![t] = now]
    /\ Goto(t, "failure_time")
    /\ UNCHANGED <<shared, now, seen_failures, history>>

FailureTime(t) ==
    /\ pc[t] = "failure_time"
    /\ last_failure' = seen_now[t]
    /\ seen_now' = [seen_now EXCEPT ![t] = 0]
    /\ Goto(t, "failure_load")
    /\ UNCHANGED <<state, consecutive_failures, now, seen_failures, history>>

\* Mutants: any failure opens a closed circuit; a failed test does not reopen
\* the circuit; the threshold has to be exceeded.
FailureLoadAnyFailure(t) ==
    /\ pc[t] = "failure_load"
    /\ Goto(t, IF state # "Open" THEN "open" ELSE "idle")
    /\ seen_failures' = [seen_failures EXCEPT ![t] = 0]
    /\ UNCHANGED <<shared, now, seen_now, history>>
FailureLoadClosedOnly(t) ==
    /\ pc[t] = "failure_load"
    /\ Goto(t, IF state = "Closed" /\ seen_failures[t] >= FailureThreshold THEN "open" ELSE "idle")
    /\ seen_failures' = [seen_failures EXCEPT ![t] = 0]
    /\ UNCHANGED <<shared, now, seen_now, history>>
FailureLoadAbove(t) ==
    /\ pc[t] = "failure_load"
    /\ Goto(t, IF state = "HalfOpen" \/ (state = "Closed" /\ seen_failures[t] > FailureThreshold) THEN "open" ELSE "idle")
    /\ seen_failures' = [seen_failures EXCEPT ![t] = 0]
    /\ UNCHANGED <<shared, now, seen_now, history>>

FailureLoad(t) ==
    /\ pc[t] = "failure_load"
    /\ Goto(t, IF \/ state = "HalfOpen"
                  \/ state = "Closed" /\ seen_failures[t] >= FailureThreshold
               THEN "open" ELSE "idle")
    /\ seen_failures' = [seen_failures EXCEPT ![t] = 0]
    /\ UNCHANGED <<shared, now, seen_now, history>>

FailureOpen(t) ==
    /\ pc[t] = "open"
    /\ state' = "Open"
    /\ Goto(t, "idle")
    /\ UNCHANGED <<consecutive_failures, last_failure, now, seen_now, seen_failures, history>>

-----------------------------------------------------------------------------
(* reset *)

ResetState(t) ==
    /\ pc[t] = "idle"
    /\ resets < MaxResets
    /\ resets' = resets + 1
    /\ state' = "Closed"
    /\ Goto(t, "reset_zero")
    /\ UNCHANGED <<consecutive_failures, last_failure, now, seen_now, seen_failures, recovered, failed>>

ResetZero(t) ==
    /\ pc[t] = "reset_zero"
    /\ consecutive_failures' = 0
    /\ Goto(t, "idle")
    /\ UNCHANGED <<state, last_failure, now, seen_now, seen_failures, history>>

-----------------------------------------------------------------------------
CheckEvent(t) ==
    \/ AllowLoad(t) \/ AllowNow(t) \/ AllowElapsed(t) \/ AllowCas(t) \/ AllowRecheck(t)
    \/ OperationSucceeds(t) \/ OperationPanics(t)
    \/ SuccessLoad(t) \/ SuccessZero(t) \/ SuccessClose(t)
    \/ FailureAdd(t) \/ FailureNow(t) \/ FailureTime(t) \/ FailureLoad(t) \/ FailureOpen(t)

Next ==
    \/ Tick
    \/ \E t \in Threads : CheckEvent(t) \/ ResetState(t) \/ ResetZero(t)

Spec == Init /\ [][Next]_vars

\* Fairness: time passes, and every thread keeps logging events and finishes
\* the call it is in.  Nobody has to call reset.
FairSpec ==
    /\ Spec
    /\ WF_vars(Tick)
    /\ \A t \in Threads : WF_vars(CheckEvent(t)) /\ WF_vars(ResetZero(t))

-----------------------------------------------------------------------------
(* Properties. *)

\* The circuit leaves Closed only after failure_threshold recorded failures:
\* no interleaving of the counter's resets and increments trips it early.
NeverTripsEarly == state # "Closed" => failed >= FailureThreshold

\* Steps of a call after which its effect on a half-open circuit is certain.
Testing ==
    {"running", "success_load", "half_zero", "half_close",
     "failure_add", "failure_now", "failure_time", "failure_load", "open"}

\* A half-open circuit is always being tested: some call is under way whose
\* outcome will close or reopen it, so the half-open state is never orphaned.
HalfOpenIsTested == state = "HalfOpen" => \E t \in Threads : pc[t] \in Testing

Quiescent == \A t \in Threads : pc[t] = "idle"

\* Once no call is under way, failure_threshold consecutive failures have
\* opened the circuit ("Number of consecutive failures before opening
\* circuit"), as long as no recovery has begun: record_success may close the
\* circuit over failures that came after the load of a half-open state.
OpensAtThreshold ==
    Quiescent /\ consecutive_failures >= FailureThreshold /\ failed > 0 /\ ~recovered
        => state # "Closed"

\* As events keep coming and the operation stops failing, an open circuit
\* closes again.
EventuallyCloses == (state = "Open") ~> (state = "Closed")

\* The inductive invariant behind NeverTripsEarly: neither the counter nor a
\* thread's copy of it exceeds the failures recorded, and a thread that is
\* about to open the circuit has seen enough of them.
TripInv ==
    /\ TypeOK
    /\ NeverTripsEarly
    /\ consecutive_failures <= failed
    /\ \A t \in Threads :
          /\ seen_failures[t] <= failed
          /\ pc[t] = "open" => failed >= FailureThreshold

\* The inductive invariant behind OpensAtThreshold.  Before the first recovery
\* nothing is half-open, and a closed circuit with failure_threshold failures
\* or more always has somebody who settles it: a reset that has yet to clear
\* the counter, or a failure that saw the threshold and has yet to open.
Settles(t) ==
    \/ pc[t] \in {"reset_zero", "open"}
    \/ /\ pc[t] \in {"failure_now", "failure_time", "failure_load"}
       /\ seen_failures[t] >= FailureThreshold

ThresholdInv ==
    ~recovered =>
        /\ state # "HalfOpen"
        /\ \A t \in Threads : pc[t] \notin {"half_zero", "half_close"}
        /\ state = "Closed" /\ consecutive_failures >= FailureThreshold
              => \E t \in Threads : Settles(t)
=============================================================================
