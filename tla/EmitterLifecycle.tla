-------------------------- MODULE EmitterLifecycle --------------------------
(***************************************************************************)
(* The life of one emitter task: the select loop of SummaryEmitter::start, *)
(* the watch channel and the join handle in its EmitterHandle              *)
(* (src/application/emitter.rs), and the callers of the layer's shutdown,  *)
(* which share the handle through Arc<Mutex<Option<..>>>                   *)
(* (src/infrastructure/layer.rs).  What an emission does to the counters   *)
(* is in module SummaryEmission; here it is a stretch of time.             *)
(* No name is one of SummaryEmission, so that SummaryEmissionProofs can    *)
(* extend both halves of the emitter.                                      *)
(***************************************************************************)
EXTENDS Naturals

CONSTANTS
    Callers,    \* concurrent callers of TracingRateLimitLayer::shutdown
    MaxTicks    \* bound: ticks of the interval

ASSUME TicksAssumption == MaxTicks \in Nat

VARIABLES
    emit_final,  \* the emit_final argument of start
    task,      \* the control of the task
    due,       \* has the ticker fired since the last tick() returned?
    handle,    \* has the layer's Option the handle?
    takers,    \* history: the callers that took it
    signal,    \* the value in the watch channel
    unseen,    \* was a value sent that the receiver has not seen?
    sender,    \* is the sender alive?
    pc,        \* caller -> its next step
    result,    \* caller -> what shutdown returned
    ticks,     \* history: ticks of the interval
    finals,    \* history: final emissions started
    raced,     \* history: did the signal come between the polls of one select?
    late       \* history: emissions that ticks began after the signal

history == <<raced, late>>

lifecycleVars == <<emit_final, task, due, handle, takers, signal, unseen, sender, pc, result,
                   ticks, finals, history>>

\* "select" polls changed(), "tick" then polls tick(), "emit" and "final" emit.
Running == {"select", "tick", "emit", "final"}

Result == {"none", "Ok", "SignalFailed", "TaskPanicked", "TaskCancelled", "Timeout"}

LifecycleTypeOK ==
    /\ emit_final \in BOOLEAN
    /\ task \in Running \cup {"done", "panicked", "cancelled"}
    /\ due \in BOOLEAN
    /\ handle \in BOOLEAN
    /\ takers \subseteq Callers
    /\ signal \in BOOLEAN
    /\ unseen \in BOOLEAN
    /\ sender \in BOOLEAN
    /\ pc \in [Callers -> {"idle", "send", "wait", "returned"}]
    /\ result \in [Callers -> Result]
    /\ ticks \in Nat
    /\ finals \in {0, 1}
    /\ raced \in BOOLEAN
    /\ late \in Nat

LifecycleInit ==
    /\ emit_final \in BOOLEAN
    /\ task = "select"
    /\ due = TRUE
    /\ handle = TRUE
    /\ takers = {}
    /\ signal = FALSE
    /\ unseen = FALSE
    /\ sender = TRUE
    /\ pc = [c \in Callers |-> "idle"]
    /\ result = [c \in Callers |-> "none"]
    /\ ticks = 0
    /\ finals = 0
    /\ raced = FALSE
    /\ late = 0

-----------------------------------------------------------------------------
(* The task and its runtime. *)

\* The interval elapses; ticks missed while the task is busy are skipped.
IntervalElapses ==
    /\ task \in Running
    /\ ticks < MaxTicks
    /\ ticks' = ticks + 1
    /\ due' = TRUE
    /\ UNCHANGED <<emit_final, task, handle, takers, signal, unseen, sender, pc, result, finals, history>>

\* Mutant: the initial value counts as a change.
ChangedReadyAtOnce == TRUE

\* changed() is ready for an unseen value and, with an error, once the sender
\* is gone; the branch takes both alike.
ChangedReady == unseen \/ ~sender

\* Mutant: the branch breaks without the last emission.
ChangedBranchBreaks ==
    /\ task = "select"
    /\ ChangedReady
    /\ unseen' = FALSE
    /\ task' = IF signal THEN "done" ELSE "select"
    /\ UNCHANGED <<emit_final, due, handle, takers, signal, sender, pc, result, ticks, finals, history>>

\* Mutant: without emit_final the branch does not break.
ChangedBranchContinues ==
    /\ task = "select"
    /\ ChangedReady
    /\ unseen' = FALSE
    /\ task' = IF signal /\ emit_final THEN "final" ELSE "select"
    /\ finals' = IF signal /\ emit_final THEN finals + 1 ELSE finals
    /\ UNCHANGED <<emit_final, due, handle, takers, signal, sender, pc, result, ticks, history>>

\* The shutdown branch of the select: a last emission if emit_final, then
\* break; without a signal it does nothing.
ChangedBranch ==
    /\ task = "select"
    /\ ChangedReady
    /\ unseen' = FALSE
    /\ task' = IF signal THEN (IF emit_final THEN "final" ELSE "done") ELSE "select"
    /\ finals' = IF signal /\ emit_final THEN finals + 1 ELSE finals
    /\ UNCHANGED <<emit_final, due, handle, takers, signal, sender, pc, result, ticks, history>>

\* Mutant: without `biased` the select may poll tick() first.
PollTickUnbiased ==
    /\ task = "select"
    /\ task' = "tick"
    /\ UNCHANGED <<emit_final, due, handle, takers, signal, unseen, sender, pc, result, ticks, finals, history>>

\* The biased select polls changed() first; only when it is pending does it
\* turn to tick(), and then it does not look at the signal again.
PollTick ==
    /\ task = "select"
    /\ ~ChangedReady
    /\ task' = "tick"
    /\ UNCHANGED <<emit_final, due, handle, takers, signal, unseen, sender, pc, result, ticks, finals, history>>

\* The tick branch.
TickBranch ==
    /\ task = "tick"
    /\ due
    /\ due' = FALSE
    /\ task' = "emit"
    /\ late' = IF signal THEN late + 1 ELSE late
    /\ UNCHANGED <<emit_final, handle, takers, signal, unseen, sender, pc, result, ticks, finals, raced>>

\* tick() is pending too: the task waits, and whatever wakes it, the select
\* polls from the top.
Wait ==
    /\ task = "tick"
    /\ ~due
    /\ task' = "select"
    /\ UNCHANGED <<emit_final, due, handle, takers, signal, unseen, sender, pc, result, ticks, finals, history>>

\* emit_fn returned or its panic was caught: the loop goes on, or breaks.
EmissionEnds ==
    /\ task \in {"emit", "final"}
    /\ task' = IF task = "final" THEN "done" ELSE "select"
    /\ UNCHANGED <<emit_final, due, handle, takers, signal, unseen, sender, pc, result, ticks, finals, history>>

\* A panic outside emit_fn, which nothing catches: block_in_place in the walk
\* of a Redis storage panics in a current-thread runtime.
EmissionPanics ==
    /\ task \in {"emit", "final"}
    /\ task' = "panicked"
    /\ UNCHANGED <<emit_final, due, handle, takers, signal, unseen, sender, pc, result, ticks, finals, history>>

\* The tokio runtime shuts down and drops the task at an await (external).
RuntimeStops ==
    /\ task = "select"
    /\ task' = "cancelled"
    /\ UNCHANGED <<emit_final, due, handle, takers, signal, unseen, sender, pc, result, ticks, finals, history>>

-----------------------------------------------------------------------------
(* The handle. *)

Return(c, r) ==
    /\ pc' = [pc EXCEPT ![c] = "returned"]
    /\ result' = [result EXCEPT ![c] = r]

\* TracingRateLimitLayer::shutdown takes the handle, or finds none and is done.
TakeHandle(c) ==
    /\ pc[c] = "idle"
    /\ \/ /\ handle
          /\ handle' = FALSE
          /\ takers' = takers \cup {c}
          /\ pc' = [pc EXCEPT ![c] = "send"]
          /\ UNCHANGED result
       \/ /\ ~handle
          /\ Return(c, "Ok")
          /\ UNCHANGED <<handle, takers>>
    /\ UNCHANGED <<emit_final, task, due, signal, unseen, sender, ticks, finals, history>>

\* send fails when the task, and the receiver with it, is gone.
SendSignal(c) ==
    /\ pc[c] = "send"
    /\ \/ /\ task \in Running
          /\ signal' = TRUE
          /\ unseen' = TRUE
          /\ raced' = (task = "tick")
          /\ pc' = [pc EXCEPT ![c] = "wait"]
          /\ UNCHANGED <<sender, result>>
       \/ /\ task \notin Running
          /\ Return(c, "SignalFailed")
          /\ sender' = FALSE
          /\ UNCHANGED <<signal, unseen, raced>>
    /\ UNCHANGED <<emit_final, task, due, handle, takers, ticks, finals, late>>

\* What the join handle resolves to.
Outcome == CASE task = "done" -> "Ok" [] task = "panicked" -> "TaskPanicked"
             [] task = "cancelled" -> "TaskCancelled"

\* Mutant: the join handle is not awaited.
JoinAtOnce(c) ==
    /\ pc[c] = "wait"
    /\ Return(c, IF task \in Running THEN "Ok" ELSE Outcome)
    /\ sender' = FALSE
    /\ UNCHANGED <<emit_final, task, due, handle, takers, signal, unseen, ticks, finals, history>>

\* The join handle resolves within the timeout.
Join(c) ==
    /\ pc[c] = "wait"
    /\ task \notin Running
    /\ Return(c, Outcome)
    /\ sender' = FALSE
    /\ UNCHANGED <<emit_final, task, due, handle, takers, signal, unseen, ticks, finals, history>>

\* The timeout elapses first.  The join handle is dropped, which detaches the
\* task, and the sender with it.
TimeoutElapses(c) ==
    /\ pc[c] = "wait"
    /\ task \in Running
    /\ Return(c, "Timeout")
    /\ sender' = FALSE
    /\ UNCHANGED <<emit_final, task, due, handle, takers, signal, unseen, ticks, finals, history>>

\* The layer is dropped without a call of shutdown.
DropHandle ==
    /\ handle
    /\ \A c \in Callers : pc[c] = "idle"
    /\ handle' = FALSE
    /\ sender' = FALSE
    /\ pc' = [c \in Callers |-> "returned"]
    /\ UNCHANGED <<emit_final, task, due, takers, signal, unseen, result, ticks, finals, history>>

-----------------------------------------------------------------------------
TaskStep == ChangedBranch \/ PollTick \/ TickBranch \/ Wait \/ EmissionEnds

CallerStep(c) == TakeHandle(c) \/ SendSignal(c) \/ Join(c) \/ TimeoutElapses(c)

LifecycleNext ==
    \/ IntervalElapses
    \/ TaskStep
    \/ EmissionPanics
    \/ RuntimeStops
    \/ \E c \in Callers : CallerStep(c)
    \/ DropHandle

LifecycleSpec == LifecycleInit /\ [][LifecycleNext]_lifecycleVars

(***************************************************************************)
(* Fairness: the runtime polls the task while it runs, emit_fn returns,    *)
(* and a caller that has begun to shut down goes on.  Nobody has to call   *)
(* shutdown, to drop the handle or to stop the runtime.                    *)
(***************************************************************************)
LifecycleFairSpec ==
    /\ LifecycleSpec
    /\ WF_lifecycleVars(TaskStep)
    /\ \A c \in Callers : WF_lifecycleVars(SendSignal(c) \/ Join(c) \/ TimeoutElapses(c))

-----------------------------------------------------------------------------
(* Properties. *)

\* A task ends with as many final emissions as emit_final asks for, whatever
\* ticks, panics and further callers there were.
FinalsAsAsked ==
    task = "done" => signal /\ finals = IF emit_final THEN 1 ELSE 0

\* When shutdown succeeds for the caller that got the handle, the task has
\* ended: no emission follows.
OkMeansStopped ==
    \A c \in Callers : c \in takers /\ result[c] = "Ok" => task = "done"

\* "The shutdown signal is prioritized over tick events": once the signal was
\* sent no tick begins an emission, except one if the signal came when the
\* select had found changed() pending and had yet to poll tick().
NoTickAfterSignal == late <= (IF raced THEN 1 ELSE 0)

\* A tick is served, unless the task is told to stop, its runtime stops, or
\* its handle is dropped.
TicksServed ==
    (task \in {"select", "tick"} /\ due)
        ~> (task \notin {"select", "tick"} \/ signal \/ ~sender)

\* A task that was signalled ends, even if nobody waits for it any more.
SignalEndsTask == signal ~> task \notin Running

\* A task whose handle was dropped continues ("the background task will
\* continue running indefinitely"): it serves its ticks.
DroppedKeepsEmitting ==
    (task = "select" /\ due /\ ~signal) ~> (task \notin {"select", "tick"} \/ signal)

-----------------------------------------------------------------------------
(* The inductive invariant behind the safety properties. *)

\* A final emission runs once, on a signal and when it was asked for.
OneFinalInv ==
    /\ task = "final" => signal /\ emit_final /\ finals = 1
    /\ task \notin {"final", "done", "panicked"} => finals = 0

\* A caller that took the handle has begun to use it, and has a result only
\* when it is done.
HandleInv ==
    \A c \in Callers :
        /\ pc[c] = "idle" => c \notin takers
        /\ pc[c] # "returned" => result[c] = "none"

\* Only the caller that took the handle sends, and only once.
OneSenderInv ==
    /\ signal => ~handle
    /\ \A c \in Callers :
          /\ pc[c] \in {"send", "wait"} => ~handle
          /\ pc[c] = "send" => ~signal /\ \A d \in Callers \ {c} : pc[d] # "send"

\* While the loop can still come to its select, a signal that was sent makes
\* the shutdown branch ready.
SignalPending == signal /\ task \in {"select", "tick", "emit"} => ChangedReady

\* Between the two polls of a select the signal can only just have come.
RaceInv ==
    /\ ~signal => late = 0 /\ ~raced
    /\ signal /\ task = "tick" => raced /\ late = 0

LifecycleInv ==
    /\ LifecycleTypeOK
    /\ OneFinalInv
    /\ HandleInv
    /\ OneSenderInv
    /\ SignalPending
    /\ RaceInv
    /\ NoTickAfterSignal
    /\ FinalsAsAsked
    /\ OkMeansStopped
=============================================================================
