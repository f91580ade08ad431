\* Three callers of shutdown racing ticks, timeouts and the runtime.
CONSTANTS
    Callers = {c1, c2, c3}
    MaxTicks = 3
SPECIFICATION LifecycleFairSpec
INVARIANTS
    FinalsAsAsked
    OkMeansStopped
    NoTickAfterSignal
PROPERTIES
    TicksServed
    SignalEndsTask
CHECK_DEADLOCK FALSE
