\* Two threads under every policy; a thread may be overtaken after it has read
\* the clock.
CONSTANTS
    TokenUnit = 2
    Threads = {t1, t2}
    Signatures = {s1, s2}
    None = None
    Policies <- EveryPolicy
    MaxEvents = 4
    MaxClock = 3
    MaxEvictions = 1
    MaxReadings = 1
SPECIFICATION Spec
SYMMETRY Symmetry
INVARIANTS
    TypeOK
    MetricsMatchCounters
    ScheduleKept
    IntervalBound
PROPERTIES
    SnapshotConsistent
    SuppressesOnlyWhenUsedUp
CHECK_DEADLOCK FALSE
