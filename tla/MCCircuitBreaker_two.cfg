\* Two threads that keep logging, a reset, failures up to past a recovery.
CONSTANTS
    Threads = {t1, t2}
    FailureThreshold = 2
    RecoveryTimeout = 2
    MaxFailures = 4
    MaxResets = 1
    ClockReach = 2
SPECIFICATION FairSpec
INVARIANTS
    NeverTripsEarly
    HalfOpenIsTested
    OpensAtThreshold
PROPERTIES
    EventuallyCloses
