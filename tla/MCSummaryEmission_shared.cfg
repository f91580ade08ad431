\* One emitter task that may panic, beside a caller of collect_summaries: both
\* may hold claims on the same entry, which may be evicted meanwhile.
CONSTANTS
    Signatures = {s1}
    Emitters = {e1}
    Collectors = {c1}
    MinCount = 1
    EmitFinal = FALSE
    MaxSuppressions = 4
    MaxEpoch = 1
SPECIFICATION FairSpec
INVARIANTS
    NoSuppressionLost
PROPERTIES
    EventuallyReported
CHECK_DEADLOCK FALSE
