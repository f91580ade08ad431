\* One emitter task, no other caller; entries are evicted while claims are out.
CONSTANTS
    Signatures = {s1, s2}
    Emitters = {e1}
    Collectors = {}
    MinCount = 2
    EmitFinal = TRUE
    MaxSuppressions = 4
    MaxEpoch = 1
SPECIFICATION Spec
SYMMETRY Symmetry
INVARIANTS
    ReportedWithinSuppressed
    NoDuplicateDelivery
    SummarySpansItsSuppressions
PROPERTIES
    FinalEmissionCovers
    ImplementsDelivery
CHECK_DEADLOCK FALSE
