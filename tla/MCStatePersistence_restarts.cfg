SPECIFICATION Spec
CONSTANTS
    Processes = {p, q}
    Emitter = p
    None = None
    StoredValues <- Stored
    MaxClock = 1
    MaxSuppressions = 3
    MaxCrashes = 1
    MaxFailures = 2
INVARIANTS CountsSurvive StampDriftBounded
CHECK_DEADLOCK FALSE
