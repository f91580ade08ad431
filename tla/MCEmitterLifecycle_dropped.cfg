\* A handle that is dropped without a shutdown.
CONSTANTS
    Callers = {c1}
    MaxTicks = 2
SPECIFICATION LifecycleFairSpec
PROPERTIES
    DroppedKeepsEmitting
CHECK_DEADLOCK FALSE
