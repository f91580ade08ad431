\* Two threads that evict, insert and clean up at the same time.
CONSTANTS
    Threads = {t1, t2}
    Keys = {k1, k2, k3}
    k1 = k1
    None = None
    Policies <- AllPolicies
    EntrySize = 3
    UsizeRange = 64
    Priority <- Ranked
    SampleSize = 2
    MaxOps = 5
    MaxCleanups = 1
SPECIFICATION Spec
SYMMETRY Symmetry
INVARIANTS
    EvictionsCounted
    GrowthBounded
    MemoryAccounted
    EvictionsNeeded
CHECK_DEADLOCK FALSE
