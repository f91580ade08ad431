\* A token bucket in Redis, one thread.
CONSTANTS
    TokenUnit = 2
    Threads = {t1}
    t1 = t1
    t2 = t2
    p1 = p1
    p2 = p2
    Process <- Placed
    Hashes = {26, 43}
    WarnHash = 43
    None = None
    DefaultPolicies <- OnlyBucket
    MaxCalls = 4
    MaxWalks = 0
    MaxErrors = 0
    MaxExpiries = 0
SPECIFICATION Spec
INVARIANTS
    LimitKept
CHECK_DEADLOCK FALSE
