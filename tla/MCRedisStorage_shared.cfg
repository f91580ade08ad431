\* Two threads of a process and one of another; the key of 18 parses to 12.
CONSTANTS
    TokenUnit = 2
    Threads = {t1, t2, t3}
    t1 = t1
    t2 = t2
    p1 = p1
    p2 = p2
    Process <- Placed
    Hashes = {12, 18}
    WarnHash = 12
    None = None
    DefaultPolicies <- BothKinds
    MaxCalls = 3
    MaxWalks = 1
    MaxErrors = 2
    MaxExpiries = 1
SPECIFICATION FairSpec
INVARIANTS
    TypeOK
    SuppressesOnlyOverLimit
    NeverOverCounts
PROPERTIES
    CallsReturn
CHECK_DEADLOCK FALSE
