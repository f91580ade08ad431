SPECIFICATION Spec
CONSTANTS
    TokenUnit = 2
    None = None
    DefaultPolicy <- Bucket
    DefaultSignatures = 2
    DefaultInterval = 1
    Policies <- SmallPolicies
    Intervals = {0, 1}
    SignatureLimits = {0, 1}
    Strategies <- EveryStrategy
    SpanFieldLists <- SpanLists
    ExcludedLists <- Exclusions
    TargetLists <- Targets
    Events <- Logs
    SummaryTarget = "summary"
    CustomTarget = "custom"
    TerseTarget = "terse"
    Priority <- ByTarget
    EntrySize = 2
    SampleSize = 2
    MaxEvents = 3
    MaxSummaries = 4
INVARIANTS LimitHonoured EventsAccounted SummariesBounded
CHECK_DEADLOCK FALSE
