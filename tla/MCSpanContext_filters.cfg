\* Two threads; filter b needs a field that the inner span does not declare.
CONSTANTS
    a = a
    b = b
    user = user
    tenant = tenant
    s1 = s1
    s2 = s2
    app = app
    audit = audit
    v1 = v1
    v2 = v2
    Values = {v1, v2}
    Spans = {s1, s2}
    None = None
    SummaryTarget = summary
    Stack <- TwoFilters
    ContextFields <- Configured
    Excluded <- ExcludedByB
    Exempt <- ExemptForA
    Declared <- DeclaredFields
    Events <- AllEvents
    Threads = {t1, t2}
    MaxSpans = 2
    MaxRecords = 2
    MaxEvents = 1
SPECIFICATION Spec
SYMMETRY Symmetry
INVARIANTS
    TypeOK
    CacheHoldsAttributes
    ContextComplete
PROPERTIES
    SignatureExact
CHECK_DEADLOCK FALSE
