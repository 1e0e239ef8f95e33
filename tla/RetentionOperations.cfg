SPECIFICATION Spec
CONSTANTS
    w1 = w1
    w2 = w2
    p = p
    o1 = o1
    t1 = t1
    t2 = t2
    Writers <- MCWriters
    Prefixes <- MCPrefixes
    PrefixOf <- MCPrefixOf
    Appliers <- MCOneApplier
    Evidence <- MCEvidence
    Durability = "disposable_acceptance"
    Lifecycle = "active"
    Retention = 1
    RetiredAt = None
    RegistryReview = None
    Ttl = 1
    FutureTolerance = 1
    MaxClock = 2
    MaxEpoch = 2
    MaxStepsBack = 0
    None = None
    Target = p
    Keys = {1, 2}
    Ops = {o1}
    Quiescence = 1
    MaxDeleteKeys = 1
    MaxAttempts = 3
    MaxWrites = 3
    StopMayFail = TRUE
    LateDeletes = TRUE
SYMMETRY MCSymmetry
INVARIANTS
    RecordedDeletionsAreReal
    AuditsPrecedeDeletion
PROPERTIES
    RemovalsConfinedAndAged
    ImplementsJournal
CHECK_DEADLOCK FALSE
