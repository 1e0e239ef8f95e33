SPECIFICATION StreamSpec
CONSTANTS
    s1 = s1
    w2 = w2
    w3 = w3
    p = p
    q = q
    Writers <- MCWriters
    Sessions <- MCSessions
    TerminalStateOf <- MCTerminalStateOf
    EvidenceOf <- MCEvidenceOf
    Prefixes <- MCPrefixes
    PrefixOf <- MCPrefixOf
    Appliers = {}
    Evidence <- MCEvidence
    Durability = "disposable_acceptance"
    Lifecycle = "active"
    Retention = 2
    RetiredAt = None
    RegistryReview = None
    Ttl = 1
    FutureTolerance = 1
    MaxClock = 2
    MaxEpoch = 2
    MaxStepsBack = 1
    None = None
INVARIANTS
    TerminalAgreesWithLease
    RunningQueryHoldsLease
    CleanExitIsTerminal
PROPERTIES
    NoTakeover
    HeartbeatLossStopsQuery
    ExitCompletes
CHECK_DEADLOCK FALSE
