SPECIFICATION ReplanSpec
CONSTANTS
    p = p
    review = review
    None = None
    Durability = "durable_stream"
    Lifecycle = "retired"
    Retention = 1
    RetiredAt = 1
    RegistryReview = review
    Ttl = 1
    FutureTolerance = 1
    Prefix = p
    LeafKeys = {1, 2}
    LeaseFacts <- MCLeaseFacts
    TerminalFacts <- MCTerminalFacts
    MaxNow = 3
PROPERTIES
    EligibleUntilWritten
CHECK_DEADLOCK FALSE
