SPECIFICATION ReadersSpec
CONSTANTS
    None = None
    Publications = {1, 2, 3}
    Files = {1, 2}
    Scale <- MCScale
    Order <- MCOrder
    MaxDamage = 1
    First = 1
    MaxMoves = 2
    Racing = {1, 2}
    Connections = {c1, c2, c3}
    MaxConnections = 2
    MaxResolverWork = 1
    MaxBody = 1
    PageSize = 2
    MaxRequests = 5
    MaxHistory = 2
INVARIANTS
    SlotsAccounted
    ClientOutlivesHandlers
    AnswerWasActive
    CandidatesUncommitted
PROPERTIES
    ReadersEnd
CHECK_DEADLOCK FALSE
