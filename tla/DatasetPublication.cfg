SPECIFICATION PublicationSpec
CONSTANTS
    a = a
    b = b
    r = r
    None = None
    Publishers <- MCPublishers
    Duration = 2
    Window = 1
    MaxServer = 2
    MaxDelayed = 1
    Files = {1, 2}
    Mode <- MCMode
    Rollbacks <- MCRollbacks
    MaxPending = 1
INVARIANTS
    HistoryComplete
    NothingDropped
    HolderIsStored
    CommittedWasActive
PROPERTIES
    NoEarlyTakeover
    ImplementsRegister
CHECK_DEADLOCK FALSE
