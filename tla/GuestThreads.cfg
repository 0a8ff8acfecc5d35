CONSTANTS
    Ids = {1, 2, 3}
    kMaxThreads = 2
    Kills = TRUE
SPECIFICATION FairSpec
CHECK_DEADLOCK FALSE
INVARIANTS
    TypeOK
    MemoryOutlivesGuestCode
    JoinedStaysUntilFreed
PROPERTY JoinReturns
