CONSTANTS
    PoolPages = 4
    WindowPages = 2
    MaxSize = 2
    Readers = {r1}
    Mutators = {m1, m2}
    CachedPages = {"p", "q"}
    MaxGeneration = 4
    Callers = {c1, c2}
    MAX_FDS = 5
    FileHandles = {f1}
    Sockets = {s1}
    NoFile = NoFile
    MaxOffset = 1
    PageSize = 2
    LastPage = 2
    Sizes = {4}
    Lengths = {2, 3}
    AddressSpace = 64
    kHeaderSize = 2
    kHeapChunkSize = 16
    SplitAt = 6
    Chunks = {16, 40}
    AllocSizes = {1, 8, 40, 63}
    Aligns = {2, 4}
    MaxLive = 2
    Exceptions = {e1, e2}
    NoException = NoException
    Types = {"A"}
    AnyType = "any"
    MaxDepth = 4
    PHYS_POOL_SIZE = 10
    PHYS_COMMIT_CHUNK = 4
    FirstOffset = 2
    DirectSizes = {1, 3, 4}
    DirectAligns = {1, 4}
    MaxHeld = 2
    MaxBoots = 2
    Threads = {t1, t2, u1}
    Unbound = {u1}
    Sites = {i1}
    StubRoom = 1
    kMaxRetries = 1
    Shared = Shared
    Fragile = {Shared}
    Nobody = Nobody
SPECIFICATION Spec
SYMMETRY ResourceSymmetry
INVARIANTS
    ResourcesTypeOK
    NothingIsHandedOutTwice
    BlocksArriveReady
    TablesFollowTheHost
    AccessesMatchReference
    RacesAreSurvived
PROPERTY ExceptionsLiveUntilHandled
CHECK_DEADLOCK FALSE
