CONSTANTS
    Workers = {w1}
    MaxSessions = 2
    Names = {1, 2, 3, 4}
    FileOf <- MCFileOf
    NeedsOf <- MCNeedsOf
    Late = 5
    Modules = {1, 2, 3}
    MainImages <- MCMainImages
    PrxImages <- MCPrxImages
    PageWords = 2
    Hint = 8
    Step = 8
    WindowEnd = 32
    Implemented = {"h", "vt", "g"}
    Forced = {"g"}
    OwnedData = {"vt"}
    Tids = {1, 2}
    Openers = {o1, o2}
    CrtFds = {3, 4}
    Structs = {101}
    Content <- MCContent
    MaxOpenings = 2
    MaxLine = 3
    Resolvers = {r1, r2}
    Registrations <- MCRegistrations
    Requests <- MCRequests
    ThunkSlots = 4
    Clients = {c1, c2}
    Ports = {p1, p2}
    Queues = {q1}
    kMaxOpenPorts = 1
    MaxPumps = 2
    Nobody = Nobody
    Flippers = {c1, c2}
    Slots = {0, 1}
    Frames = {b1, b2}
    MaxFlips = 3
    NoFrame = NoFrame
    Players = {c1, c2}
    kMaxBuffersInFlight = 2
    MaxBlocks = 3
    MaxOpens = 2
    Tracks = {"a", "b", "c"}
    File <- MCFile
    MaxCalls = 4
    NoTrack = "none"
    GlobalFiles <- MCGlobalFiles
    TitleFiles <- MCTitleFiles
    FilePaths <- MCFilePaths
    Cuts = {40}
    MaxStarts = 2
    MaxSaves = 1
    Users = {"u1"}
    XtsKeys = {"k1", "k2"}
    NoKeys = "none"
    Configs <- MCConfigs
    Trophies = {"t1"}
    MaxRuns = 3
    MaxWrites = 2
    Titles = {"A", "B"}
    NamesOfTitles <- MCNamesOfTitles
    MaxEdits = 3
SPECIFICATION SoundSpec
PROPERTY StopReturns
CHECK_DEADLOCK FALSE
