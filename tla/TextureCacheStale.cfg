CONSTANTS
    Queues = {"dcb"}
    Shaders = {s1}
    BadShaders = {}
    StoringShaders = {}
    PlainShaders = {}
    Layouts = {l1}
    Displays = {d1}
    kMaxPendingTargetless = 2
    MaxDraws = 2
    MaxFlips = 1
    MaxWork = 3
    MaxRewrites = 1
    None = None
    Programs <- MCPrograms
    UserData = {0, 1}
    Descriptors <- MCDescriptors
    kMaxInstructions = 6
    MaxSteps = 7
    W = 8
    Seeds = {0, 1, 18, 127, 128, 255}
    Immediates = {1, 15}
    DrawCalls <- MCDrawCalls
    Textures = {"t1", "t2"}
    Bases = {"b1", "b2"}
    Importable = {}
    kBatchDraws = 2
    kIndexRing = 2
    kStagingRing = 3
    kMaxSets = 2
    kMaxTextures = 0
    kMaxGuestBuffers = 0
    MaxDrawn = 3
    MaxWrites = 1
    PAGE_SIZE = 2
    CachedTextures <- MCOneTexture
    Stores = {2}
    CacheLimit = 1
    PhysPool = {}
    KernelStates = {FALSE}
    MaxGeneration = 2
    Images = {1, 2}
    Extents = {1, 2}
    MaxFrames = 3
SPECIFICATION Spec
INVARIANT NoStaleImage
CHECK_DEADLOCK FALSE
