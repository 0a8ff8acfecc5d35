CONSTANTS
    Threads = {t1, t2, t3}
    NoThread = NoThread
    Handles = {h1}
    NoHandle = NoHandle
    Waits = {"none", "poll", "timed"}
    MaxCount = 2
    MaxNeed = 2
    MaxSignals = 2
    Vars = {v1}
    NoVar = NoVar
    MaxPosts = 3
    Bits = {1, 2}
    WaitArgs <- MCWaitArgs
    MaxSets = 2
    Idents = {i1}
    Filters = {"user", "read"}
    MaxSlots = 1
    MaxArms = 2
    Locks = {l1}
    NoLock = NoLock
    Symbols = {"scePthreadRwlockRdlock", "scePthreadRwlockWrlock", "scePthreadRwlockTryrdlock", "scePthreadRwlockTrywrlock"}
    Onces = {o1, o2}
    Waiters = {w1, w2}
    Wakers = {k1}
    Addrs = {a1}
    Values = {0, 1}
    Entries = {e1, e2, e3}
    NoEntry = NoEntry
    NoAddr = NoAddr
    Objs = {m1}
    NoObj = NoObj
    MaxRecursion = 3
    MaxLevels = 2
    MutexObjs = {x1, x2}
    Zero = Zero
    Adaptive = Adaptive
SPECIFICATION Spec
SYMMETRY SyncSymmetry
INVARIANTS
    SyncObjectsTypeOK
    NoWakeupIsLost
    EachPostServesOneWait
    UntimedWaitDelivers
    ReadersAndWriterStayApart
    InitRunsAtMostOnce
    OneObjectPerVariable
PROPERTIES
    LockIsAllOrNothing
    VariablesAreFifoLocks
