CONSTANTS
    Threads = {t1, t2, t3}
    Objs = {o1}
    NoThread = NoThread
    NoObj = NoObj
    Modes = {"lock", "try", "timed"}
    Types = {"ErrorCheck", "Recursive", "Normal", "AdaptiveNp"}
    MaxRecursion = 2
    Conds = {c1}
    NoCond = NoCond
    Notifies = {"one", "all"}
    MaxSequence = 2
SPECIFICATION PthreadCondSpec
SYMMETRY CondSymmetry
INVARIANTS
    PthreadCondTypeOK
    MutualExclusion
    NeverFreeWithWaiter
    GrantReachesCaller
    WaiterHoldsNothing
PROPERTY ImplementsFifoLock
