CONSTANTS
    Threads = {t1, t2, t3}
    Objs = {o1}
    NoThread = NoThread
    NoObj = NoObj
    Modes = {"lock"}
    Types = {"ErrorCheck"}
    MaxRecursion = 1
    Conds = {c1}
    NoCond = NoCond
    Notifies = {"one"}
    MaxSequence = 1
SPECIFICATION PthreadCondFairSpec
CHECK_DEADLOCK FALSE
PROPERTY SignalReachesWaiter
