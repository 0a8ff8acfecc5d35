CONSTANTS
    Waiters = {t1, t2}
    Wakers = {w1}
    Addrs = {a1}
    Values = {0, 1}
    Entries = {e1, e2}
    NoEntry = NoEntry
    NoAddr = NoAddr
SPECIFICATION FairSpec
PROPERTY WokenWaiterReturns
