CONSTANTS
    Threads = {t1, t2}
    Inodes = {i1}
    Contents = {k1, empty, binary}
    Usable = {k1}
    Unreadable = {binary}
    k1 = k1
    k2 = k2
    empty = empty
    Size <- MCSize
    Tick = 1
    SETTLE_TIME = 1
    Stall = 0
    MaxTime = 1
    None = None
SPECIFICATION FairSpec
INVARIANTS
    TypeOK
PROPERTIES
    IsFreshRead
    EveryCallReturns
