CONSTANTS
    Threads = {t1}
    Inodes = {i1}
    Contents = {k1, k2}
    Usable = {k1, k2}
    Unreadable = {}
    k1 = k1
    k2 = k2
    empty = empty
    Size <- MCSize
    Tick = 1
    SETTLE_TIME = 2
    Stall = 2
    MaxTime = 3
    None = None
SPECIFICATION Spec
INVARIANTS
    StampProvesContents
