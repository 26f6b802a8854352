CONSTANTS
    Threads = {t1, t2}
    Inodes = {i1, i2}
    Contents = {k1, k2}
    Usable = {k1, k2}
    Unreadable = {}
    k1 = k1
    k2 = k2
    empty = empty
    Size <- MCSize
    Tick = 2
    SETTLE_TIME = 3
    Stall = 1
    MaxTime = 4
    None = None
SPECIFICATION Spec
SYMMETRY MCSymmetry
INVARIANTS
    StampProvesContents
    CallsAreFresh
