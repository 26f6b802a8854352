CONSTANTS
    Threads = {t1, t2}
    Inodes = {i1}
    Contents = {p1, p2exposed, cut}
    Exposed = {p2exposed}
    p1 = p1
    p2exposed = p2exposed
    cut = cut
    policy1 = policy1
    policy2 = policy2
    Configs = {policy1, policy2}
    Parsed <- MCParsed
    Size <- MCSize
    FileArgs = fileArgs
    InlineArgs = {inlineArgs}
    FaultyArgs = {faultyArgs}
    ConflictArgs = {conflictArgs}
    Tick = 1
    SETTLE_TIME = 1
    Stall = 0
    MaxTime = 1
    None = None
SPECIFICATION FairSpec
INVARIANTS
    TypeOK
    CachedIsCurrent
    NeverFromExposed
PROPERTIES
    ConfigIsFreshRead
    EveryConfigReturns
