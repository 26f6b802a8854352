CONSTANTS
    Tokens = {tokenA, longToken, emptyToken}
    Long = {longToken}
    Empty = {emptyToken}
    Names = {alice, bob, nickname}
    alice = alice
    bob = bob
    nickname = nickname
    tokenA = tokenA
    longToken = longToken
    emptyToken = emptyToken
    Subject <- MCSubject
    Canon <- MCCanon
    None = None
    Anonymous = Anonymous
    Blocks = {b1}
    Ssf = {255, 256}
    Nul = {}
    MaxExchanges = 2
SPECIFICATION FairSpec
INVARIANTS
    TypeOK
    IdentitiesAgree
    NoSplitOutcome
PROPERTIES
    IsAuthentication
    AttemptsEnd
