CONSTANTS
    Tokens = {tokenA, longToken, emptyToken}
    Long = {longToken}
    Empty = {emptyToken}
    Names = {alice, bob, nickname}
    alice = alice
    bob = bob
    nickname = nickname
    tokenA = tokenA
    longToken = longToken
    emptyToken = emptyToken
    Subject <- MCSubject
    Canon <- MCCanon
    None = None
    Anonymous = Anonymous
    Blocks = {b1, b2}
SPECIFICATION ClientSpec
INVARIANTS
    PromptsAreOwned
PROPERTIES
    NeverAsksTwice
