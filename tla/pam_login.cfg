CONSTANTS
    Threads = {t1}
    Stack <- MCStack
    Files <- MCFiles
    Docs <- MCDocs
    Tokens <- MCTokens
    Users <- MCUsers
    Hosts <- MCHosts
    Garbage = Garbage
    Replaced = Replaced
    None = None
    Algorithms = {}
    Numerals = {}
    ValueOf <- MCValueOf
SPECIFICATION FairSpec
INVARIANTS
    TypeOK
    LetInByPolicy
    AskedOnce
    StackSeesAnswer
PROPERTIES
    LoginEnds
