CONSTANTS
    Tokens <- MCTokens
    Long = {}
    Empty = {}
    Names <- MCNames
    Nul <- MCNul
    Subject <- MCSubject
    Canon <- MCCanon
    Fold <- MCFold
    None = None
    Ssf = {255, 256}
    Algorithms <- MCAlgorithms
    Numerals <- MCNumerals
    ValueOf <- MCValueOf
    Legacy <- MCLegacy
    Alg <- MCAlg
    Files <- MCFiles
    Foreign <- MCForeign
    Offered <- MCOffered
SPECIFICATION Spec
INVARIANTS
    DeniedStaysOut
    OnlyOverTls
    FrontEndsAgree
    ReadIsWritten
    NamesSurvive
