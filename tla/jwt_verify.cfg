CONSTANTS
    Kids = {a, b}
    Materials = {m1, m2}
    a = a
    b = b
    m1 = m1
    m2 = m2
    MaxKeys = 0
    Names <- MCNames
    Documents <- MCVerifyDocuments
    Policies <- MCVerifyPolicies
    None = None
    I64_MAX = 3
    MaxNow = 3
    Absent = Absent
    Invalid = Invalid
    Tokens <- MCTokens
    Usernames <- MCUsernames
    Trimmed <- MCTrimmed
    Lower <- MCLower
    WithControls = {control}
    alice = alice
    rooot = rooot
    Root = Root
    spaced = spaced
    control = control
SPECIFICATION Spec
CHECK_DEADLOCK FALSE
INVARIANTS
    TypeOK
    VerdictIsPolicy
    AcceptedOnce
