CONSTANTS
    Kids = {a, b}
    Materials = {m1, m2}
    a = a
    b = b
    m1 = m1
    m2 = m2
    MaxKeys = 3
    Names <- MCNames
    Documents <- MCDocuments
    Policies <- MCPolicies
    None = None
SPECIFICATION LoadSpec
CHECK_DEADLOCK FALSE
INVARIANTS
    LoadMatchesDocument
