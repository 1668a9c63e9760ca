\* Two requests at once of two users with colliding prefixes.
CONSTANTS
    None = None
    Users = {u1, u2}
    Keys = {k1, k2, k3}
    PrefixOf <- MCPrefixOf
    Limit <- MCLimit
    Requests = {r1, r2}
    MaxBegun = 4
    MaxMonth = 1
SPECIFICATION Spec
SYMMETRY MCSymmetry
INVARIANTS
    TypeOK
    KeyOvershootBounded
    AdmissionsAreOwned
PROPERTY RevocationIsFinal
\* Once MaxBegun requests were taken and served the API is idle.
CHECK_DEADLOCK FALSE
