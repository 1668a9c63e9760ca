\* Two tabs of one browser, two fresh families beyond the first, every fault.
CONSTANTS
    None = None
    Users = {u1}
    Browsers = {b1}
    Requests = {r1, r2}
    RefreshTtl = 2
    Faults = {"redis", "db", "abort"}
    MaxIssued = 3
    MaxClock = 3
SPECIFICATION Spec
SYMMETRY MCSymmetry
INVARIANTS
    TypeOK
    UnrevokedTokensWork
    LoggedOutStaysOut
