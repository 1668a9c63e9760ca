\* One slug, two owners, two requests and a cleanup in flight, Redis failing.
SPECIFICATION Spec
CONSTANTS
    None = None
    a = a
    b = b
    u1 = u1
    u2 = u2
    ok1 = ok1
    ok2 = ok2
    js = js
    Slugs = {a}
    Users = {u1, u2}
    Urls = {ok1, ok2}
    HttpUrls = {ok1, ok2}
    InitialRows <- MCNoRows
    Requests = {r1, r2}
    Cleaners = {c1}
    BatchSize = 1
    Retention = 3
    ExplicitExpiries = {1}
    TicksPerSecond = 2
    CacheTtlCap = 1
    Faults = {"redis", "abort"}
    MaxClock = 3
    MaxInserts = 2
SYMMETRY MCSymmetry
INVARIANTS
    TypeOK
    SettledAgreement
    RedirectsAreGranted
PROPERTIES
    ChangesAreAuthorised
