\* One visitor, one request at a time, no failure: an expired link is still served.
SPECIFICATION Spec
CONSTANTS
    None = None
    a = a
    b = b
    u1 = u1
    u2 = u2
    ok1 = ok1
    ok2 = ok2
    js = js
    Slugs = {a}
    Users = {u1, u2}
    Urls = {ok1, ok2}
    HttpUrls = {ok1, ok2}
    InitialRows <- MCNoRows
    Requests = {r1}
    Cleaners = {}
    BatchSize = 1
    Retention = 3
    ExplicitExpiries = {1}
    TicksPerSecond = 2
    CacheTtlCap = 1
    Faults = {}
    MaxClock = 3
    MaxInserts = 1
INVARIANTS
    ExpiredNeverServed
