\* Two slugs that start with legacy rows, two cleanup runs with a batch of one.
SPECIFICATION LiveSpec
CONSTANTS
    None = None
    a = a
    b = b
    u1 = u1
    u2 = u2
    ok1 = ok1
    ok2 = ok2
    js = js
    Slugs = {a, b}
    Users = {u1}
    Urls = {ok1, js}
    HttpUrls = {ok1}
    InitialRows <- MCLegacyRows
    Requests = {r1}
    Cleaners = {c1, c2}
    BatchSize = 1
    Retention = 3
    ExplicitExpiries = {1}
    TicksPerSecond = 2
    CacheTtlCap = 1
    Faults = {"redis", "abort"}
    MaxClock = 2
    MaxInserts = 0
PROPERTIES
    OverdueRowsGo
