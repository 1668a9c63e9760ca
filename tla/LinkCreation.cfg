\* Two creations at once on an allowance of one, over a month's end, with a slug
\* space small enough for conflicts and waiting INSERTs; no symmetry, for liveness
\* is checked.
CONSTANTS
    None = None
    u1 = u1
    guest = guest
    Users = {u1}
    Guest = guest
    Slugs = {s1, s2, s3}
    Creations = {c1, c2}
    Limit <- MCLimit
    MaxSlugRetries = 2
    Faults = {"db", "reply"}
    MaxBegun = 4
    MaxMonth = 1
SPECIFICATION LiveSpec
INVARIANTS
    TypeOK
    OutboxComplete
    OneLinkPerRequest
    OvershootBounded
PROPERTIES
    ImplementsLinkRegistry
    CreationsEnd
CHECK_DEADLOCK FALSE
