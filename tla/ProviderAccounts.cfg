\* Three requests at once on two emails and two identities, one of which may
\* report either email and the other the same one, with failing statements and
\* lost COMMIT replies; no symmetry, for liveness is checked.
CONSTANTS
    a = a
    b = b
    g = g
    h = h
    None = None
    Users = {u1, u2, u3}
    Emails = {a, b}
    Passwords = {p}
    Ids = {g, h}
    EmailsOf <- MCShared
    Requests = {r1, r2, r3}
    Faults = {"db", "reply"}
    MaxBegun = 3
SPECIFICATION LiveSpec
INVARIANTS
    TypeOK
    SecondPassLands
    NoAccountIsLockedOut
    AnswersAreEarned
PROPERTIES
    RequestsEnd
    ImplementsRegistry
\* Once MaxBegun requests were taken and served the API is idle.
CHECK_DEADLOCK FALSE
