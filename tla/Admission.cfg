\* POST /api/urls on two pods with every kind of credential, next to requests of
\* other routes; three lookups of the guest's row, which is seeded with two ids.
CONSTANTS
    None = None
    Bad = Bad
    u1 = u1
    u2 = u2
    Users = {u1, u2}
    Guest = guest
    Pods = {p1, p2}
    Requests <- MCRequests
    Budget <- MCBudget
    GuestFlag = TRUE
    MaxCame = 3
    GuestIds = {g1, g2}
    Lookups = {l1, l2, l3}
SPECIFICATION AdmissionSpec
SYMMETRY MCSymmetry
INVARIANTS
    AdmissionTypeOK
    GuestCreationsBounded
    BudgetsAreApart
    GuestIsSeeded
    SchemesHold
