\* One tab and no fault are enough to keep a superseded token listed.
CONSTANTS
    None = None
    Users = {u1}
    Browsers = {b1}
    Requests = {r1}
    RefreshTtl = 2
    Faults = {}
    MaxIssued = 3
    MaxClock = 3
SPECIFICATION Spec
INVARIANT RotationRetiresTheToken
