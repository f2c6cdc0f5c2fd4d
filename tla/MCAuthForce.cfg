SPECIFICATION Spec
CONSTANTS
    Users = {alice}
    Devices = {laptop}
    SessionIds = {s1}
    Reqs = {r1, r2}
    Kinds = {"login", "force"}
    RefreshTTL = 2
    AccessTTL = 2
    MaxTime = 2
    MaxEras = 1
    FirstLogins = {TRUE}
    Outages = FALSE
    None = None
SYMMETRY AuthSymmetry
INVARIANT ReturnedTokensAreStored
CHECK_DEADLOCK FALSE
