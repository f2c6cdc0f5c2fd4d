SPECIFICATION Spec
CONSTANTS
    Users = {alice}
    Devices = {laptop}
    SessionIds = {s1, s2}
    Reqs = {r1, r2}
    Kinds = {"certificate", "logout"}
    RefreshTTL = 3
    AccessTTL = 2
    MaxTime = 2
    MaxEras = 1
    FirstLogins = {FALSE}
    Outages = TRUE
    None = None
SYMMETRY AuthSymmetry
INVARIANTS SessionsPerDevice
PROPERTIES LoggedOutStaysOut LogoutRevokes
CHECK_DEADLOCK FALSE
