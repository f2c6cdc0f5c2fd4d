SPECIFICATION Spec
CONSTANTS
    Ids = {i1, i2, i3}
    Emails = {root, staff}
    SeedEmail = root
    Reqs = {r1, r2}
    Grantable = {"SUPER_ADMIN", "ADMIN"}
    AccessTTL = 1
    MaxTime = 1
    MaxAccess = 1
    None = None
SYMMETRY RolesSymmetry
INVARIANTS TypeOK ClaimsAreRecent OneAccountPerEmail ServesSeeded
PROPERTIES InactiveGetsNoTokens SeedLeavesAccountsAlone
CHECK_DEADLOCK FALSE
