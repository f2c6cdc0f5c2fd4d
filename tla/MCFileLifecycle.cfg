SPECIFICATION FairSpec
CONSTANTS
    alice = alice
    mara = mara
    root = root
    Users = {alice}
    RoleOf <- MCRoles
    Files = {f1, f2}
    Levels = {"private"}
    Keys = {k1, k2}
    Derived = Derived
    Reqs = {r1, r2}
    Retention = 1
    Rotations = FALSE
    RetryAttempts = 2
    Outages = {"connect"}
    MayFail = TRUE
    MaxTime = 2
    None = None
INVARIANTS DeksRemainValid OnlyMissedBytesStay
PROPERTIES RetentionHolds StartEnds DeletedIsRemoved ImplementsLifecycle
CHECK_DEADLOCK FALSE
