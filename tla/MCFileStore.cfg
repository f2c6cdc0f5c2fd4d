SPECIFICATION Spec
CONSTANTS
    alice = alice
    mara = mara
    root = root
    Users = {alice, root}
    RoleOf <- MCRoles
    Files = {f1, f2}
    Levels = {"private", "department"}
    Keys = {k1, k2}
    Derived = Derived
    Reqs = {r1, r2}
    Retention = 1
    Rotations = TRUE
    RetryAttempts = 2
    Outages = {"connect", "start", "serve"}
    MayFail = TRUE
    MaxTime = 1
    None = None
SYMMETRY FileSymmetry
INVARIANTS TypeOK VisibleIsOnDisk ListedIsReadable
CHECK_DEADLOCK FALSE
