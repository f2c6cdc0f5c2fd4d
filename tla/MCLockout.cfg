SPECIFICATION Spec
CONSTANTS
    Reqs = {r1, r2, r3}
    MaxAttempts = 3
    Duration = 1
    Admins = TRUE
    MayFail = TRUE
    MaxTime = 3
    MaxWrong = 5
    None = None
SYMMETRY LockoutSymmetry
INVARIANTS TypeOK NoFalseLock PolicyHolds
CHECK_DEADLOCK FALSE
