SPECIFICATION Spec
CONSTANTS
    Reqs = {r1, r2}
    MaxAttempts = 2
    Duration = 1
    Admins = FALSE
    MayFail = FALSE
    MaxTime = 2
    MaxWrong = 4
    None = None
SYMMETRY LockoutSymmetry
INVARIANTS LockAfterMax
CHECK_DEADLOCK FALSE
