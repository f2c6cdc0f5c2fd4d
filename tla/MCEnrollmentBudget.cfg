SPECIFICATION Spec
CONSTANTS
    Devices = {d1, d2}
    Serials = {c1, c2}
    Tokens = {t1}
    Reqs = {r1, r2}
    Budgets = {1}
    AdminStatuses = {"blocked"}
    MayFail = FALSE
    MaxLapsed = 1
    None = None
SYMMETRY EnrollmentSymmetry
VIEW WithoutCRL
INVARIANT WithinBudget
CHECK_DEADLOCK FALSE
