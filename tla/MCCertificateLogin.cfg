SPECIFICATION LoginSpec
CONSTANTS
    Devices = {d1}
    Serials = {c1, c2, c3}
    Tokens = {t1}
    Reqs = {r1, r2}
    Logins = {l1}
    Budgets = {1}
    AdminStatuses = {"approved", "blocked"}
    MayFail = TRUE
    MaxLapsed = 1
    None = None
SYMMETRY LoginSymmetry
VIEW Observed
INVARIANTS TypeOK OneValidCertificate HeldIsBound NeverOvercharged VerifiedAtOnce DecisionStands
PROPERTIES RevocationIsFinal ImplementsLineage
CHECK_DEADLOCK FALSE
