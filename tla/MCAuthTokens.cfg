SPECIFICATION Spec
CONSTANTS
    Users = {alice}
    Devices = {laptop}
    SessionIds = {s1}
    Reqs = {r1, r2}
    Kinds = {"login", "refresh", "change", "force", "reset", "deactivate", "activate"}
    RefreshTTL = 2
    AccessTTL = 1
    MaxTime = 2
    MaxEras = 1
    FirstLogins = {TRUE, FALSE}
    Outages = FALSE
    None = None
SYMMETRY AuthSymmetry
INVARIANTS TypeOK StaleOnlyIfInFlight RotationConsumesFirst TemporaryMustChange
PROPERTY ImplementsLifecycle
CHECK_DEADLOCK FALSE
