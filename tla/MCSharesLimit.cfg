SPECIFICATION Spec
CONSTANTS
    alice = alice
    bob = bob
    f1 = f1
    s1 = s1
    s2 = s2
    r1 = r1
    r2 = r2
    r3 = r3
    c1 = c1
    Users = {alice, bob}
    Files = {f1}
    Owner <- MCOwner
    ShareIds = {s1}
    Reqs = {r1, r2}
    Offers <- LimitedOffer
    Expiries = {1}
    Attempts = {"DOWNLOAD"}
    Certificates = {c1}
    NoDevice = NoDevice
    Indexed = TRUE
    NoShare = NoShare
    MaxTime = 2
    MaxServed = 2
SYMMETRY ShareSymmetry
INVARIANT DownloadLimitHolds
CHECK_DEADLOCK FALSE
