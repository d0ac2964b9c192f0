CONSTANTS
    p1 = p1
    p2 = p2
    c1 = c1
    c2 = c2
    Client = {c1, c2}
    Ttl = 2
    Timeout = 1
    Process = {p1, p2}
    Skew <- Skews
    Window = 2
    MaxAllowed = 2
    Key = {k1}
    MaxFaults = 1
    Nobody = Nobody
SPECIFICATION FairSpec
INVARIANTS TypeOK Exclusive LimitHolds DeniedJustly PurgeComplete KInv
PROPERTIES ComesToRest
CHECK_DEADLOCK FALSE
