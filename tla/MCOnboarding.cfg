CONSTANTS
    User = {u1, u2}
    Before = {u2}
    Other = {k1}
    Role = {r1}
    Org = {o1}
    Department = {d1}
    Project = {p1}
    Member = {c1}
    MaxDeliver = 2
    MaxCopies = 1
    MaxRequests = 3
    MaxFaults = 2
SPECIFICATION FairSpec
INVARIANTS TypeOK RowsHaveAccounts LockedOut FollowersAgree NoPhantom LossNeedsFaults RepeatsNeedFaults OInv
PROPERTIES Onboarded
CHECK_DEADLOCK FALSE
