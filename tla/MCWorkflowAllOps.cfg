CONSTANTS
    a = a
    b = b
    c = c
    i1 = i1
    i2 = i2
    Absent = Absent
    Clean = Clean
    NoSubject = NoSubject
    InstanceOf <- MCInstanceOf
    Task = {a, b, c}
    Instance = {i1, i2}
    DependsOn <- Chain
    Req = {r1, r2}
    Ops <- AllOps
    SeedTask = {"PENDING", "FAILED"}
    SeedInstance <- SeedOneInstance
    Overlap = TRUE
SPECIFICATION FairSpec
INVARIANTS TypeOK SessionInv
PROPERTIES RequestsEnd
CHECK_DEADLOCK FALSE
