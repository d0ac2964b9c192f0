CONSTANTS
    a = a
    b = b
    c = c
    i1 = i1
    i2 = i2
    Absent = Absent
    Clean = Clean
    NoSubject = NoSubject
    InstanceOf <- MCInstanceOf
    Task = {a, b, c}
    Instance = {i1}
    DependsOn <- Join
    Req = {r1, r2}
    Ops = {"complete_task"}
    SeedTask = {"PENDING", "COMPLETED"}
    SeedInstance = {"PENDING"}
    Overlap = FALSE
SPECIFICATION Spec
PROPERTY LastParentUnlocks
CHECK_DEADLOCK FALSE
