CONSTANTS
    a = a
    b = b
    c = c
    i1 = i1
    i2 = i2
    Absent = Absent
    Clean = Clean
    NoSubject = NoSubject
    InstanceOf <- MCInstanceOf
    Task = {a, b, c}
    Instance = {i1}
    DependsOn <- Join
    Req = {r1, r2}
    Ops = {"start_task", "cancel_task"}
    SeedTask = {"READY"}
    SeedInstance = {"PENDING"}
    Overlap = TRUE
SPECIFICATION Spec
PROPERTY RunningFromReady
CHECK_DEADLOCK FALSE
