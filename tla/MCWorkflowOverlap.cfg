CONSTANTS
    a = a
    b = b
    c = c
    i1 = i1
    i2 = i2
    Absent = Absent
    Clean = Clean
    NoSubject = NoSubject
    InstanceOf <- MCInstanceOf
    Task = {a, b, c}
    Instance = {i1}
    DependsOn <- Join
    Req = {r1, r2, r3}
    Ops = {"start_task", "complete_task", "cancel_task", "start_instance", "request_approval"}
    SeedTask = {"PENDING", "COMPLETED"}
    SeedInstance = {"PENDING"}
    Overlap = TRUE
SYMMETRY Requests
SPECIFICATION Spec
INVARIANTS OutboxAtomic UnlockJustified
PROPERTIES ChangesAnnounced
CHECK_DEADLOCK FALSE
