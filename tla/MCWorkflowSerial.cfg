CONSTANTS
    a = a
    b = b
    c = c
    i1 = i1
    i2 = i2
    Absent = Absent
    Clean = Clean
    NoSubject = NoSubject
    InstanceOf <- MCInstanceOf
    Task = {a, b, c}
    Instance = {i1}
    DependsOn <- Join
    Req = {r1, r2, r3, r4}
    Ops = {"start_task", "complete_task", "cancel_task", "start_instance", "pause_instance"}
    SeedTask = {"PENDING", "COMPLETED"}
    SeedInstance = {"PENDING"}
    Overlap = FALSE
SYMMETRY Requests
SPECIFICATION Spec
INVARIANTS UnlockedOnce SerialInv
PROPERTIES CancelledNeverRuns AnnouncedTruly Atomically
CHECK_DEADLOCK FALSE
