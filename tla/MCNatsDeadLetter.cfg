CONSTANTS
    Msg = {m1, m2}
    Member = {c1}
    Poison = {m1}
    MaxDeliver = 3
    MaxFaults = 1
SPECIFICATION Spec
INVARIANT DeadLettered
CHECK_DEADLOCK FALSE
