CONSTANTS
    t1 = t1
    t2 = t2
    Event <- Events
    Task <- Tasks
    TaskOf <- TaskMap
    WellFormed = {1, 2}
    Handler = {h1, h2}
    Replies = {"answer", "tools", "raise"}
    MaxIterations = 2
    MaxDeliveries = 2
    MaxFaults = 2
    Nothing = Nothing
SPECIFICATION FairSpec
INVARIANTS TypeOK OneExecution FinishedTogether StrandedForCause
PROPERTIES Promise CallsEnd
CHECK_DEADLOCK FALSE
