CONSTANTS
    Event = {1, 2}
    Worker = {w1}
    Poison = {1}
    BatchSize = 2
    MaxRetries = 2
    RowModels = {"no_limit"}
    MaxFaults = 0
    MaxCopies = 1
    Nothing = Nothing
SPECIFICATION FairSpec
PROPERTY AnyRowSettles
CHECK_DEADLOCK FALSE
