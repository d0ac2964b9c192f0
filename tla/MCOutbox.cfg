CONSTANTS
    Event = {1, 2, 3}
    Worker = {w1, w2}
    Poison = {1}
    BatchSize = 2
    MaxRetries = 2
    RowModels = {"takes_limit", "no_limit"}
    MaxFaults = 2
    MaxCopies = 4
    Nothing = Nothing
SPECIFICATION FairSpec
INVARIANTS TypeOK Exclusive GivenUpJustly CopiesNeedFaults PInv
PROPERTIES Delivers RowsSettle
CHECK_DEADLOCK FALSE
