SPECIFICATION MCSpec
CONSTANTS
    NDocs = 2
    Runs = {1, 2}
    Batch = 1
    Grace = 2
    RunLimit = 1
    MaxClock = 2
    MaxFaults = 1
INVARIANTS
    TypeOK
    Recoverable
    NothingLeaks
PROPERTIES
    BackedUpAtLast
    PurgedAtLast
CHECK_DEADLOCK FALSE
