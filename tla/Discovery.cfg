SPECIFICATION FairSpec
CONSTANTS
    Urls = {p1}
    Users = {c1, c2}
    MaxEdits = 3
    MaxAttempts = 2
    MaxStalled = 1
    Faults = {"error", "crash"}
INVARIANTS
    TypeOK
    CompletedJobIsDone
PROPERTIES
    FoundPagesStay
    CancelSticks
    JobEnds
    CacheCatchesUp
CHECK_DEADLOCK FALSE
