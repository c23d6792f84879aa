SPECIFICATION Spec
CONSTANTS
    Scans = {s1, s2}
    Jobs = {j1, j2}
    NoScan = NoScan
    MaxAttempts = 2
    MaxStalled = 1
    Faults = {"error"}
SYMMETRY Symmetry
INVARIANTS
    TypeOK
    CompletedHasResult
    FinalCountsAddUp
    CompletedBatchIsBacked
    CompletedJobCompletedScan
CHECK_DEADLOCK FALSE
