SPECIFICATION AdminSpec
CONSTANTS
    NoScan = NoScan
    MaxAttempts = 1
    MaxStalled = 0
    Scans = {s1}
    Jobs = {j1, j2}
    Faults = {"error"}
    Admins = {a1}
    Ops = {"userCancel", "aging", "cancelBatch", "deleteBatch", "deleteScan", "retryScan", "retryFailedScans"}
SYMMETRY Symmetry
INVARIANTS
    AdminTypeOK
    CompletedHasResult
PROPERTIES
    DeletedStaysDeleted
CHECK_DEADLOCK FALSE
