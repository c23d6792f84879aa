SPECIFICATION FairSpec
CONSTANTS
    Scans = {s1}
    Jobs = {j1}
    NoScan = NoScan
    MaxAttempts = 3
    MaxStalled = 1
    Faults = {"error", "crash"}
PROPERTIES
    JobsEnd
    BatchSettles
    ResultStoredOnce
CHECK_DEADLOCK FALSE
