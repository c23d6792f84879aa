SPECIFICATION FairSpec
CONSTANTS
    Scans = {s1, s2}
    Jobs = {j1, j2}
    NoScan = NoScan
    MaxAttempts = 1
    MaxStalled = 1
    Faults = {}
PROPERTIES
    AutoUpdate
CHECK_DEADLOCK FALSE
