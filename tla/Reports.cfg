SPECIFICATION FairSpec
CONSTANTS
    NRequests = 3
    BatchAttempts = 2
    ScanAttempts = 2
    MaxStalled = 1
    MaxVersion = 2
    Faults = {"error", "crash"}
    MaxFaults = 1
INVARIANTS
    TypeOK
    ReadyHasFile
PROPERTIES
    ReadyStays
    ExportsSettle
CHECK_DEADLOCK FALSE
