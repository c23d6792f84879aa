SPECIFICATION FairSpec
CONSTANTS
    MaxAttempts = 2
    MaxMailAttempts = 2
    MaxStalled = 1
    Faults = {"error", "crash"}
    MaxFaults = 1
INVARIANTS
    TypeOK
    OneCompleteMail
PROPERTIES
    ErasedAfterUse
    AddressErased
    CacheCatchesUp
    CompletedIsMailed
CHECK_DEADLOCK FALSE
