SPECIFICATION FairSpec
CONSTANTS
    s1 = s1
    s2 = s2
    Runs = {r1, r2}
    Files = {1, 2}
    Scans = {s1, s2}
    MiniBatches <- TwoFiles
    Content <- SamePage
    NBatches = 1
    MaxFiles = 1
    OneOutput = FALSE
    Faults = {"error", "kill"}
    MaxFaults = 1
INVARIANTS
    TypeOK
    ProcessedIsAccounted
    LeftOutIsCached
    NoCheckpointLeftBehind
PROPERTIES
    FilesAreTakenUp
CHECK_DEADLOCK FALSE
