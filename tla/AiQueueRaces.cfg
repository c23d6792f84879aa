SPECIFICATION Spec
CONSTANTS
    Scans = {s1}
    Exports = {e1, e2}
    Imports = {i1, i2}
    Files <- UpToTwoRows
    Ops = {"retry", "cleanup", "error", "crash"}
    MaxExports = 2
    MaxImports = 1
SYMMETRY Symmetry
INVARIANTS
    ImportsBackedByExports
PROPERTIES
    SettledStays
CHECK_DEADLOCK FALSE
