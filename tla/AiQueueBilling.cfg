SPECIFICATION Spec
CONSTANTS
    Scans = {s1, s2}
    Exports = {e1}
    Imports = {i1, i2}
    Files <- UpToTwoRows
    Ops = {"cleanup", "error", "crash"}
    MaxExports = 2
    MaxImports = 1
SYMMETRY Symmetry
INVARIANTS
    TypeOK
    NeverOverbilled
CHECK_DEADLOCK FALSE
