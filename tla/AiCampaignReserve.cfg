SPECIFICATION Spec
CONSTANTS
    Requests = {r1, r2, r3, r4}
    Avg = 10
    Cost = 10
    Budget = 25
    Budgets = {25}
    Warm = TRUE
    Ops = {"error", "status"}
    MaxCalls = 0
SYMMETRY Symmetry
INVARIANTS
    TypeOK
    NoOversell
CHECK_DEADLOCK FALSE
