SPECIFICATION FairSpec
CONSTANTS
    Requests = {r1, r2}
    Avg = 10
    Cost = 7
    Budget = 20
    Budgets = {30}
    Warm = FALSE
    Ops = {"import", "pause", "resume", "setBudget", "status", "error"}
    MaxCalls = 2
INVARIANT
    UsedTokensExact
PROPERTIES
    StatusCatchesUp
CHECK_DEADLOCK FALSE
