SPECIFICATION Spec
CONSTANTS
    Jobs = {"a", "big"}
    TaskCount = 2
    Size <- MCSize
    Budget = 2
    MayFail = {}
    BailEnabled = FALSE
    FaultBudgets <- BackoffFaults
INVARIANT BackoffIsHarmless
