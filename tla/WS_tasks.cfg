SPECIFICATION FairSpec
CONSTANTS
    Jobs = {"a", "b", "big"}
    TaskCount = 2
    Size <- MCSize
    Budget = 2
    MayFail = {"a", "big"}
    BailEnabled = TRUE
    FaultBudgets <- AllFaults
INVARIANTS
    PoolInv
    EnvelopesSound
    RunIsWhole
PROPERTIES
    KeepsPromise
    Terminates
