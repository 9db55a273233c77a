SPECIFICATION FairSpec
CONSTANTS
    Chunks = 3
    MaxFaults = 3
INVARIANTS
    ChunksInStep
PROPERTIES
    CompletedIsKept
    Delivers
CHECK_DEADLOCK FALSE
