SPECIFICATION CloudFairSpec
CONSTANTS
    JobCount = 5
    Parallel <- MCParallel
    ResendModes = {TRUE, FALSE}
    Size <- MCSize
    EnvelopeBudget = 3
    MayFail = {1, 4}
    BailEnabled = TRUE
    MaxLosses = 1
    Budget = 2
    Capacity = 3
    CapacityWait = 3
    CapacityPoll = 2
    Waits = {1, 2}
    EdgeFloor = 1
    Deadline = 3
    MaxRetries = 2
    RequestLimit = 1
    BlockerSets <- MCBlockerSets
INVARIANTS
    CloudInv
    KeepsToBudget
PROPERTIES
    CreatesKeepTime
    KeepsPromise
    Settles
