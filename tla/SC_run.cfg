SPECIFICATION FairSpec
CONSTANTS
    HostCount = 2
    Packages = 2
    Entries = 2
    HostWait = 1
    Bail = TRUE
    Copies = {c1, c2}
    Fitting = c1
    NoCopy = NoCopy
    MaxFaults = 1
    BootTimeout = 1
    RunTimeout = 4
    NilWait = 3
    RelayWait = 4
    ArgsWait = 1
    RunningWait = 1
    Defer = 2
    Skew = 1
INVARIANTS
    WaitsInv
    HostsKeepApart
PROPERTY
    EveryRunSettles
CHECK_DEADLOCK FALSE
