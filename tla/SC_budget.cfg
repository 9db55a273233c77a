SPECIFICATION PunctualSpec
CONSTANTS
    HostCount = 2
    Packages = 2
    Entries = 2
    HostWait = 4
    Bail = FALSE
    Copies = {c1}
    Fitting = c1
    NoCopy = NoCopy
    MaxFaults = 0
    BootTimeout = 1
    RunTimeout = 7
    NilWait = 3
    RelayWait = 4
    ArgsWait = 1
    RunningWait = 1
    Defer = 2
    Skew = 1
INVARIANT HangingHostsAreReported
CHECK_DEADLOCK FALSE
