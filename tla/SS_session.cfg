SPECIFICATION FairSpec
CONSTANTS
    Copies = {a, b}
    Working = {b}
    Sockets = {s1, s2}
    NoSocket = NoSocket
    MaxRuns = 2
    MaxFaults = 1
    InitialDelay = 1
    MaxDelay = 2
    Grace = 2
INVARIANTS
    CopiesInv
    SelectionIsSound
    AnswersItsRun
PROPERTY EveryRunSettles
