SPECIFICATION FilesSpec
CONSTANTS
    Prod = {"module"}
    Copied = {"spec"}
    Input = "input"
    Recipes <- MCRecipes
    Versions = {1, 2}
    MaxEdits = 2
    MaxStops = 2
    Clis = {1, 2}
    Targets = {"place"}
    Bytes = {1, 2, 3}
    Bootable = {1, 2}
    MaxRuns = 3
    MaxRebuilds = 2
    Writers = {1, 2}
    Pids = {"p", "q"}
    MaxWrites = 3
    MaxKills = 2
    Builders = {1, 2}
    Inputs = {"init"}
    Texts = {1, 2}
    MaxClock = 2
    MaxTouches = 2
    MaxBuilds = 3
    MaxLaunches = 2
INVARIANTS
    CacheInv
    UploadsAreSound
    WritesAreWhole
    ReuseIsSound
    LaunchesAreSound
PROPERTIES
    SettledRunsReuse
