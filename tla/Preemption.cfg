SPECIFICATION DemoSpec
CONSTANTS
    NProcs = 4
    Levels = 3
    SliceBase = 0
    DefaultSlice = 1
    TickMod = 1
    MaxTick = 1
    Priorities <- TwoLevels
    Delays = {1}
    ClientOps = {"spawn", "yield", "sleep", "block", "unblock"}
    Contract = TRUE
    Alone = TRUE
    IdleOutcomes = {TRUE}
    BootThreads = 1
INVARIANTS
    EoiOwedByOne
    EoiHolderIsReady
PROPERTIES
    OnlyIdleStarves
CHECK_DEADLOCK FALSE
