SPECIFICATION DemoSpec
CONSTANTS
    NProcs = 3
    Levels = 3
    SliceBase = 0
    DefaultSlice = 1
    TickMod = 1
    MaxTick = 1
    Priorities <- OneLevel
    Delays = {}
    ClientOps = {"spawn", "yield"}
    Contract = TRUE
    Alone = TRUE
    IdleOutcomes = {TRUE}
    BootThreads = 1
PROPERTY BestReadyRuns
CHECK_DEADLOCK FALSE
