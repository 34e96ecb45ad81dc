SPECIFICATION RaceSpec
CONSTANTS
    NProcs = 3
    Levels = 3
    SliceBase = 0
    DefaultSlice = 1
    TickMod = 16
    MaxTick = 4
    Priorities = {0, 1}
    Delays = {1, 2}
    ClientOps = {"spawn", "yield", "sleep"}
    Contract = TRUE
    Alone = TRUE
    IdleOutcomes = {TRUE}
INVARIANT SleepLasts
CHECK_DEADLOCK FALSE
