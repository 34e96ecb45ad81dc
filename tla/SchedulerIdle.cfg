SPECIFICATION Spec
CONSTANTS
    NProcs = 3
    Levels = 3
    SliceBase = 0
    DefaultSlice = 1
    TickMod = 1
    MaxTick = 1
    Priorities <- PrioritiesToLowest
    Delays = {}
    ClientOps = {"spawn", "yield"}
    Contract = TRUE
    Alone = FALSE
    IdleOutcomes = {TRUE}
INVARIANTS IdleNeverQueued NoLostProcess
PROPERTIES IdleOnlyWhenNothingReady DispatchHighest
