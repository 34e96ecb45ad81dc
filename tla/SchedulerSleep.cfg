SPECIFICATION Spec
CONSTANTS
    NProcs = 4
    Levels = 3
    SliceBase = 0
    DefaultSlice = 1
    TickMod = 4
    MaxTick = 3
    Priorities <- PrioritiesAll
    Delays <- DelaysWrapping
    ClientOps = {"spawn", "sleep"}
    Contract = TRUE
    Alone = FALSE
    IdleOutcomes = {TRUE}
INVARIANT NoLostProcess
PROPERTY NoEarlyWake
CHECK_DEADLOCK FALSE
