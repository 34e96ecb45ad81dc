SPECIFICATION Spec
CONSTANTS
    NProcs = 4
    Levels = 3
    SliceBase = 0
    DefaultSlice = 1
    TickMod = 16
    MaxTick = 3
    Priorities <- PrioritiesAboveIdle
    Delays = {0, 1, 2}
    ClientOps = {"spawn", "yield", "sleep", "block", "unblock", "exit", "destroy"}
    Contract = TRUE
    Alone = TRUE
    IdleOutcomes = {TRUE}
INVARIANTS
    TypeOK
    BitmapMatches
    RunningIsCurrent
    QueuesWellFormed
    NoLostProcess
    NoLostSleeper
PROPERTIES
    DispatchTop
    WokenOnTime
    NoEarlyWake
CHECK_DEADLOCK FALSE
