SPECIFICATION FullSpec
CONSTANTS
    Align = 2
    Header = 4
    MinPayload = 4
    Start = 3
    Bytes = 40
    SizeMod = 64
    Sizes <- SmallSizes
    Aligns = {4}
    OpSets = {{"malloc", "free", "grow"}}
INVARIANT NoOverlap
CHECK_DEADLOCK FALSE
