SPECIFICATION Spec
CONSTANTS
    Align = 2
    Header = 4
    MinPayload = 4
    Start = 3
    Bytes = 37
    SizeMod = 64
    Sizes <- SmallSizes
    Aligns = {4}
    OpSets <- WithAndWithoutShrink
INVARIANTS
    Tiled
    NoOverlap
    RequestHonoured
    Coalesced
CHECK_DEADLOCK FALSE
