SPECIFICATION FullSpec
CONSTANTS
    Align = 2
    Header = 4
    MinPayload = 4
    Start = 3
    Bytes = 40
    SizeMod = 64
    Sizes <- HugeSizes
    Aligns = {4}
    OpSets = {{"malloc", "aligned"}}
INVARIANTS NoOverlap Tiled RequestHonoured
CHECK_DEADLOCK FALSE
