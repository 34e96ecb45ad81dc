SPECIFICATION Spec
CONSTANTS
    NPages = 9
    Reserved = 2
    MaxCount = 3
    Maps <- SmallMaps
    BadMap = TRUE
    Heap = {}
    Contract = TRUE
INVARIANTS CountExact BitmapExact NoSharedPage OnlyUsable FindsLowest
