SPECIFICATION FairSpec
CONSTANTS
    Size = 3
    Keys <- OneShift
    MaxRead = 2
INVARIANTS
    ModifiersTrack
PROPERTIES
    ImplementsFifo
    GetcharReturns
