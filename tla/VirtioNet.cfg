SPECIFICATION Spec
CONSTANTS
    Size = 4
    IdxMod = 8
    RxBuffers = 3
    TxBuffers = 2
    Buses <- SmallBuses
    NDevices = 2
    NFunctions = 2
    MaxDevices = 3
    Kinds <- SmallKinds
    MaxFrames = 9
INVARIANTS FreeListSound RxLossless TxRecent
