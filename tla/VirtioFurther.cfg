SPECIFICATION Spec
CONSTANTS
    Size = 4
    IdxMod = 8
    RxBuffers = 3
    TxBuffers = 2
    Buses <- GoodBus
    NDevices = 2
    NFunctions = 2
    MaxDevices = 3
    Kinds <- SmallKinds
    MaxFrames = 6
INVARIANT TxIntact
PROPERTY TxReclaimed
