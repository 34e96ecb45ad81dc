SPECIFICATION Spec
CONSTANTS
    NFrames = 8
    Fanout = 2
    Half = 1
    Virts <- ThreePages
    Phys = {7}
    Firmware <- SmallFirmware
    MaxSpaces = 1
    MaxClients = 1
INVARIANTS FramesAccounted SpacesSeeKernel TlbCoherent
PROPERTY OnlyTargetMoves
