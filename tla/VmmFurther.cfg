SPECIFICATION Spec
CONSTANTS
    NFrames = 8
    Fanout = 2
    Half = 1
    Virts <- ThreePages
    Phys = {7}
    Firmware <- AnyFirmware
    MaxSpaces = 1
    MaxClients = 0
INVARIANTS UpperHalfShared KernelStaysMapped GetPhysicalExact
