SPECIFICATION Spec
CONSTANTS
    Size = 2
    Keys = {"A", "LCTRL", "CAPS", "LSHIFT", "RSHIFT"}
    MaxRead = 0
INVARIANT ModifiersTrack
PROPERTY CtrlGivesControl
