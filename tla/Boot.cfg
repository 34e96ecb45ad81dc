SPECIFICATION Spec
CONSTANTS
    NPages = 9
    Reserved = 4
    LinkPage = 1
    BssPages = 1
    HeapPages = {4}
    LoaderPage = 8
    InitTypes <- NinePages
    FirmwareMay = {5, 6, 7}
    Slack = 3
    GatherSlack = 2
    DescSize = 3
    EntrySize = 3
    MaxEntries = 6
    MaxPages = 8
    MayFail = TRUE
    FirmwareIf = FALSE
    MaxEvents = 3
INVARIANTS MapIsCurrent MapHeld NoOverrun InterruptsServed
