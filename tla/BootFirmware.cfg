SPECIFICATION Spec
CONSTANTS
    NPages = 9
    Reserved = 4
    LinkPage = 1
    BssPages = 1
    HeapPages = {4}
    LoaderPage = 8
    InitTypes <- NinePages
    FirmwareMay = {2, 5, 7}
    Slack = 1
    GatherSlack = 2
    DescSize = 4
    EntrySize = 3
    MaxEntries = 9
    MaxPages = 8
    MayFail = TRUE
    FirmwareIf = TRUE
    MaxEvents = 3
INVARIANTS NoOverrun StoresOwn PmmMatchesFirmware InterruptsServed
