SPECIFICATION FairSpec
CONSTANTS
    Lines = {0, 1, 8}
    Unsteady = {8}
    Traps = {0, 128}
    KLOG_MAX_ENTRIES = 3
    Messages <- AllMessages
    NoMessage = ""
    Shell = "shell"
    Tasks = {"a", "b"}
INVARIANTS
    TypeOK
    LinesReachDrivers
    NothingInService
PROPERTIES
    DmesgInOrder
    LinesServed
