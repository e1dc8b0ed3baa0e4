SPECIFICATION SysSpec
CONSTANTS
    NNodes = 4
    NFds = 1
    MaxData = 3
    OpenFlags <- SysFlags
    TestDir = "d"
    TestFile = "s"
    TestBytes = 2
    TestFlags <- MCTestFlags
    Counts = {2}
    Seeks <- SysSeeks
    Names = {"d", "s"}
    DotDot = ".."
    Slash = "/"
    Empty = ""
    InitDirs <- Dirs
    InitFiles <- Files
INVARIANTS
    TypeOK
    Tree
    NamesUnique
    DescriptorsShifted
    TestsPass
PROPERTY FailureChangesNothing
