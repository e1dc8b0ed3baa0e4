SPECIFICATION Spec
CONSTANTS
    NNodes = 4
    NFds = 1
    MaxData = 3
    OpenFlags <- MCFlags
    Counts = {0, 1, 3}
    Seeks <- MCSeeks
    Names = {"..", "d"}
    DotDot = ".."
    Slash = "/"
    Empty = ""
    InitDirs <- Dirs
    InitFiles <- Files
INVARIANT DescriptorsNameFiles
