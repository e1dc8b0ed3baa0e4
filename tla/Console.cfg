SPECIFICATION Spec
CONSTANTS
    Width = 4
    Height = 3
    TabStop = 2
    Blank = " "
    Writers = {"shell", "task"}
    Prints <- ShellAndTask
    SizeMod = 32
    MaxPuts = 4
INVARIANTS
    TypeOK
    RowRecovers
    SerialIsExact
    NothingScrolledAway
