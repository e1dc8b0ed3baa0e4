SPECIFICATION Spec
CONSTANTS
    Width = 4
    Height = 2
    TabStop = 4
    Blank = " "
    CMD_BUFFER_SIZE = 6
    MAX_HISTORY = 2
    MAX_ARGS = 2
    FieldSize = 3
    Accounts <- OneAccount
    Star = "*"
    Letters = {"a"}
    Prompt = ">"
    Output = "o"
    Box = "#"
    Boxes = {5, 6}
    MaxChars = 8
INVARIANTS
    TypeOK
    LineShown
    WordsSplit
PROPERTY HistoryInOrder
