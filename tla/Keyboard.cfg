SPECIFICATION FairSpec
CONSTANTS
    Size = 3
    Readers = {"shell"}
    Letters = {"a"}
    Symbols = {}
    Arrows = {"up"}
    Dead = {"ctrl"}
    Shifts = {"shift"}
INVARIANTS
    TypeOK
    ShiftNeverSticks
    PolledNeverHalts
PROPERTIES
    ImplementsQueue
    KeyReachesReader
