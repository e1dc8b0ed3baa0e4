SPECIFICATION Spec
CONSTANTS
    NBytes = 2
    PageSize = 2
    WordMod = 64
    LowPages = 2
    KernelEnd = 3
    Machines <- Boots
INVARIANTS
    TypeOK
    CounterTrue
    ReservedStay
    RamOnly
    FreeNeverOverstated
PROPERTY ImplementsAllocator
