SPECIFICATION Spec
CONSTANTS
    NSlots = 3
    SliceTicks = 1
    TickMod = 8
    SleepTicks = {1}
    Pages = {1}
    MaxPid = 2
    TasksReturn = FALSE
INVARIANTS
    FreshTaskLandsInWrapper
CHECK_DEADLOCK FALSE
