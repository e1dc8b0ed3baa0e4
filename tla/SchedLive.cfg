SPECIFICATION FairSpecUntilRace
CONSTANTS
    NSlots = 4
    SliceTicks = 2
    TickMod = 3
    SleepTicks = {2}
    Pages = {1, 2}
    MaxPid = 3
    TasksReturn = TRUE
PROPERTIES
    SleepersWake
    ReadyRuns
CHECK_DEADLOCK FALSE
