SPECIFICATION Spec
CONSTANTS
    NSlots = 4
    SliceTicks = 2
    TickMod = 5
    SleepTicks = {1, 3}
    Pages = {1, 2}
    MaxPid = 3
    TasksReturn = TRUE
INVARIANTS
    TypeOK
    UniquePids
    StacksOwned
    ContextsIntact
    CurrentAgrees
    StopsOnlyInPager
    ShellInterruptible
    ShellSchedulable
CHECK_DEADLOCK FALSE
