CONSTANTS
    Demos = {}
    Programs = {p1, p2, p3}
    Idle = idle
    NULL = null
    DemoCount = 2
    TickSlice = 1
    MaxSleep = 1
    StopYields = 3
SPECIFICATION FairSpec
INVARIANTS IdleAlonePays
PROPERTIES TasksProgress KilledReaped
CHECK_DEADLOCK FALSE
