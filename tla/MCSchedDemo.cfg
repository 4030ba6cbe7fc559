CONSTANTS
    Demos = {d1, d2}
    Programs = {p1}
    Idle = idle
    NULL = null
    DemoCount = 2
    TickSlice = 1
    MaxSleep = 1
    StopYields = 3
SPECIFICATION FairSpec

PROPERTIES DemoStops
CHECK_DEADLOCK FALSE
