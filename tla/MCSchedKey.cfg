CONSTANTS
    Demos = {d1}
    Programs = {p1}
    Idle = idle
    NULL = null
    DemoCount = 1
    TickSlice = 1
    MaxSleep = 1
    StopYields = 3
SPECIFICATION FairSpec
PROPERTIES AnyKeyStops
CHECK_DEADLOCK FALSE
