CONSTANTS
    Demos = {d1, d2, d3}
    Programs = {p1}
    Idle = idle
    NULL = null
    DemoCount = 2
    TickSlice = 1
    MaxSleep = 1
    StopYields = 2
SPECIFICATION TurnSpec
INVARIANTS TypeOK RingSound OnePreempted
PROPERTIES IsRoundRobin EoiLostOnlyAtExit NoEarlyWake
CHECK_DEADLOCK FALSE
