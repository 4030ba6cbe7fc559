CONSTANTS
    Radix <- MCRadix
    MaxSecs = 1
    Present = {"master"}
    Sectors = 2
    MaxKeys = 2
    MaxReports = 1
    Melodies <- MCMelodies
    Gap = 2
    Longest = 3
    MaxPlays = 2
    FbWidth = 7
    MqX = 1
    MqW = 5
    FontW = 2
    TextLen = 2
    TickDiv = 2
    Keys = {2, 14, 28, 30}
    LineSize = 4
    Word = 256
    Stage2Size = 504
    KernelSectors = {1000, 2041}
SPECIFICATION Spec
INVARIANTS TypeOK ClockRight TransfersRight StartRight InputAlive MelodyRight ScreenRight
           TypingRight
