CONSTANTS
    Names = {f, g}
    RootSlots = 2
    TotalClusters = 3
    NumFats = 2
    MaxLen = 2
    MaxFaults = 1
    NULL = null
    NameLen = 2
    ExtLen = 1
    PerSector = 2
    FatPerSector = 2
    SectorBytes = 2
    MaxListed = 3
SPECIFICATION Spec
INVARIANTS TypeOK FilesIntact VolumeSound 
SYMMETRY Symmetry
PROPERTY OthersKept
