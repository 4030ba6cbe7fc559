CONSTANTS
    Pages = 6
    PageSize = 16
    Align = 2
    HeaderSize = 4
    BlkHeader = 2
    HashSize = 12
    GrowPages = 2
    Word = 64
    Requests = {1, 9, 12, 52, 63}
    MaxUsed = 4
    Files <- MCFiles
    TkxHeader = 4
    TaskPages = 1
    DefaultStack = 16
    TableSize = 3
    MaxTasks = 2
    NULL = null
SPECIFICATION MCSpec
INVARIANTS LoaderTypeOK OneOwner ProgramSound Tiled BooksRight
