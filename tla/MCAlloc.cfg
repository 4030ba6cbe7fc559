CONSTANTS
    TotalPages = 6
    Reserved = 1
    MaxRun = 3
SPECIFICATION Spec
INVARIANTS TypeOK BooksExact SinglePageFits
PROPERTIES IsPageMap
