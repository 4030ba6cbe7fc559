CONSTANTS
    MainLoop = main
    Demos = {d1}
    Programs = {p1}
    NULL = null
    COLS = 3
    ROWS = 3
    Area <- MCArea
    Texts <- MCTexts
    Prompt <- MCPrompt
SPECIFICATION ConsoleSpec
INVARIANTS ConsoleTypeOK PrintsApart
