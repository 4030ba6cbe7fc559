CONSTANTS
    Width = 2
    Height = 2
    ButtonArea <- MCButtonArea
    Reports <- MCReports
SPECIFICATION MouseSpec
INVARIANTS MouseTypeOK CursorClean ButtonRight
