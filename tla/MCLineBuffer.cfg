CONSTANTS
    RowsInPage = 4
    MaxSize = 5
SPECIFICATION MCSpec
INVARIANTS
    FrameOK
PROPERTIES
    NoLineSkipped
