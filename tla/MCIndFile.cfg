CONSTANTS
    Quadrants <- MCQuadrants
    NullCode = "A"
    Graphic <- MCGraphic
    MapFiles <- MCMapFiles
    Requests <- MCRequests
    Records <- MCRecords
    Texts <- MCTexts
    MaxRecord = 3
    FrameSize = 10
    Upsets = 2
SPECIFICATION Spec
INVARIANTS TransferIsTrue EndIsTold
CHECK_DEADLOCK FALSE
