SPECIFICATION Spec
CONSTANTS
    Base = 2
    Digits = 4
    Inputs <- MCInputs
    FastRoom = 2
    Requests <- MCRequests
    ChunkSize = 2
    Grace = 1
    Terminals = {"mecaff", "diag58"}
    MaxCalls = 3
    MaxDisturbances = 1
INVARIANTS
    AnswerIsCurrent
    InputWhole
    ScreenWhole
    AvailableStays
PROPERTIES
    PollsReturn
CHECK_DEADLOCK FALSE
