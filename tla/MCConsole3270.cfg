CONSTANTS
    OutZoneRows = 3
    Pipelined = TRUE
    SplitInputs = FALSE
    MaxLines = 2
    MaxSessions = 1
    SessionTicks = 1
    Timeouts = {1, 99}
    GracePeriods = {1}
    NoTimeout = 99
SPECIFICATION Spec
INVARIANTS
    TypeOK
    NoLostWakeup
    LinesKept
    OneAnswerPerRead
    TransferFrozen
    FSInUntouched
    LockEnds
CHECK_DEADLOCK FALSE
