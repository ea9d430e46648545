CONSTANTS
    OutZoneRows = 2
    Pipelined = FALSE
    SplitInputs = TRUE
    MaxLines = 1
    MaxSessions = 0
    SessionTicks = 1
    Timeouts = {1}
    GracePeriods = {1}
    NoTimeout = 99
SPECIFICATION FairSpec
PROPERTIES
    MoreIsLeft
    LockIsLeft
CHECK_DEADLOCK FALSE
