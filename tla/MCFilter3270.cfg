CONSTANTS
    PageLines = 2
    MaxLines = 8
    MaxWarns = 1
    MaxInputs = 1
SPECIFICATION FairSpec
INVARIANTS
    OneClear
    BacklogBounded
PROPERTIES
    HostGoesOn
    LinesShown
CHECK_DEADLOCK FALSE
