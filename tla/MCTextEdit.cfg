CONSTANTS
    Capital <- MCCapital
    Files <- MCFiles
    Letters = {1, 2}
    Modes <- MCModes
    FileLrecl = 4
    MinLrecl = 2
    MaxLrecl = 4
    Changes <- MCChanges
    Shifts <- MCShifts
    Cursors = {0, 2, 4}
    Lengths = {1, 3}
    Targets <- MCTargets
    Orders <- MCOrders
    MaxCommands = 4
SPECIFICATION Spec
PROPERTIES ChangedAsMeant TextKept LinesStay
CHECK_DEADLOCK FALSE
