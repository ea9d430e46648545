CONSTANTS
    Lines <- MCLines
    Page <- MCPage
    MarkNos = {1}
    WorkLrecl = 2
    Above = 1
    OnDisk <- MCOnDisk
    Buffer <- MCBuffer
    Binary = 7
    Handles = {1, 2}
    Scopes <- MCScopes
SPECIFICATION Spec
INVARIANT SavedSurvives
PROPERTIES ClosedIsSaved MovedIsKept InputIsKept
CHECK_DEADLOCK FALSE
