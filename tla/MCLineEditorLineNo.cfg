CONSTANTS
    Lines <- MCLines
    Page <- MCPage
    File <- MCFile
    Typed <- MCTyped
    MarkNos = {1}
    WorkLrecl = 2
    MaxCalls = 3
SPECIFICATION Spec
INVARIANT LineNoIsPlace
