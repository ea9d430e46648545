CONSTANTS
    Files = {"A", "B"}
    First = "A"
    Lines <- MCLines
    Page <- MCPage
    Saved <- MCSaved
    Typed <- MCTyped
    Scopes <- MCScopes
    MarkNos = {1}
    WorkLrecl = 2
    UpLines = 1
    DownLines = 3
SPECIFICATION Spec
INVARIANTS PartialBlockIsLocal ModifiedIsHonest
PROPERTIES NothingLost MovesConserve
