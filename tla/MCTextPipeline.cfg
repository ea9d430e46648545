CONSTANTS
    Line = {l1, l2}
    Node = {n1, n2, n3}
    NoNode = NoNode
    MaxLines = 3
    IdlePolls = 1
    BacklogTries = 2
SPECIFICATION FairSpec
INVARIANTS
    NodesSafe
    BacklogVerdict
PROPERTIES
    FifoSpec
    EveryLineDelivered
CHECK_DEADLOCK FALSE
