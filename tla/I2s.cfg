SPECIFICATION Spec
CONSTANTS
    Width = 2
    Beats = 2
    Preempt = TRUE
    MaxLen = 5
    MaxTx = 9
    MaxRx = 12
    MaxEnds = 1
INVARIANTS
    InOrder
    NothingLost
    Restarts
PROPERTIES
    AllSent
CHECK_DEADLOCK FALSE
