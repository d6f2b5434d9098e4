SPECIFICATION FairSpec
CONSTANTS
    N = 2
    RtsThreshold = 1
    HasRts = FALSE
    Slack = 0
    FrameErrors <- NoErrors
    NestedWrites = TRUE
    MaxTx = 3
    MaxRx = 1
INVARIANTS
    TxFifo
    NoLostWakeup
PROPERTIES
    AllSent
    CallsReturn
CHECK_DEADLOCK FALSE
