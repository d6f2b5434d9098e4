SPECIFICATION PollingSpec
CONSTANTS
    N = 8
    RtsThreshold = 6
    HasRts = TRUE
    Slack = 0
    FrameErrors <- OneError
    NestedWrites = FALSE
    MaxTx = 0
    MaxRx = 10
INVARIANTS
    FlowControl
    RxOrder
PROPERTIES
    RtsRecovers
