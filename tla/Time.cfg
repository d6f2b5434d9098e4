SPECIFICATION TimeSpec
CONSTANTS
    Cycles = 3
    Ms = 8
    Scale = 64
    CountWrap = 4
    Wrap = 16
    Busy = 6
    Handling = 4
    MaxDelay = 2
    ResetTicks = 2
    MaxRequests = 2
INVARIANTS
    EraseWanted
PROPERTIES
    MicrosExact
    DelayLasts
    DelayReturns
CHECK_DEADLOCK FALSE
