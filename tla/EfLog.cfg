SPECIFICATION Spec
CONSTANTS
    N = 3
    W = 2
    MaxLen = 5
    MaxWords = 10
    MaxCrashes = 2
    MaxCleans = 1
INVARIANTS
    KeepsNewest
    ReadBack
PROPERTIES
    WipedForReason
CHECK_DEADLOCK FALSE
