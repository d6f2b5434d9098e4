SPECIFICATION Spec
CONSTANTS
    N = 3
    W = 2
    MaxLen = 5
    MaxWords = 7
    MaxCrashes = 1
    MaxCleans = 1
INVARIANTS
    CleanForgets
CHECK_DEADLOCK FALSE
