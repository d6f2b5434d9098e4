SPECIFICATION InSpec
CONSTANTS
    InSize = 2
    MaxLen = 3
    MaxIn = 6
    MaxClear = 1
INVARIANTS
    HostStream
    NothingElseLost
PROPERTIES
    GivesUpForHost
CHECK_DEADLOCK FALSE
