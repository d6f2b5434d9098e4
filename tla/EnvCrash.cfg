SPECIFICATION Spec
CONSTANTS
    k1 = k1
    k2 = k2
    short = short
    long = long
    NoKey = NoKey
    NoVal = NoVal
    Keys <- TwoKeys
    Vals <- TwoVals
    Size <- Fitting
    NS = 3
    Cap = 5
    Threshold = 2
    CacheSize = 2
    DefaultKey = k1
    DefaultVal = short
    MayReset = FALSE
    MaxCrashes = 1
PROPERTIES
    OneWritten
    BootKeeps
