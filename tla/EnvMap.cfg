SPECIFICATION FairSpec
CONSTANTS
    k1 = k1
    k2 = k2
    short = short
    long = long
    NoKey = NoKey
    NoVal = NoVal
    Keys <- TwoKeys
    Vals <- TwoVals
    Size <- Fitting
    NS = 3
    Cap = 5
    Threshold = 2
    CacheSize = 1
    DefaultKey = k1
    DefaultVal = short
    MayReset = TRUE
    MaxCrashes = 0
INVARIANTS
    ReadBack
PROPERTIES
    IsMap
    EndsInIdle
