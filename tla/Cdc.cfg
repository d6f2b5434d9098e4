SPECIFICATION ReadingSpec
CONSTANTS
    N = 2
    Size = 2
    MaxRead = 2
    Modulus = 8
    MaxBytes = 5
    MaxZlp = 1
INVARIANTS
    InOrder
    NoLostRelease
    StreamOrder
    CountHonest
PROPERTIES
    BankStable
    EverythingRead
