CONSTANTS
    Requests = {"r1", "r2", "r3"}
    Nonces = {"n1", "n2"}
    NonceOf <- ReplayNonce
    Declared <- DeclaredDigest
    Derived <- DerivedDigest
    HasCollector = FALSE
    MaxLedger = 2
    MaxSpent = 1
    Ttl = 1
    WordSize = 16
    MaxClock = 2
    MaxRestarts = 0
SPECIFICATION FairSpec
PROPERTIES
    EventualGC
