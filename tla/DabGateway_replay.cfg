CONSTANTS
    Requests = {"r1", "r2", "r3", "r4"}
    Nonces = {"n1", "n2"}
    NonceOf <- ReplayNonce
    Declared <- DeclaredDigest
    Derived <- DerivedDigest
    HasCollector = TRUE
    MaxLedger = 1
    MaxSpent = 1
    Ttl = 1
    WordSize = 16
    MaxClock = 2
    MaxRestarts = 1
SPECIFICATION FairSpec
INVARIANTS
    NoReplays
    ActiveOrSpent
    CertifiedWasSent
    CapacityHeld
PROPERTIES
    EventualGC
