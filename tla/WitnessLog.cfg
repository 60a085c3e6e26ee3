CONSTANTS
    w1 = w1
    w2 = w2
    w3 = w3
    r = r
    rec = rec
    key = key
    Witnesses <- ThreeWitnesses
    Faulty <- TwoFaulty
    Quorum = 2
    Manifest <- WitnessKeys
    Leaf <- Payloads
    Keys <- OneKey
    Forgeable <- Forgeries
    RecordsOf <- KeyRecords
    MaxLog = 3
    MaxTime = 1
    MaxHeads = 2
    MaxShadows = 1
    Root <- rootOf
    Opens <- opens
    Consistent <- consistent
SPECIFICATION Spec
INVARIANTS
    VerdictsFollowTheLog
    NoFalseAccusation
    ForksAreAttributed
    GeneratedProofsVerify
CHECK_DEADLOCK FALSE
