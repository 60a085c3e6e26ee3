CONSTANTS
    w1 = w1
    w2 = w2
    acme = acme
    zenith = zenith
    None = None
    Workers <- TwoWorkers
    Tenants <- TwoTenants
    ScanOrder <- AcmeFirst
    PageItems = 5
    MaxChain <- ChainBounds
    MaxTime = 2
    TicksPerHour = 2
    EpochOverride <- SecondRedoesFirstHour
    HeadHash <- TwoHashes
    HeadLists <- ShortLists
SPECIFICATION MCSpec
INVARIANTS
    PublishedIsStored
    SnapshotsExtend
    CoversWhatFits
    CheckpointProofsVerify
    CheckpointRootsBind
PROPERTY HandlersEnd
CHECK_DEADLOCK FALSE
