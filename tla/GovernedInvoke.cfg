CONSTANTS
    Calls = {"c1", "c2", "c3"}
    Tenants = {"tenant-a", "tenant-b"}
    TenantOf <- OneTenant
    UserOf <- OneUser
    RequestIdOf <- RetryRequestIds
    NonceOf <- OneNonce
    InputOf <- OneInput
    MemoryOf <- MemoryWrites
    ConsentOf <- NoConsent
    RetrievalOf <- Retrieval
    CallerOf <- CallerSupplies
    Contexts <- MixedContexts
    Outputs = {"o1"}
    Decisions = {"ALLOW", "MEMORY_SUPPRESS"}
    HasNonceStore = TRUE
    HasReceiptV2 = TRUE
    DepsOf <- Deployments
SPECIFICATION FairSpec
INVARIANTS
    OneExecutionPerReservation
    CustodyIsComplete
    ReleasedIsReceipted
    NoPhantomMemory
    MemoryIsGoverned
    PromptsStayClean
PROPERTIES
    ImplementsStore
    CallsAreAnswered
