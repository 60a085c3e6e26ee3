CONSTANTS
    Emissions = {"e1", "e2", "e3"}
    Tenants = {"tenant-a"}
    Requests = {"req-1", "req-2"}
    Bodies = {"body-1"}
    TenantOf <- OneTenant
    RequestOf <- RetryRequestOf
    BodyOf <- OneBody
    Pinned = {}
    MaxAttempts = 3
SPECIFICATION Spec
INVARIANTS
    ChainIntact
    OneReceiptPerRequest
    ReturnedIsDurable
    CollisionsAreReal
PROPERTIES
    ImplementsStore
