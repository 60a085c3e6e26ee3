CONSTANTS
    Emissions = {"e1", "e2", "e3"}
    Tenants = {"tenant-a"}
    Requests = {"req-1", "req-2", "req-3"}
    Bodies = {"body-1"}
    TenantOf <- OneTenant
    RequestOf <- ContendRequestOf
    BodyOf <- OneBody
    Pinned = {}
    MaxAttempts = 3
SPECIFICATION Spec
INVARIANTS
    StoredChainVerifies
