CONSTANTS
    Emissions = {"e1", "e2", "e3"}
    Tenants = {"tenant-a"}
    Requests = {"req-1", "req-2", "req-3"}
    Bodies = {"body-1"}
    TenantOf <- OneTenant
    RequestOf <- ContendRequestOf
    BodyOf <- OneBody
    Pinned = {"e3"}
    MaxAttempts = 2
SPECIFICATION FairSpec
INVARIANTS
    ConflictMeansProgress
PROPERTIES
    ImplementsLog
    EmissionSettles
