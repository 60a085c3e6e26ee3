CONSTANTS
    Calls = {"w1", "audit", "kappa", "tomb", "del", "delAudit"}
    KindOf <- MCKindOf
    IdentityOf <- OneUser
    RecordOf <- MCRecordOf
    Suppressed = {}
    Consenting = {}
    MaxSends = 2
    MaxTime = 1
SPECIFICATION Spec

    
PROPERTIES
    RecordsOnlyAge
    AuditOutlivesDeletes
