SPECIFICATION MCSpec
CONSTANTS
    User = {u1, u2}
    Call = {c1, c2}
    NULL = NULL
    Granted = {"admin", "viewer"}
    MaxCalls = 4
    KeyCall = {k1, k2}
    NONE = NONE
    Ttl = {1}
    DefaultTtl = 3
    Overlap = {2}
    MaxKeys = 3
    MaxKeyTime = 2
    AuditWriter = {w1, w2}
    NoCursor = NoCursor
    page_limit = 1
    export_limit = 1
    list_cap = 3
    Listed <- MCListed
    Tallied <- MCTallied
    MaxAuditTime = 1
    MaxAuditRows = 3
    MaxTableId = 2
SYMMETRY Alike
CHECK_DEADLOCK FALSE
INVARIANTS
    ProjectRoleNeedsMembership
    
    FamilyIsChain
    WalkComplete
    
PROPERTIES
    OwnerKept
    RotationOnlyShortens
