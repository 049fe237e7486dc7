SPECIFICATION Spec
CONSTANTS
    Request = {r1, r2, r3}
    Key = {k1, k2}
    Content = {c1, c2}
    Endpoint = {e1, e2}
    NULL = NULL
    NoRetry = NoRetry
    Rate <- SlowRate
    Burst <- SmallBurst
    TenantFanout = 2
    RetainedLimit = 2
    GlobalMaxBacklog = 2
    OldestDueLimit = 2
    BulkMax = 2
    RetryCap = 2
    PayloadRetention = 1
    Kinds = {"event", "replay", "bulk"}
    MaxTxAge = 0
    MaxClock = 2
SYMMETRY Alike
CHECK_DEADLOCK FALSE
INVARIANTS
    LimitsRespected
    OneAnswerPerKey
    
