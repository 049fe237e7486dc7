SPECIFICATION MCSpec
CONSTANTS
    Letter = {1, 2}
    Janitor = {j1, j2}
    Purger = {p1}
    response_days = {0, 1}
    delivery_days = 1
    purge_batch = 1
    cleanup_batch = 1
    dead_page = 1
    MaxEndAge = 1
    MaxPolicies = 1
    MaxRollbacks = 1
    MaxKeepTime = 2
    UsedKey = {k1, k2}
    Process = {p1, p2}
    max_entries = 1
    MaxUsedAt = 2
    MaxUses = 3
    MaxFlushFails = 1
    Work = {d1, d2, d3}
    worker_concurrency = 2
    worker_batch_size = 2
    Login = {l1, l2}
    max_failures = 2
    window = 4
    lockout = 4
    NoRow = NoRow
    MaxLoginAge = 1
    MaxLoginTime = 6
    Client = {i1, i2, i3}
    requests = 2
    rate_window = 2
    rate_entries = 2
    MaxRateTime = 4
    MaxAdmitted = 6
    SignedEvent = {s1}
    tolerance = 1
    MaxSends = 3
    MaxWireTime = 3
    MaxSwitches = 2
    Mailbox = {b1, b2}
    AccountId = {1, 2, 3}
    AccountCall = {a1, a2}
    Anyone = Anyone
    MaxRequests = 4
CHECK_DEADLOCK FALSE
INVARIANTS
    DeadWalkComplete
    UsageReported
    
    BudgetKept
    RateKept
    CarriedOutOnce
    SuccessMeansCarriedOut
    
    AddressFindsAccount
PROPERTIES
    
    ResponsesErased
    UsageFlushed
    StopEnds
    DeactivationHolds
