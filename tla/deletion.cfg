SPECIFICATION FairSpec
CONSTANTS
    Owner = {o1, o2}
    Maintainer = {w1, w2}
    Event = {"e1", "e2"}
    Delivery = {1, 2}
    EventOf <- FirstEvent
    NULL = NULL
    organization_deletion_grace_hours = 1
    lifecycle_cleanup_batch_size = 1
    worker_lease_seconds = 1
    MaxClaims = 1
    MaxCalls = 3
    MaxAborts = 1
    MaxTxAge = 0
    MaxTime = 2
CHECK_DEADLOCK FALSE
INVARIANTS NeverResurrected DeletedLeavesNothing
PROPERTIES GraceKept DeletionFinishes
