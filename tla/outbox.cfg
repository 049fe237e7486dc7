SPECIFICATION FairSpec
CONSTANTS
    Message = {1, 2}
    Relay = {r1, r2}
    NULL = NULL
    Skew <- Skewed
    BatchSize = 2
    LeaseSeconds = 2
    MaxAttempts = 2
    RetryCap = 1
    Faults = {"crash", "stall"}
    MaxCrashes = 1
    MaxClaims = 6
    MaxClock = 2
CHECK_DEADLOCK FALSE
PROPERTIES
    KeepsContract
    EventuallyReported
