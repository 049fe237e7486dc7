SPECIFICATION Spec
CONSTANTS
    Endpoint = {e1, e2}
    Request = {r1, r2, r3, r4, r5}
    NULL = NULL
    EndpointLimit = 1
    MaxAge = 1
    Margin = 1
    Overlap = 2
    Kinds = {"create", "update", "rotate", "ingest", "replay"}
    MaxTxAge = 1
    MaxVersion = 3
    MaxClock = 3
SYMMETRY Alike
CHECK_DEADLOCK FALSE
INVARIANTS
    EndpointLimitRespected
    OneCurrentVersion
    VersionOutlivesDelivery
