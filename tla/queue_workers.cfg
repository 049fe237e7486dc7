SPECIFICATION Spec
CONSTANTS
  Delivery = {1, 2, 3}
  Endpoint = {"e1", "e2"}
  EndpointOf <- TwoEndpoints
  OrganizationOf <- OneOrganization
  NULL = NULL
  Preloaded = {1, 2, 3}
  worker_lease_seconds = 1
  worker_batch_size = 2
  worker_global_concurrency = 2
  tenant_in_flight_deliveries = 2
  endpoint_concurrency = 1
  worker_candidate_scan_limit = 2
  webhook_max_attempts = 2
  webhook_max_delivery_age_seconds = 2
  endpoint_circuit_failure_threshold = 1
  endpoint_circuit_open_seconds = 1
  RetryDelay = {0}
  Environment = {"stall", "renew", "crash"}
  MaxTime = 2
  MaxTxAge = 0
  MaxClaims = 3
  MaxFaults = 1
INVARIANTS OutcomeMatchesLastAttempt 
PROPERTIES OnlyLatestClaimFinalizes
CHECK_DEADLOCK FALSE
