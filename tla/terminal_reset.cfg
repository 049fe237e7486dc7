SPECIFICATION Spec
CONSTANTS
  Delivery = {1, 2}
  Endpoint = {"e1"}
  EndpointOf <- OneEndpoint
  OrganizationOf <- OneOrganization
  NULL = NULL
  Preloaded = {1, 2}
  worker_lease_seconds = 2
  worker_batch_size = 2
  worker_global_concurrency = 2
  tenant_in_flight_deliveries = 2
  endpoint_concurrency = 2
  worker_candidate_scan_limit = 4
  webhook_max_attempts = 2
  webhook_max_delivery_age_seconds = 3
  endpoint_circuit_failure_threshold = 1
  endpoint_circuit_open_seconds = 1
  RetryDelay = {0}
  Environment = {"cancel"}
  MaxTime = 3
  MaxTxAge = 0
  MaxClaims = 3
  MaxFaults = 1
PROPERTIES TerminalRowsNotReset
CHECK_DEADLOCK FALSE
