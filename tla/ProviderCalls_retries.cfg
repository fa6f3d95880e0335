SPECIFICATION RetryFairSpec
CONSTANTS
  Calls = {k1, k2, k3}
  FailureThreshold = 2
  SuccessThreshold = 2
  HalfOpenMaxCalls = 2
  RecoveryTimeout = 2
  MaxFailureCount = 2
  Outcomes = {"success", "transient", "other"}
  MaxAttempts = 2
  BaseDelay = 1
  RateLimitDelay = 2
  MaxDelay = 2
INVARIANTS TypeOK RetryTypeOK ProbesBounded FullHalfOpenHasProbe
PROPERTIES HalfOpenIsDecided OpenIsProbed CallEnds RecoversWhenHealthy
