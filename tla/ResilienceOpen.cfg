\* A breaker used by layered calls; nothing is cancelled.
SPECIFICATION ResilienceSpec
CONSTANTS
    Calls <- MCLayered
    Layered <- MCLayered
    FailureThreshold = 2
    SuccessThreshold = 2
    HalfOpenMaxCalls = 3
    MaxCancels = 0
    MaxConcurrent = 1
    MaxAttempts = 2
INVARIANT OpensOnFailures
