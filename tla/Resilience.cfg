\* The default thresholds for successes and probes; one failure opens the
\* breaker; a permit may be free while another is handed over; one call is
\* cancelled.
SPECIFICATION FairResilience
CONSTANTS
    Calls <- MCCalls
    Layered <- MCLayered
    FailureThreshold = 1
    SuccessThreshold = 2
    HalfOpenMaxCalls = 3
    MaxCancels = 1
    MaxConcurrent = 2
    MaxAttempts = 2
INVARIANTS
    CountersMatchState
    ProbesBounded
    PermitsInStep
PROPERTY NeverStuck
