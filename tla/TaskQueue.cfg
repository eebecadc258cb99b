\* Two workers, three jobs of two priorities; one retry_task for each job, one
\* cancel_task, one worker cancelled.
SPECIFICATION FairSpec
CONSTANTS
    Jobs <- MCJobs
    Workers = {w1, w2}
    None = None
    Unhandled <- MCUnhandled
    Priority <- MCPriority
    MaxAttempts = 2
    MaxRetries = 1
    MaxCancels = 1
    MaxStops = 1
INVARIANTS
    TypeOK
    NothingIsLost
    OneHolder
    AttemptsBounded
PROPERTIES
    TerminalIsFinal
    LeftPendingIsExplained
    EventuallyAtRest
