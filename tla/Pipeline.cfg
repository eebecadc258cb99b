\* One publisher whose failures are honest, metrics callbacks that may raise,
\* one redrive; a handler that raises once and a call that is cancelled once.
\* The system stops when every event is settled.
SPECIFICATION PipelineSpec
CONSTANTS
    Messages <- MCMessages
    Pollers = {p1}
    Callers = {}
    Keys = {"k"}
    NoKey = NoKey
    KeyOf <- MCKeyOf
    CreatedAt <- MCCreatedAt
    BatchSize = 1
    MaxRetries = 2
    Faults = {"raises", "callback"}
    Budget <- MCBudget
    MaxDeliveries = 2
    InboxKeys = {"k"}
    EventKey <- MCEventKey
    None = None
    MaxFailures = 1
    MaxCancels = 1
INVARIANTS
    KeyDeliveredOnce
    EffectsAreBacked
PROPERTIES
    EventuallySettled
    EndToEnd
CHECK_DEADLOCK FALSE
