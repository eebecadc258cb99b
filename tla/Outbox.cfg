\* A publisher and a caller of publish_one over one repository; every operator
\* call once. The system stops when all is settled and the budget is spent.
SPECIFICATION Spec
CONSTANTS
    Messages <- MCMessages
    Pollers = {p1}
    Callers = {c1}
    Keys <- MCKeys
    NoKey = NoKey
    KeyOf <- KeyOfFirst
    CreatedAt <- CreatedBackwards
    BatchSize = 2
    MaxRetries = 2
    Faults = {"raises", "ack_lost", "callback"}
    Budget <- OneOfEach
INVARIANTS
    TypeOK
    PublishedWasHandedOff
    ProcessingIsOwned
    RetriesMatchStatus
PROPERTIES
    PublishedIsFinal
    ParkedUntilRedriven
CHECK_DEADLOCK FALSE
