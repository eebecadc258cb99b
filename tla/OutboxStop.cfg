\* A publish_fn that never fails, and one stop() of the publisher, which is started again.
SPECIFICATION FairSpec
CONSTANTS
    Messages <- MCMessages
    Pollers = {p1}
    Callers = {}
    Keys <- MCKeys
    NoKey = NoKey
    KeyOf <- KeyOfFirst
    CreatedAt <- CreatedBackwards
    BatchSize = 2
    MaxRetries = 2
    Faults = {}
    Budget <- StopOnly
PROPERTY AtLeastOnce
CHECK_DEADLOCK FALSE
