SPECIFICATION ServiceSpec
CONSTANTS
    Requests = {"r1", "r2"}
    Direct = {"r2"}
    Hooks = {"low", "high"}
    Priority <- MCPriority
    InitialHooks <- MCInitialHooks
    RejectDuringShutdown <- MCReject
    MaxRemoves = 1
    Keys = {"k"}
    KeyOf <- MCKeyOf
    Hashes = {c1, c2}
    NoRecord = NoRecord
    MaxRedisFaults = 1
    MaxLosses = 1
    MaxServiceFaults = 2
    MaxCancels = 1
    MaxFaultKinds = 1
INVARIANTS
    DrainedBeforeHooks
    HooksComplete
    RolledBack
    ChargedOnce
    ReplayIsBacked
SYMMETRY MCSymmetry
CHECK_DEADLOCK FALSE
