\* Two calls of a saga with every callback; one call may be cancelled.
\* The system stops when every call has ended.
SPECIFICATION FairSpec
CONSTANTS
    Executions = {e1, e2}
    N = 4
    Compensable <- MCCompensable
    Timed <- MCTimed
    Callbacks = {"on_complete", "on_compensate", "on_failure"}
    MaxHistory = 1
    MaxCancels = 1
INVARIANTS
    TypeOK
    ResultIsHonest
    FailureIsReported
    ReverseOrder
PROPERTIES
    NoWayBack
    EventuallyEnds
CHECK_DEADLOCK FALSE
