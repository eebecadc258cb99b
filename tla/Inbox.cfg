\* Copies of a message, another message with its key, and an unrelated one.
\* The system stops when every delivery has had its outcome.
SPECIFICATION Spec
CONSTANTS
    Deliveries <- MCDeliveries
    Ids = {11, 12, 13}
    Keys = {"k", "l"}
    None = None
    IdOf <- MCIdOf
    KeyOf <- MCKeyOf
    MaxFailures = 1
    MaxCancels = 1
INVARIANTS
    TypeOK
    OneHandlerPerKey
    IndexesAgree
PROPERTY ImplementsDedup
CHECK_DEADLOCK FALSE
