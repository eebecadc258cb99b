\* Everything stops once the messages are settled and the faults used up.
SPECIFICATION RelaySpec
CONSTANTS
    Messages = {m1, m2}
    Workers = {w1, w2}
    NoMessage = NoMessage
    BatchSize = 2
    MaxRetries = 1
    MaxRequeues = 1
    MaxHookFaults = 1
    MaxStops = 1
    MaxSendFaults = 1
    MaxTroubles = 2
SYMMETRY MCSymmetry
INVARIANTS
    NotForgotten
    TransactionsAreSound
CHECK_DEADLOCK FALSE
