\* Two failures open the breaker, and two calls probe where one is allowed.
SPECIFICATION ItemSpec
CONSTANTS
    Readers = {r1, r2}
    Writers = {w1}
    Tasks <- MCTasks
    Values <- MCValues
    NoValue = NoValue
    FailureThreshold = 2
    HalfOpenMaxCalls = 1
    MaxRedisFaults = 3
    MaxExpiries = 1
    MaxVersion = 2
    MaxCancels = 2
    MaxTroubles = 4
SYMMETRY MCSymmetry
INVARIANT ProbeLimitDocumented
