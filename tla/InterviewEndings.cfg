SPECIFICATION EndingsSpec
CONSTANTS
    Requests = {r1}
    Workers = {w1}
    Kinds <- EndingKinds
    MaxTries = 2
    MaxAttempts = 2
    MaxEpoch = 1
    MaxAnswers = 1
    None = None
    Parts = {"endings", "retiring"}
INVARIANTS
    TypeOK
PROPERTIES
    AttemptsAreFinal
    EndingIsReported
CHECK_DEADLOCK FALSE
