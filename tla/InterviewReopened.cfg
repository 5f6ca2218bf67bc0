SPECIFICATION EndingsSpec
CONSTANTS
    Requests = {r1}
    Workers = {w1}
    Kinds <- ReopenKinds
    MaxTries = 3
    MaxAttempts = 1
    MaxEpoch = 1
    MaxAnswers = 2
    None = None
    Parts = {"endings"}
INVARIANTS
    ReportIsComplete
CHECK_DEADLOCK FALSE
