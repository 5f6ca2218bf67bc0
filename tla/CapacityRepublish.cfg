SPECIFICATION Spec
CONSTANTS
    Requests = {r1}
    Candidates = {a}
    MaxOpenings = 1
    MaxTerms = 2
    Kinds <- LifecycleKinds
    Failures = FALSE
    None = None
INVARIANTS
    ReleasedOnlyWhileClosed
CHECK_DEADLOCK FALSE
