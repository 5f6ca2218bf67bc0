SPECIFICATION RaceSpec
CONSTANTS
    Requests = {r1, r2}
    Candidates = {a}
    MaxOpenings = 1
    MaxTerms = 2
    Kinds <- AllKinds
    Failures = FALSE
    None = None
SYMMETRY Alike
INVARIANTS
    TypeOK
    AnnouncedOnce
    PublishedIsUnmarked
CHECK_DEADLOCK FALSE
