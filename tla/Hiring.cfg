SPECIFICATION HiringSpec
CONSTANTS
    Requests = {r1}
    Apps <- MCApps
    Kinds <- HandledKinds
    Targets <- MCTargets
    Policy <- MCPolicy
    PaperReady = TRUE
    AutoReject = TRUE
    Rescore = FALSE
    Failures = FALSE
    MaxItems = 1
    None = None
    a1 = a1
    a2 = a2
INVARIANTS
    TypeOK
    SatellitesFollow
    DecisionsCohere
PROPERTIES
    HireClosesSiblings
    StageMovesAreLegal
CHECK_DEADLOCK FALSE
