SPECIFICATION Spec
CONSTANTS
    Requests = {r1}
    Apps <- OneApp
    Kinds <- ScreenKinds
    Targets <- MCTargets
    Policy <- OnePolicy
    PaperReady = TRUE
    AutoReject = TRUE
    Rescore = TRUE
    Failures = FALSE
    MaxItems = 1
    None = None
    a1 = a1
    a2 = a2
PROPERTIES
    StageMovesAreLegal
CHECK_DEADLOCK FALSE
