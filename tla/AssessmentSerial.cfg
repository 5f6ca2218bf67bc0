SPECIFICATION SerialSpec
CONSTANTS
    Requests = {r1}
    Sections <- MCSections
    Items <- MCItems
    SectionOf <- MCSectionOf
    Values = {a}
    Kinds <- CandidateKinds
    Targets = {}
    Validity = 4
    StartWindow = 2
    SectionLimit = 2
    AutoResume = 1
    SoftLock = "pause"
    Threshold = 1
    Failures = FALSE
    MaxTime = 5
    MaxResponses = 2
    None = None
    s1 = s1
    s2 = s2
    i1 = i1
    i2 = i2
INVARIANTS
    SittingIsExact
PROPERTIES
    WorkIsRespected
    SittingRunsItsCourse
    KeepsPromise
CHECK_DEADLOCK FALSE
