SPECIFICATION RaceSpec
CONSTANTS
    Requests = {r1, r2}
    Sections <- MCSections
    Items <- MCItems
    SectionOf <- MCSectionOf
    Values = {a}
    Kinds <- WorkKinds
    Targets = {}
    Validity = 1
    StartWindow = 0
    SectionLimit = 1
    AutoResume = 1
    SoftLock = "auto_submit"
    Threshold = 1
    Failures = FALSE
    MaxTime = 2
    MaxResponses = 2
    None = None
    s1 = s1
    s2 = s2
    i1 = i1
    i2 = i2
SYMMETRY Slots
INVARIANTS
    TypeOK
PROPERTIES
    ScoresWhatIsStored
    AnswersSurvive
    ClosedSectionsStayClosed
CHECK_DEADLOCK FALSE
