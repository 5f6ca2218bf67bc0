SPECIFICATION Spec
CONSTANTS
    Parts = {"turns", "acts", "voice", "windows", "recording", "filing", "claims", "scorecards", "reports"}
    None = None
    r1 = r1
    r2 = r2
    c1 = c1
    c2 = c2
    k = k
    m1 = m1
    m2 = m2
SYMMETRY Alike
INVARIANTS
    TypesOK
    InterviewIsRun
    WordsAreHeard
    RealtimeIsExact
    EvidenceHolds
    CardsAreFair
PROPERTIES
    ReportsAreFair
CHECK_DEADLOCK FALSE
