SPECIFICATION Spec
CONSTANTS
    Parts = {"recorded"}
    None = None
    r1 = r1
    r2 = r2
    c1 = c1
    c2 = c2
    k = k
    m1 = m1
    m2 = m2
INVARIANTS
    AnswersSurvive
CHECK_DEADLOCK FALSE
