SPECIFICATION Spec
CONSTANTS
    Parts = {"role", "accounts", "applications", "autofill", "profile", "dashboard", "approvals", "rubrics", "gateway", "mail", "inbox", "careers"}
    None = None
    r1 = r1
    r2 = r2
    j1 = j1
    j2 = j2
    l1 = l1
    u1 = u1
    r3 = r3
SYMMETRY Alike
INVARIANTS
    TypesOK
    RoleIsConsistent
    SessionsDoNotFork
    ApplicationsAreSelfContained
    CandidatesAreInCharge
    DashboardTellsTheTruth
    DocumentsHold
    GatewayIsHonest
    NoticesAreAccountedFor
    PublicIsFresh
CHECK_DEADLOCK FALSE
