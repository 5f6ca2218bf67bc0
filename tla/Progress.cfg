SPECIFICATION Spec
CONSTANTS
    None = None
INVARIANTS
    BillingIsExact
PROPERTIES
    FillingIsAnnounced
    ChargeOpensWorkspace
    ClosedJobsComeDown
CHECK_DEADLOCK FALSE
