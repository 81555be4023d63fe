SPECIFICATION LimitsSpec
CONSTANTS
    Staff = {t1, t2}
    Lettered = {}
    Webhooks = {}
    Addresses = {}
    StaffLimit = 2
    WebhookLimit = 1
    VisitorLimit = 1
    Period = 2
    MaxTime = 3
    CallsPerDay = 1
INVARIANTS
    TurnedAwayForOwn
CHECK_DEADLOCK FALSE
