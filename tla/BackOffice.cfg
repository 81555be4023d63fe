SPECIFICATION OfficeSpec
CONSTANTS
    Refunds = {f1, f2}
    Qty = 2
    Total = 3
    Advance = 1
    s1 = s1
    s2 = s2
    Sales = {s1, s2, s3}
    NoSale = NoSale
    Sessions = {x1, x2}
    NoSession = NoSession
    Bill <- MCBill
    ListPrice = 4
    PromoPrice = 3
    Tiers <- MCTiers
    BandBp = 2000
    PointWorth = 2
    EarnPer = 2
    Float = 1
    Grant = 3
    Products = {p1}
    d1 = d1
    d2 = d2
    Deliveries = {d1, d2, d3}
    Customer <- MCCustomer
    Value <- MCValue
    Policies <- MCPolicies
    Default <- MCDefault
    Event <- MCEvent
    EventNames = {"viewed", "cart"}
    Batches <- MCBatches
    Steps <- MCSteps
    Links = {l1, l2}
    LinkEmail <- MCEmail
    Shoppers = {v1, v2}
    Devices = {t1, t2}
    MaxSessions = 3
    MaxSecrets = 2
    MaxCustomers = 2
    Messages = {m1, m2}
    Runs = {w1, w2}
    MaxAttempts = 1
    NoMessage = NoMessage
    a1 = a1
    Actions = {a1, a2, a3}
    Afterwards = {a3}
    Content <- MCContent
    Incidents = {e1, e2, e3}
    Unprintable = {e3}
    Processes = {j1, j2}
    Files = {1, 2, 3, 4}
    Number <- MCNumber
    Contents = {"merged", "edited"}
    Broken <- MCBroken
    Staff = {n1, n2}
    Lettered = {}
    Webhooks = {k1}
    Addresses = {}
    StaffLimit = 2
    WebhookLimit = 1
    VisitorLimit = 1
    Period = 2
    MaxTime = 3
    CallsPerDay = 2
INVARIANTS
    OfficeTypeOK
    OrderAccounted
    SalesAccounted
    VerdictTruthful
    NoticesAccounted
    CatalogSound
    GateAgrees
    LogsAgree
    SessionsTraceable

    
CHECK_DEADLOCK FALSE
