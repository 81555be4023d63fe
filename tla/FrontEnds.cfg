SPECIFICATION FrontSpec
CONSTANTS
    Sales = {s1, s2, s3}
    Tabs = {b1, b2}
    Variants = {v1}
    MaxQuantity = 2
    Submissions = {c1, c2}
    Nobody = Nobody
    Views = {q1, q2}
    MaxSignIns = 2
    Tenants = {n1, n2}
    NoTenant = NoTenant
    Setups = {u1, u2}
INVARIANTS
    QueueConsistent
    OnlyFlushLoses
    ScreensAgree
PROPERTIES
    FirstComeFirstServed
    PendingSalesSettle
CHECK_DEADLOCK FALSE
