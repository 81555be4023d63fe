SPECIFICATION Spec
CONSTANTS
    Units = {u1, u2}
    Places = {Shop, Depot}
    Transfers = {t1}
    MaxDrift = 1
    Counts = {c1}
    Adjustments = {a1}
    MaxStock = 2
    Shop = Shop
    Depot = Depot
    Bins = {1, 2}
    PickOrders = {o1}
    Workers = {w1, w2}
    MaxReceived = 3
    Need = 2
    Receivers = {r1, r2}
    l1 = l1
    Lines = {l1, l2}
    Serialized = {l1}
    Ordered <- MCOrdered
    Relays = {r1, r2}
    Batch = 1
    Jobs = {s1, s2}
    Buffer = 1
    MaxOnHand = 2
    MaxEvents = 2
    OrderLines <- MCLines
    Importers = {i1, i2}
    PageSize = 2
    EventsAmongImports = 1
    Orders = {o1}
    g1 = g1
    Goods = {g1, g2}
    Line <- MCLine
    RateBp = 1500
    MaxPostings = 2
    RefundSplit <- MCSplit
    Requests <- MCRequests
    ShortOfHalf <- MCShortOfHalf
    MaxRecords = 2
INVARIANTS
    SettledIsTrue
CHECK_DEADLOCK FALSE
