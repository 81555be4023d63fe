SPECIFICATION QueuesSpec
CONSTANTS
    Orders = {o1, o2}
    NoOrder = NoOrder
    Intents = {1, 2}
    Reconcilers = {r1}
    BatchLimit = 1
    Qty <- MCQty
    Stock = 2
    Lapsed = o1
    Old = 1
    Commands = {c1, c2}
    Returns = {c2}
    Others = {x1}
    Phones = {c1, c2, x1}
    Start = 1
    Limit = 1
    Messages = {m1}
    Runs = {w1, w2}
    MaxAttempts = 2
    NoMessage = NoMessage
INVARIANTS
    QueuesTypeOK
    OverlayIsPending
PROPERTIES
    PendingOrdersEnd
    StuckIntentsSurface
    KeepsCommandContract
    PendingSettles
    MessagesSettle
CHECK_DEADLOCK FALSE
