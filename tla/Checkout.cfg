SPECIFICATION Spec
CONSTANTS
    o1 = o1
    o2 = o2
    NoOrder = NoOrder
    Orders = {o1, o2}
    Intents = {1, 2}
    Reconcilers = {r1}
    BatchLimit = 2
    Qty <- MCQty
    Stock = 2
INVARIANTS
    TypeOK
    StockAccounted
    ReservationGuardsOrder
    ChargedOnce
    PaidEventOnce
    CaptureAccounted
    DeliveryApplied
    OutcomesTruthful
PROPERTIES
    KeepsContract
CHECK_DEADLOCK FALSE
