SPECIFICATION Spec
CONSTANTS
    o1 = o1
    o2 = o2
    NoOrder = NoOrder
    Orders = {o1}
    Intents = {1}
    Reconcilers = {r1}
    BatchLimit = 1
    Qty <- MCQty
    Stock = 2
INVARIANTS
    PaidMeansConfirmed
CHECK_DEADLOCK FALSE
