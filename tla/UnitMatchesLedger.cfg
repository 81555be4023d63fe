SPECIFICATION Spec
CONSTANTS
    Refunds = {f1}
    Qty = 2
    Total = 2
    Advance = 1
INVARIANTS
    UnitMatchesLedger
CHECK_DEADLOCK FALSE
