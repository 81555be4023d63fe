SPECIFICATION RegisterSpec
CONSTANTS
    Commands = {c1}
    Returns = {}
    Others = {o1, o2}
    Phones = {}
    Start = 2
    Limit = 1
INVARIANTS
    CursorMissesNothing
CHECK_DEADLOCK FALSE
