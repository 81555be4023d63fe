SPECIFICATION Spec
CONSTANTS
    Sales = {s1, s2}
INVARIANTS
    NoSaleLost
CHECK_DEADLOCK FALSE
