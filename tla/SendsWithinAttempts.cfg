SPECIFICATION NoticeSpec
CONSTANTS
    Messages = {m1}
    Runs = {w1, w2}
    MaxAttempts = 1
    NoMessage = NoMessage
INVARIANTS
    SendsWithinAttempts
CHECK_DEADLOCK FALSE
