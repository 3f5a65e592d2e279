SPECIFICATION DirectSpec
CONSTANTS
    c1 = c1
    c2 = c2
    s1 = s1
    s2 = s2
    s3 = s3
    l1 = l1
    l2 = l2
    NoLoop = NoLoop
    Callers = {c1, c2}
    Sessions = {s1, s2, s3}
    SessionOrder <- MCSessionOrder
    Loops = {l1, l2}
    LoopOf <- MCLoopOf
    MaxDirectInFlight = 4
    MaxDirect = 3
    MaxGateMoves = 2
INVARIANT QuotaNeverOverReturned
CHECK_DEADLOCK FALSE
