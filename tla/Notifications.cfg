\* One notification, two operators who replay it, both ways, and one fault.
CONSTANTS
    None = None
    n1 = n1
    j1 = j1
    j2 = j2
    j3 = j3
    p1 = p1
    p2 = p2
    Records = {n1}
    Jobs = {j1, j2, j3}
    Operators = {p1, p2}
    MaxAttempts = 2
    Threshold = 2
    MaxFaults = 1
SPECIFICATION FairSpec
INVARIANTS
    SentWasDelivered
    OneJobAtATime
    CutOffIsEarned

    
CHECK_DEADLOCK FALSE
