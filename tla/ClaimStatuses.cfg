\* Two claims and a replacement, two requests at once, one verification job.
CONSTANTS
    None = None
    c1 = c1
    c2 = c2
    p1 = p1
    p2 = p2
    j1 = j1
    Claims = {c1, c2}
    Requests = {p1, p2}
    Jobs = {j1}
    Amounts = {1}
    Budgets = {1, 2}
    MaxAttempts = 2
    MaxFaults = 1
SYMMETRY Symmetry
SPECIFICATION Spec
INVARIANTS
    VerificationPrecedes
PROPERTIES
    NewLocksFitBudget
    
CHECK_DEADLOCK FALSE
