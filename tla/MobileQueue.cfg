\* Two actions, one key, a dispatch outside the queue, one restart.
CONSTANTS
    None = None
    Urgent = {None}
    k1 = k1
    Keys = {k1}
    MaxActions = 2
    MaxRetries = 2
    SaverMax = 1
    MaxReads = 2
    MaxCrashes = 1
SPECIFICATION Spec
INVARIANTS
    StatesTellTheTruth
    SavedIsKept
CHECK_DEADLOCK FALSE
