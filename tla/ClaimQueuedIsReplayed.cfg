\* An action queued while a flush is under way.  (Expected: violated.)
CONSTANTS
    None = None
    Urgent = {None}
    k1 = k1
    Keys = {k1}
    MaxActions = 2
    MaxRetries = 2
    SaverMax = 1
    MaxReads = 1
    MaxCrashes = 0
SPECIFICATION Spec
INVARIANTS
    QueuedIsReplayed
CHECK_DEADLOCK FALSE
