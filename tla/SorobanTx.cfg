\* One record, a worker and a manual retry that may execute it at once, two jobs
\* of each kind waiting, and two faults.
CONSTANTS
    t1 = t1
    w1 = w1
    c1 = c1
    Txs = {t1}
    Workers = {w1}
    Callers = {c1}
    MaxAttempts = 2
    MaxJobs = 2
    MaxFaults = 2
    MaxManual = 1
SPECIFICATION FairSpec
INVARIANTS
    TypeOK
    ConfirmedTookEffect
    EffectIsTraced
    PendingWillRun
    GivenUpIsClosed
PROPERTIES
    Settles
