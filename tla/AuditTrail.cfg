\* Two writers, three legacy rows in two batches, one rewritten row.  soft_delete
\* is left out: it is anonymize without the change of content.
CONSTANTS
    None = None
    w1 = w1
    w2 = w2
    Writers = {w1, w2}
    MaxRows = 4
    Legacy = 3
    BatchSize = 2
    PageSize = 2
    Strategies = {"hard_delete", "anonymize"}
    MaxRewrites = 1
SYMMETRY Symmetry
SPECIFICATION Spec
INVARIANTS
    HeadIsCurrent
    NoFalseAlarm
    DamageIsReported
PROPERTIES
    ImplementsLog
CHECK_DEADLOCK FALSE
