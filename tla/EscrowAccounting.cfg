\* Two packages of one token and one recipient, every call that moves money.
CONSTANTS
    None = None
    r1 = r1
    usdc = usdc
    Ids = {0, 1}
    Addrs = {r1}
    Tokens = {usdc}
    Campaigns = {}
    Roots = {}
    Outsider = None
    Eligible <- MCEligible
    Amounts = {1, 2}
    Unit = 1
    Times = {0, 2}
    Configs <- NoConfigs
    SurplusDelay = 1
    PauseFlags = {}
    Calls <- AccountingCalls
    MaxBalance = 3
    MaxTime = 3
SPECIFICATION Spec
INVARIANTS
    TypeOK
    PaidExactlyOnce
    IndexConsistent
    LockedIsCommitted
    ShortfallIsDoubleUnlock
    LockedIsCovered
    ClaimedTotalExact
PROPERTIES
    WithdrawalSafe
    ImplementsLifecycle
CHECK_DEADLOCK FALSE
