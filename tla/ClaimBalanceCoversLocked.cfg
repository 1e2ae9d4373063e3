\* Refunding a revoked package whose money another package has locked.
CONSTANTS
    None = None
    r1 = r1
    usdc = usdc
    Ids = {0, 1}
    Addrs = {r1}
    Tokens = {usdc}
    Campaigns = {}
    Roots = {}
    Outsider = None
    Eligible <- MCEligible
    Amounts = {1}
    Unit = 1
    Times = {0}
    Configs <- NoConfigs
    SurplusDelay = 1
    PauseFlags = {}
    Calls <- RefundCalls
    MaxBalance = 2
    MaxTime = 4
SPECIFICATION Spec
INVARIANTS
    BalanceCoversLocked
CHECK_DEADLOCK FALSE
