\* One package, three accounts, two tokens: every call about who may collect it,
\* and the admin's limits on amounts, expiries and tokens changing meanwhile.
CONSTANTS
    None = None
    r1 = r1
    r2 = r2
    r3 = r3
    usdc = usdc
    eurc = eurc
    root1 = root1
    Ids = {0}
    Addrs = {r1, r2, r3}
    Tokens = {usdc, eurc}
    Campaigns = {}
    Roots = {root1}
    Outsider = r3
    Eligible <- MCEligible
    Amounts = {2}
    Unit = 2
    Times = {0, 1, 2}
    Configs <- LimitingConfigs
    SurplusDelay = 1
    PauseFlags = {}
    Calls <- DelegationCalls
    MaxBalance = 2
    MaxTime = 3
SPECIFICATION Spec
INVARIANTS
    ExpiryHasDelegate
    ClaimEndsDelegation
CHECK_DEADLOCK FALSE
