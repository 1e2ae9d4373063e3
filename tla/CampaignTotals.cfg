\* Two packages in and out of a campaign, migrations back and forth, pauses, a
\* cooldown switched on and off, and the paths that pay out.
CONSTANTS
    None = None
    r1 = r1
    usdc = usdc
    c1 = c1
    Ids = {0, 1}
    Addrs = {r1}
    Tokens = {usdc}
    Campaigns = {c1}
    Roots = {}
    Eligible <- MCEligible
    Amounts = {1}
    Unit = 1
    Times = {0, 1}
    Configs <- ThrottlingConfigs
    SurplusDelay = 1
    PauseFlags = {"all"}
    Calls <- PayingCalls
    MaxBalance = 2
    MaxTime = 2
    Versions = {1, 2}
SPECIFICATION CampaignsSpec
INVARIANTS
    CampaignLockedBounds
    CampaignClaimedBounds
PROPERTIES
    PauseHoldsFunds
    
CHECK_DEADLOCK FALSE
