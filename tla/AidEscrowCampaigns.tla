------------------------- MODULE AidEscrowCampaigns -------------------------
(***************************************************************************)
(* The per-campaign totals that the AidEscrow contract keeps beside its    *)
(* token totals, and the migration that rebuilds them from the packages.   *)
(*                                                                         *)
(* Every call of AidEscrow that locks, unlocks or claims for a package     *)
(* does the same to the total of the package's campaign, in the same step. *)
(***************************************************************************)
EXTENDS AidEscrow

CONSTANTS
    Versions   \* arguments of migrate

VARIABLES
    campaignLocked,    \* KEY_CAMPAIGN_TOKEN_LOCKED, 0 if absent
    campaignClaimed,   \* KEY_CAMPAIGN_TOKEN_CLAIMED, 0 if absent
    version            \* KEY_VERSION

campaignVars == <<campaignLocked, campaignClaimed, version>>
allVars == <<vars, campaignVars>>

ASSUME VersionsAssumption == Versions \subseteq Nat

CampaignTotals == [Campaigns -> [Tokens -> Nat]]

-----------------------------------------------------------------------------

Less(m, a) == IF m > a THEN m - a ELSE 0

\* adjust_campaign_token_amount: nothing for a package without a campaign.
Raise(totals, p) ==
    IF p.campaign = None THEN totals
    ELSE [totals EXCEPT ![p.campaign][p.token] = @ + p.amount]

Lower(totals, p) ==
    IF p.campaign = None THEN totals
    ELSE [totals EXCEPT ![p.campaign][p.token] = Less(@, p.amount)]

\* A call that stores a package, or that changes the status of one.
Stores(id) == id \notin DOMAIN pkg /\ id \in DOMAIN pkg'

Ends(id) == id \in DOMAIN pkg /\ pkg'[id].status # pkg[id].status

CampaignCreate ==
    /\ Create
    /\ \E id \in Ids : Stores(id) /\ campaignLocked' = Raise(campaignLocked, pkg'[id])
    /\ UNCHANGED <<campaignClaimed, version>>

CampaignCollect ==
    /\ Collect
    /\ \E id \in Ids :
        /\ Ends(id)
        /\ campaignLocked' = Lower(campaignLocked, pkg[id])
        /\ campaignClaimed' = Raise(campaignClaimed, pkg[id])
    /\ UNCHANGED version

\* decrement_locked without increment_claimed.
CampaignUnlock(id) ==
    /\ Ends(id)
    /\ campaignLocked' = Lower(campaignLocked, pkg[id])
    /\ UNCHANGED <<campaignClaimed, version>>

CampaignAdminister ==
    /\ Administer
    /\ IF \E id \in Ids : Ends(id) /\ (pkg'[id].status = "Refunded" => UnlocksOnRefund(id))
       THEN \E id \in Ids : CampaignUnlock(id)
       ELSE UNCHANGED campaignVars

CampaignSweep == Sweep /\ \E id \in Ids : CampaignUnlock(id)

\* The calls that neither lock, nor unlock, nor claim.
CampaignOther ==
    /\ \/ \E t \in Tokens, a \in Amounts : Fund(t, a)
       \/ Withdraw
       \/ Delegation
       \/ Configure
       \/ Tick
    /\ UNCHANGED campaignVars

-----------------------------------------------------------------------------
(* migrate *)

BrokenTagged(c, t, s) ==  \* ids from 1
    {id \in DOMAIN pkg : /\ id > 0
                         /\ pkg[id].campaign = c
                         /\ pkg[id].token = t
                         /\ pkg[id].status = s}

\* The scan of the ids below KEY_PKG_COUNTER.
Tagged(c, t, s) ==
    {id \in DOMAIN pkg : /\ id < counter
                         /\ pkg[id].campaign = c
                         /\ pkg[id].token = t
                         /\ pkg[id].status = s}

BrokenBackfill(s) ==  \* swept packages are counted as well
    [c \in Campaigns |-> [t \in Tokens |->
        Sum(Tagged(c, t, s) \cup Tagged(c, t, "Expired"))]]

\* The totals that the stored packages with this status stand for.
Backfill(s) == [c \in Campaigns |-> [t \in Tokens |-> Sum(Tagged(c, t, s))]]

\* The version is whatever the admin says, but only the step from 1 to 2 does
\* any work; it can be taken again after a migrate(1).
Migrate(v) ==
    /\ version' = v
    /\ IF version = 1 /\ v = 2
       THEN /\ campaignLocked' = Backfill("Created")
            /\ campaignClaimed' = Backfill("Claimed")
       ELSE UNCHANGED <<campaignLocked, campaignClaimed>>
    /\ UNCHANGED vars

-----------------------------------------------------------------------------

NoTotals == [c \in Campaigns |-> [t \in Tokens |-> 0]]

CampaignsInit ==
    /\ Init
    /\ campaignLocked = NoTotals
    /\ campaignClaimed = NoTotals
    /\ version = 1

CampaignsNext ==
    \/ CampaignCreate
    \/ CampaignCollect
    \/ CampaignAdminister
    \/ CampaignSweep
    \/ CampaignOther
    \/ \E v \in Versions : Migrate(v)

CampaignsSpec == CampaignsInit /\ [][CampaignsNext]_allVars

-----------------------------------------------------------------------------
(* Properties *)

CampaignsTypeOK ==
    /\ campaignLocked \in CampaignTotals
    /\ campaignClaimed \in CampaignTotals
    /\ version \in Nat

Of(c, t) == {id \in DOMAIN pkg : pkg[id].campaign = c /\ pkg[id].token = t}

CommittedTo(c, t) == Sum({id \in Of(c, t) : pkg[id].status = "Created"})

CollectedFrom(c, t) ==
    Sum({id \in Of(c, t) : pkg[id].status = "Claimed" /\ LastPayout(id) = "claim"})

DisbursedFrom(c, t) ==
    Sum({id \in Of(c, t) : pkg[id].status = "Claimed" /\ LastPayout(id) = "disburse"})

\* A campaign's locked total never counts a package that has ended, and misses
\* an open one only to the extent of the campaign's own double unlocks, however
\* claims, sweeps and migrations interleave.
CampaignLockedBounds ==
    \A c \in Campaigns, t \in Tokens :
        /\ campaignLocked[c][t] <= CommittedTo(c, t)
        /\ CommittedTo(c, t) - campaignLocked[c][t] <=
            Sum({id \in Of(c, t) : /\ pkg[id].status = "Refunded"
                                   /\ LastPayout(id) = "refundOfUnlocked"})

\* A campaign's claimed total has every collection, whatever was migrated in
\* between, and counts at most the disbursements on top.
CampaignClaimedBounds ==
    \A c \in Campaigns, t \in Tokens :
        /\ CollectedFrom(c, t) <= campaignClaimed[c][t]
        /\ campaignClaimed[c][t] <= CollectedFrom(c, t) + DisbursedFrom(c, t)

=============================================================================
