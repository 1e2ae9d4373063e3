----------------------------- MODULE AidEscrow -----------------------------
(***************************************************************************)
(* The AidEscrow Soroban contract (app/onchain/contracts/aid_escrow): a    *)
(* pool of tokens out of which an operator locks packages for recipients,  *)
(* who claim them, or whose money returns to the pool or to the admin.     *)
(*                                                                         *)
(* One step is one successful contract call.  The host runs calls one at a *)
(* time and rolls back every write of a call that returns an error or      *)
(* panics, so a rejected call is a stuttering step: each early return of   *)
(* the code is a guard here, and an arithmetic overflow (a panic under     *)
(* overflow-checks) or a failing token transfer simply disables the step.  *)
(*                                                                         *)
(* The loops of the batch entry points and of the two sweeps treat their   *)
(* items one after the other within a single call, at a single time, and   *)
(* an item sees what the items before it did exactly as a call of its own  *)
(* would.  The step here is the item: a call over n items is n item steps  *)
(* with no Tick between them.                                              *)
(*                                                                         *)
(* An operator whose name starts with Broken is what a plausible mistake   *)
(* would make of the definition after it.  No action uses one: they serve  *)
(* to show that the properties would notice the mistake.                   *)
(***************************************************************************)
EXTENDS AidEscrowParties, Integers, Sequences, FiniteSetsExt

CONSTANTS
    Ids,           \* package ids (u64) that calls may name
    Tokens,        \* token contracts that answer `decimals` and `balance`
    Campaigns,     \* campaign_ref values
    Roots,         \* merkle_root values
    Eligible,      \* Eligible[root]: the claimants with a valid proof
    Amounts,       \* amounts (i128) calls may pass
    Unit,          \* 10^decimals: amounts are whole units
    Times,         \* timestamps calls may pass
    Configs,       \* arguments of set_config
    SurplusDelay,  \* SURPLUS_WITHDRAWAL_DELAY_SECS
    PauseFlags,    \* the pause switches the admin uses
    Calls,         \* bound: the entry points callers use
    MaxBalance,    \* bound: nobody funds the contract beyond this
    MaxTime        \* bound: the clock stops here

ConfigInput == [minAmount: Nat, maxExpiresIn: Nat, allowed: SUBSET Tokens, cooldown: Nat]

ASSUME EscrowAssumption ==
    /\ Ids \subseteq Nat
    /\ None \notin Addrs \cup Tokens \cup Campaigns \cup Roots
    /\ Eligible \in [Roots -> SUBSET Addrs]
    /\ Amounts \subseteq Int
    /\ Unit \in Nat \ {0}
    /\ Times \subseteq Nat
    /\ Configs \subseteq ConfigInput
    /\ SurplusDelay \in Nat
    /\ MaxBalance \in Nat
    /\ MaxTime \in Nat \ {0}
    /\ PauseFlags \subseteq {"all", "create", "claim", "refund", "withdraw"}

VARIABLES
    now,             \* env.ledger().timestamp()
    pkg,             \* package_key(id) |-> Package, for the ids in use
    counter,         \* KEY_PKG_COUNTER
    index,           \* KEY_PKG_IDX and the package_index_entry of each i
    balance,         \* the contract's balance in each token contract
    totalLocked,     \* KEY_TOTAL_LOCKED
    totalClaimed,    \* KEY_TOTAL_CLAIMED
    lastClaim,       \* KEY_RECIPIENT_LAST_CLAIM, NeverClaimed if absent
    delegate,        \* KEY_DELEGATES, None if absent
    delegateExpiry,  \* KEY_DELEGATE_EXPIRY, 0 if absent
    pending,         \* KEY_PENDING_WITHDRAWAL
    config,          \* KEY_CONFIG
    paused,          \* the KEY_PAUSED, KEY_PAUSE_* flags that are on
    campaignPaused,  \* the campaigns on in KEY_CAMPAIGN_PAUSED
    payouts,         \* history: the transfers made for each package
    reclaimed        \* history: refunds of packages already unlocked

poolVars == <<balance, totalLocked, totalClaimed>>
delegateVars == <<delegate, delegateExpiry>>
adminVars == <<config, paused, campaignPaused>>
vars == <<now, pkg, counter, index, poolVars, lastClaim, delegateVars,
          pending, adminVars, payouts, reclaimed>>

-----------------------------------------------------------------------------
(* Types *)

PackageStatus == {"Created", "Claimed", "Expired", "Cancelled", "Refunded"}

Package ==
    [recipient: Addrs, amount: Nat \ {0}, token: Tokens, status: PackageStatus,
     createdAt: Nat, expiresAt: Nat, startsAt: Nat,
     campaign: Campaigns \cup {None}, root: Roots \cup {None}, evidence: BOOLEAN]

PendingWithdrawal == [token: Tokens, amount: Nat \ {0}, executableAt: Nat]

Config == [minAmount: Nat \ {0}, maxExpiresIn: Nat, allowed: SUBSET Tokens, cooldown: Nat]

PayoutKinds == {"claim", "disburse", "refundOfLocked", "refundOfUnlocked"}

NeverClaimed == -1

PackagesTyped ==
    /\ DOMAIN pkg \subseteq Ids
    /\ pkg \in [DOMAIN pkg -> Package]
    /\ counter \in Nat
    /\ index \in Seq(Ids)
    /\ payouts \in [Ids -> Seq(PayoutKinds)]

MoneyTyped ==
    /\ balance \in [Tokens -> Nat]
    /\ totalLocked \in [Tokens -> Nat]
    /\ totalClaimed \in [Tokens -> Nat]
    /\ reclaimed \in [Tokens -> Nat]
    /\ pending \in PendingWithdrawal \cup {None}

PeopleTyped ==
    /\ lastClaim \in [Addrs -> Nat \cup {NeverClaimed}]
    /\ delegate \in [Ids -> Addrs \cup {None}]
    /\ delegateExpiry \in [Ids -> Nat]

AdminTyped ==
    /\ now \in 1..MaxTime
    /\ config \in Config
    /\ paused \subseteq PauseFlags
    /\ campaignPaused \subseteq Campaigns

\* Every variable keeps the shape the storage keys give it; in particular the
\* totals, which the code keeps as signed integers, never go below zero.
TypeOK == PackagesTyped /\ MoneyTyped /\ PeopleTyped /\ AdminTyped

-----------------------------------------------------------------------------
(* What the calls read *)

ActionPaused(action) == {"all", action} \cap paused # {}

BrokenCampaignPaused(id) == pkg[id].campaign \in campaignPaused  \* local switch only

CampaignPaused(id) == "all" \in paused \/ pkg[id].campaign \in campaignPaused

Active(id) == id \in DOMAIN pkg /\ pkg[id].status = "Created"

\* A claim at the very second of expires_at is still in time; 0 is "never".
PastExpiry(id) == pkg[id].expiresAt > 0 /\ now > pkg[id].expiresAt

TokenAllowed(t) == config.allowed = {} \/ t \in config.allowed

BrokenCooldownPassed(r) ==  \* one second short
    config.cooldown = 0 \/ lastClaim[r] = NeverClaimed \/ now - lastClaim[r] >= config.cooldown - 1

CooldownPassed(r) ==
    \/ config.cooldown = 0
    \/ lastClaim[r] = NeverClaimed
    \/ now - lastClaim[r] >= config.cooldown

\* get_delegate: the registered delegate, unless its expiry has come.
LiveDelegate(id) ==
    IF delegateExpiry[id] > 0 /\ now >= delegateExpiry[id] THEN None ELSE delegate[id]

AuthorisedClaimer(id, a) == a = pkg[id].recipient \/ a = LiveDelegate(id)

Surplus(t) == balance[t] - totalLocked[t]

-----------------------------------------------------------------------------
(* What the calls write *)

BrokenUnlocked(t, a) == [totalLocked EXCEPT ![t] = @ - a]  \* no floor

\* decrement_locked: floored at zero.
Unlocked(t, a) == [totalLocked EXCEPT ![t] = IF @ > a THEN @ - a ELSE 0]

SetStatus(id, s) == pkg' = [pkg EXCEPT ![id].status = s]

BrokenCountClaimed(t, a) == totalClaimed' = [totalClaimed EXCEPT ![t] = a]  \* no sum

\* increment_claimed
CountClaimed(t, a) == totalClaimed' = [totalClaimed EXCEPT ![t] = @ + a]

\* transfer_token out of the contract; `kind` is what the money leaves as.
PayOut(id, kind) ==
    /\ balance[pkg[id].token] >= pkg[id].amount
    /\ balance' = [balance EXCEPT ![pkg[id].token] = @ - pkg[id].amount]
    /\ payouts' = [payouts EXCEPT ![id] = Append(@, kind)]

BrokenClearDelegate(id) ==  \* forgets the expiry
    delegate' = [delegate EXCEPT ![id] = None] /\ UNCHANGED delegateExpiry

ClearDelegate(id) ==
    /\ delegate' = [delegate EXCEPT ![id] = None]
    /\ delegateExpiry' = [delegateExpiry EXCEPT ![id] = 0]

BrokenRegister(id) ==  \* counts the packages
    counter' = counter + 1 /\ index' = Append(index, id)

\* KEY_PKG_COUNTER and the index entry of a package that is being stored.
Register(id) ==
    /\ counter' = IF id >= counter THEN id + 1 ELSE counter
    /\ index' = Append(index, id)

StorePackage(id, p) ==
    pkg' = [i \in DOMAIN pkg \cup {id} |-> IF i = id THEN p ELSE pkg[i]]

NewPackage(r, a, t, e, s, c, m) ==
    [recipient |-> r, amount |-> a, token |-> t, status |-> "Created",
     createdAt |-> now, expiresAt |-> e, startsAt |-> s,
     campaign |-> c, root |-> m, evidence |-> FALSE]

-----------------------------------------------------------------------------
(* Funding and creation *)

Fund(t, a) ==
    /\ a > 0
    /\ a % Unit = 0
    /\ balance[t] + a <= MaxBalance
    /\ balance' = [balance EXCEPT ![t] = @ + a]
    /\ UNCHANGED <<now, pkg, counter, index, totalLocked, totalClaimed, lastClaim,
                   delegateVars, pending, adminVars, payouts, reclaimed>>

AmountValid(a) == a > 0 /\ a % Unit = 0 /\ a >= config.minAmount

BrokenSolvent(t, a) == balance[t] >= a  \* forgets what is locked already

\* The contract can lock `a` more of token t.
Solvent(t, a) == balance[t] >= totalLocked[t] + a

BrokenLock(t, a) == totalLocked' = [totalLocked EXCEPT ![t] = a]  \* no sum

\* increment_locked
Lock(t, a) == totalLocked' = [totalLocked EXCEPT ![t] = @ + a]

\* The caller picks the id and an absolute expiry, 0 for none.
CreatePackage(id, r, a, t, e, s, c, m) ==
    /\ ~ActionPaused("create")
    /\ AmountValid(a)
    /\ TokenAllowed(t)
    /\ config.maxExpiresIn > 0 => e > now /\ e - now <= config.maxExpiresIn
    /\ id \notin DOMAIN pkg
    /\ Solvent(t, a)
    /\ s >= now
    /\ e > 0 => s <= e
    /\ Lock(t, a)
    /\ StorePackage(id, NewPackage(r, a, t, e, s, c, m))
    /\ Register(id)
    /\ UNCHANGED <<now, balance, totalClaimed, lastClaim, delegateVars, pending,
                   adminVars, payouts, reclaimed>>

\* An item of batch_create_packages: the counter gives the id, the expiry is a
\* duration from now (0 is "now"), and a claim start in the past is accepted.
BatchCreateItem(r, a, t, d, s, c, m) ==
    /\ ~ActionPaused("create")
    /\ TokenAllowed(t)
    /\ config.maxExpiresIn > 0 => d > 0 /\ d <= config.maxExpiresIn
    /\ s <= now + d
    /\ AmountValid(a)
    /\ Solvent(t, a)
    /\ counter \in Ids
    /\ Lock(t, a)
    /\ StorePackage(counter, NewPackage(r, a, t, now + d, s, c, m))
    /\ Register(counter)
    /\ UNCHANGED <<now, balance, totalClaimed, lastClaim, delegateVars, pending,
                   adminVars, payouts, reclaimed>>

-----------------------------------------------------------------------------
(* Claims *)

\* The checks every claim path makes on the package before it looks at the
\* caller.
Claimable(id) ==
    /\ ~ActionPaused("claim")
    /\ Active(id)
    /\ ~CampaignPaused(id)
    /\ now >= pkg[id].startsAt
    /\ ~PastExpiry(id)

\* finalize_claim: the cooldown and the last claim are the recipient's,
\* whoever collects the money.
FinalizeClaim(id) ==
    /\ CooldownPassed(pkg[id].recipient)
    /\ PayOut(id, "claim")
    /\ SetStatus(id, "Claimed")
    /\ totalLocked' = Unlocked(pkg[id].token, pkg[id].amount)
    /\ CountClaimed(pkg[id].token, pkg[id].amount)
    /\ lastClaim' = [lastClaim EXCEPT ![pkg[id].recipient] = now]
    /\ ClearDelegate(id)
    /\ UNCHANGED <<now, counter, index, pending, adminVars, reclaimed>>

Claim(id) ==
    /\ Claimable(id)
    /\ pkg[id].root = None
    /\ FinalizeClaim(id)

\* With a root, anyone who proves to be under it; without one, as a direct
\* claim by the recipient or the delegate.
ClaimWithProof(id, claimant) ==
    /\ Claimable(id)
    /\ IF pkg[id].root # None
       THEN claimant \in Eligible[pkg[id].root]
       ELSE AuthorisedClaimer(id, claimant)
    /\ FinalizeClaim(id)

ClaimWithRelayer(id, claimant) ==
    /\ Claimable(id)
    /\ pkg[id].root = None
    /\ AuthorisedClaimer(id, claimant)
    /\ FinalizeClaim(id)

\* An item of batch_claim; an item that fails is reported and left alone.
BatchClaimItem(id, claimant) ==
    /\ Claimable(id)
    /\ pkg[id].root = None
    /\ AuthorisedClaimer(id, claimant)
    /\ FinalizeClaim(id)

-----------------------------------------------------------------------------
(* What the admin does to packages *)

\* Pays the recipient whatever the claim window, the cooldown or the root say;
\* not a claim for the totals, and the delegate stays registered.
Disburse(id) ==
    /\ Active(id)
    /\ ~CampaignPaused(id)
    /\ PayOut(id, "disburse")
    /\ SetStatus(id, "Claimed")
    /\ totalLocked' = Unlocked(pkg[id].token, pkg[id].amount)
    /\ UNCHANGED <<now, counter, index, totalClaimed, lastClaim, delegateVars, pending,
                   adminVars, reclaimed>>

ReassignPackage(id, r) ==
    /\ Active(id)
    /\ ~PastExpiry(id)
    /\ pkg' = [pkg EXCEPT ![id].recipient = r]
    /\ UNCHANGED <<now, counter, index, poolVars, lastClaim, delegateVars, pending,
                   adminVars, payouts, reclaimed>>

BrokenRelease(id, s) ==  \* the money stays locked
    /\ SetStatus(id, s)
    /\ UNCHANGED <<now, counter, index, poolVars, lastClaim, delegateVars, pending,
                   adminVars, payouts, reclaimed>>

\* The money of a package that ends without a payout goes back to the pool.
Release(id, s) ==
    /\ SetStatus(id, s)
    /\ totalLocked' = Unlocked(pkg[id].token, pkg[id].amount)
    /\ UNCHANGED <<now, counter, index, balance, totalClaimed, lastClaim, delegateVars,
                   pending, adminVars, payouts, reclaimed>>

\* revoke, and an item of batch_revoke.
Revoke(id) == Active(id) /\ Release(id, "Cancelled")

CancelPackage(id) == Active(id) /\ ~PastExpiry(id) /\ Release(id, "Cancelled")

BrokenRefundable(id) ==  \* Refunded is not refused
    /\ id \in DOMAIN pkg
    /\ \/ pkg[id].status = "Created" /\ PastExpiry(id)
       \/ pkg[id].status \in {"Expired", "Cancelled", "Refunded"}

Refundable(id) ==
    /\ id \in DOMAIN pkg
    /\ \/ pkg[id].status = "Created" /\ PastExpiry(id)
       \/ pkg[id].status \in {"Expired", "Cancelled"}

\* should_unlock_locked
UnlocksOnRefund(id) == pkg[id].status \in {"Created", "Expired"}

\* refund, and an item of batch_refund: the amount goes to the admin.  The
\* history tells a package that was still in the locked total from one whose
\* money a sweep or a revocation had already returned to the pool.
Refund(id) ==
    /\ ~ActionPaused("refund")
    /\ Refundable(id)
    /\ ~CampaignPaused(id)
    /\ PayOut(id, IF pkg[id].status = "Created" THEN "refundOfLocked" ELSE "refundOfUnlocked")
    /\ totalLocked' = IF UnlocksOnRefund(id)
                      THEN Unlocked(pkg[id].token, pkg[id].amount)
                      ELSE totalLocked
    /\ SetStatus(id, "Refunded")
    /\ reclaimed' = IF pkg[id].status = "Created"
                    THEN reclaimed
                    ELSE [reclaimed EXCEPT ![pkg[id].token] = @ + pkg[id].amount]
    /\ UNCHANGED <<now, counter, index, totalClaimed, lastClaim, delegateVars, pending,
                   adminVars>>

Sweepable(id) == Active(id) /\ PastExpiry(id)

\* An item of sweep_expired_packages, open to anyone: the first package of the
\* index that is Created and past its expiry.
SweepPackage(i) ==
    /\ Sweepable(index[i])
    /\ \A j \in 1..(i - 1) : ~Sweepable(index[j])
    /\ Release(index[i], "Expired")

\* extend_expiry; extend_expiration is this call with expires_at + delta, also
\* refused when expires_at is 0.
ExtendExpiry(id, e) ==
    /\ Active(id)
    /\ pkg[id].expiresAt # 0
    /\ ~PastExpiry(id)
    /\ e > pkg[id].expiresAt
    /\ config.maxExpiresIn > 0 => e > now /\ e - now <= config.maxExpiresIn
    /\ pkg' = [pkg EXCEPT ![id].expiresAt = e]
    /\ UNCHANGED <<now, counter, index, poolVars, lastClaim, delegateVars, pending,
                   adminVars, payouts, reclaimed>>

AttachEvidenceHash(id) ==
    /\ id \in DOMAIN pkg
    /\ ~pkg[id].evidence
    /\ pkg' = [pkg EXCEPT ![id].evidence = TRUE]
    /\ UNCHANGED <<now, counter, index, poolVars, lastClaim, delegateVars, pending,
                   adminVars, payouts, reclaimed>>

-----------------------------------------------------------------------------
(* Surplus withdrawals *)

ProposeSurplusWithdrawal(t, a) ==
    /\ ~ActionPaused("withdraw")
    /\ a > 0
    /\ pending = None
    /\ a <= Surplus(t)
    /\ pending' = [token |-> t, amount |-> a, executableAt |-> now + SurplusDelay]
    /\ UNCHANGED <<now, pkg, counter, index, poolVars, lastClaim, delegateVars, adminVars,
                   payouts, reclaimed>>

CancelSurplusWithdrawal ==
    /\ pending # None
    /\ pending' = None
    /\ UNCHANGED <<now, pkg, counter, index, poolVars, lastClaim, delegateVars, adminVars,
                   payouts, reclaimed>>

BrokenStillSurplus == TRUE  \* trusts the proposal

\* The surplus is measured again: packages may have been created meanwhile.
StillSurplus == pending.amount <= Surplus(pending.token)

ExecuteSurplusWithdrawal ==
    /\ ~ActionPaused("withdraw")
    /\ pending # None
    /\ now >= pending.executableAt
    /\ StillSurplus
    /\ balance' = [balance EXCEPT ![pending.token] = @ - pending.amount]
    /\ pending' = None
    /\ UNCHANGED <<now, pkg, counter, index, totalLocked, totalClaimed, lastClaim,
                   delegateVars, adminVars, payouts, reclaimed>>

-----------------------------------------------------------------------------
(* Delegates *)

BrokenDelegateSettable(id, a) ==  \* any status
    id \in DOMAIN pkg /\ a # pkg[id].recipient

DelegateSettable(id, a) ==
    /\ id \in DOMAIN pkg
    /\ pkg[id].status # "Claimed"
    /\ a # pkg[id].recipient

\* set_delegate: an expiry left by an earlier delegate of the package stays.
SetDelegate(id, a) ==
    /\ DelegateSettable(id, a)
    /\ delegate' = [delegate EXCEPT ![id] = a]
    /\ UNCHANGED <<now, pkg, counter, index, poolVars, lastClaim, delegateExpiry, pending,
                   adminVars, payouts, reclaimed>>

SetDelegateWithExpiry(id, a, e) ==
    /\ e > 0 => e > now
    /\ DelegateSettable(id, a)
    /\ delegate' = [delegate EXCEPT ![id] = a]
    /\ delegateExpiry' = IF e > 0 THEN [delegateExpiry EXCEPT ![id] = e] ELSE delegateExpiry
    /\ UNCHANGED <<now, pkg, counter, index, poolVars, lastClaim, pending, adminVars,
                   payouts, reclaimed>>

RevokeDelegate(id) ==
    /\ id \in DOMAIN pkg
    /\ ClearDelegate(id)
    /\ UNCHANGED <<now, pkg, counter, index, poolVars, lastClaim, pending, adminVars,
                   payouts, reclaimed>>

DelegateExpired(id) == delegateExpiry[id] > 0 /\ now >= delegateExpiry[id]

\* An item of sweep_expired_delegates (and of cleanup_expired_delegates): the
\* first expired entry of the expiry map, provided the delegate map has it too.
SweepDelegate(id) ==
    /\ DelegateExpired(id)
    /\ \A i \in Ids : i < id => ~DelegateExpired(i)
    /\ delegate[id] # None
    /\ ClearDelegate(id)
    /\ UNCHANGED <<now, pkg, counter, index, poolVars, lastClaim, pending, adminVars,
                   payouts, reclaimed>>

-----------------------------------------------------------------------------
(* Configuration and pause switches, all behind the admin's signature *)

SetConfig(c) ==
    /\ c.minAmount > 0
    /\ config' = c
    /\ UNCHANGED <<now, pkg, counter, index, poolVars, lastClaim, delegateVars, pending,
                   paused, campaignPaused, payouts, reclaimed>>

SetAllowed(ts) ==
    /\ config' = [config EXCEPT !.allowed = ts]
    /\ UNCHANGED <<now, pkg, counter, index, poolVars, lastClaim, delegateVars, pending,
                   paused, campaignPaused, payouts, reclaimed>>

AddAllowedToken(t) == t \notin config.allowed /\ SetAllowed(config.allowed \cup {t})

RemoveAllowedToken(t) == t \in config.allowed /\ SetAllowed(config.allowed \ {t})

\* pause and pause_action, unpause and unpause_action.
SetPaused(flags) ==
    /\ paused' = flags
    /\ UNCHANGED <<now, pkg, counter, index, poolVars, lastClaim, delegateVars, pending,
                   config, campaignPaused, payouts, reclaimed>>

Pause(flag) == SetPaused(paused \cup {flag})

Unpause(flag) == SetPaused(paused \ {flag})

SetCampaignPaused(cs) ==
    /\ campaignPaused' = cs
    /\ UNCHANGED <<now, pkg, counter, index, poolVars, lastClaim, delegateVars, pending,
                   config, paused, payouts, reclaimed>>

PauseCampaign(c) == SetCampaignPaused(campaignPaused \cup {c})

UnpauseCampaign(c) == SetCampaignPaused(campaignPaused \ {c})

-----------------------------------------------------------------------------
(* The ledger closes: time moves on between calls. *)

Tick ==
    /\ now < MaxTime
    /\ now' = now + 1
    /\ UNCHANGED <<pkg, counter, index, poolVars, lastClaim, delegateVars, pending,
                   adminVars, payouts, reclaimed>>

Init ==
    /\ now = 1
    /\ pkg = [i \in {} |-> None]
    /\ counter = 0
    /\ index = <<>>
    /\ balance = [t \in Tokens |-> 0]
    /\ totalLocked = [t \in Tokens |-> 0]
    /\ totalClaimed = [t \in Tokens |-> 0]
    /\ lastClaim = [a \in Addrs |-> NeverClaimed]
    /\ delegate = [i \in Ids |-> None]
    /\ delegateExpiry = [i \in Ids |-> 0]
    /\ pending = None
    /\ config = [minAmount |-> 1, maxExpiresIn |-> 0, allowed |-> {}, cooldown |-> 0]
    /\ paused = {}
    /\ campaignPaused = {}
    /\ payouts = [i \in Ids |-> <<>>]
    /\ reclaimed = [t \in Tokens |-> 0]

-----------------------------------------------------------------------------
(* The callers.  Calls bounds an instance to some of the entry points; the *)
(* theorems hold for every value of it.                                    *)

Create ==
    \E r \in Addrs, a \in Amounts, t \in Tokens, x \in Times, s \in Times \cup {now},
       c \in Campaigns \cup {None}, m \in Roots \cup {None} :
        \/ \E id \in Ids : CreatePackage(id, r, a, t, x, s, c, m)
        \/ "batch_create_packages" \in Calls /\ BatchCreateItem(r, a, t, x, s, c, m)

Collect ==
    \E id \in Ids :
        \/ "claim" \in Calls /\ Claim(id)
        \/ \E a \in Addrs :
            \/ "claim_with_proof" \in Calls /\ ClaimWithProof(id, a)
            \/ "claim_with_relayer" \in Calls /\ ClaimWithRelayer(id, a)
            \/ "batch_claim" \in Calls /\ BatchClaimItem(id, a)

Administer ==
    \E id \in Ids :
        \/ "disburse" \in Calls /\ Disburse(id)
        \/ "revoke" \in Calls /\ Revoke(id)
        \/ "cancel_package" \in Calls /\ CancelPackage(id)
        \/ "refund" \in Calls /\ Refund(id)
        \/ "attach_evidence_hash" \in Calls /\ AttachEvidenceHash(id)
        \/ "reassign_package" \in Calls /\ \E r \in Addrs : ReassignPackage(id, r)
        \/ "extend_expiry" \in Calls /\ \E e \in Times : ExtendExpiry(id, e)

Sweep == "sweep_expired_packages" \in Calls /\ \E i \in 1..Len(index) : SweepPackage(i)

Withdraw ==
    /\ "surplus_withdrawal" \in Calls
    /\ \/ \E t \in Tokens, a \in Amounts : ProposeSurplusWithdrawal(t, a)
       \/ CancelSurplusWithdrawal
       \/ ExecuteSurplusWithdrawal

Delegation ==
    \E id \in Ids :
        \/ "set_delegate" \in Calls /\ \E a \in Addrs : SetDelegate(id, a)
        \/ "set_delegate_with_expiry" \in Calls
            /\ \E a \in Addrs, e \in Times : SetDelegateWithExpiry(id, a, e)
        \/ "revoke_delegate" \in Calls /\ RevokeDelegate(id)
        \/ "sweep_expired_delegates" \in Calls /\ SweepDelegate(id)

Configure ==
    \/ \E c \in Configs : SetConfig(c)
    \/ \E t \in Tokens :
        \/ "allowed_tokens" \in Calls /\ AddAllowedToken(t)
        \/ "allowed_tokens" \in Calls /\ RemoveAllowedToken(t)
    \/ \E f \in PauseFlags : Pause(f) \/ Unpause(f)
    \/ \E c \in Campaigns : PauseCampaign(c) \/ UnpauseCampaign(c)

Next ==
    \/ \E t \in Tokens, a \in Amounts : Fund(t, a)
    \/ Create
    \/ Collect
    \/ Administer
    \/ Sweep
    \/ Withdraw
    \/ Delegation
    \/ Configure
    \/ Tick

Spec == Init /\ [][Next]_vars

-----------------------------------------------------------------------------
(* Properties *)

Sum(ids) == MapThenSumSet(LAMBDA i : pkg[i].amount, ids)

\* get_aggregates' total_committed: the packages recipients may still count on.
Committed(t) == Sum({i \in DOMAIN pkg : pkg[i].token = t /\ pkg[i].status = "Created"})

LastPayout(id) == payouts[id][Len(payouts[id])]

\* A package's money leaves the contract once if it ended Claimed or Refunded,
\* and never otherwise, whichever of the seven entry points that pay got it there.
PaidExactlyOnce ==
    \A id \in Ids :
        Len(payouts[id]) = IF id \in DOMAIN pkg /\ pkg[id].status \in {"Claimed", "Refunded"}
                           THEN 1 ELSE 0

\* The index lists each stored package once, and batch creation can never pick
\* an id in use, although callers of create_package choose ids freely.
IndexConsistent ==
    /\ \A id \in DOMAIN pkg : id < counter /\ \E i \in 1..Len(index) : index[i] = id
    /\ \A i \in 1..Len(index) : index[i] \in DOMAIN pkg
    /\ \A i, j \in 1..Len(index) : index[i] = index[j] => i = j

\* The locked total never counts money that no Created package stands for: a
\* call that ends a package cannot forget to unlock it.
LockedIsCommitted == \A t \in Tokens : totalLocked[t] <= Committed(t)

\* When the locked total falls short of the Created packages, packages refunded
\* after their money had been unlocked once make up for the difference.
ShortfallIsDoubleUnlock ==
    \A t \in Tokens :
        Committed(t) - totalLocked[t] <=
            Sum({i \in DOMAIN pkg : /\ pkg[i].token = t
                                    /\ pkg[i].status = "Refunded"
                                    /\ LastPayout(i) = "refundOfUnlocked"})

\* The contract can cover its locked total but for what refunds took from
\* packages already unlocked: no claim, creation or withdrawal eats into it.
LockedIsCovered == \A t \in Tokens : balance[t] + reclaimed[t] >= totalLocked[t]

\* total_claimed is the sum of what recipients and delegates collected, and of
\* nothing an admin disbursed.
ClaimedTotalExact ==
    \A t \in Tokens :
        totalClaimed[t] = Sum({i \in DOMAIN pkg : /\ pkg[i].token = t
                                                  /\ pkg[i].status = "Claimed"
                                                  /\ LastPayout(i) = "claim"})

\* An expiry entry always has its delegate: an orphan would stop
\* sweep_expired_delegates from making progress.
ExpiryHasDelegate == \A id \in Ids : delegateExpiry[id] # 0 => delegate[id] # None

\* Once a package was collected through a claim path it has no delegate again.
ClaimEndsDelegation ==
    \A id \in DOMAIN pkg :
        pkg[id].status = "Claimed" /\ LastPayout(id) = "claim" => delegate[id] = None

\* While the contract is paused no path takes money out of it, and while a
\* campaign is paused no path pays out one of its packages.
PauseHoldsFunds ==
    [][/\ "all" \in paused => \A t \in Tokens : balance'[t] >= balance[t]
       /\ \A id \in DOMAIN pkg :
            pkg[id].campaign \in campaignPaused => payouts'[id] = payouts[id]]_vars

\* Two collections for one recipient are a cooldown apart, whichever paths they
\* take and whoever collects.
CooldownSpaced ==
    [][\A id \in DOMAIN pkg :
        /\ payouts'[id] = Append(payouts[id], "claim")
        /\ lastClaim[pkg[id].recipient] # NeverClaimed
        => now - lastClaim[pkg[id].recipient] >= config.cooldown]_vars

\* A withdrawal waits out its delay and leaves the locked total covered, even
\* when packages were created between the proposal and the execution.
WithdrawalSafe ==
    [][pending # None /\ pending' = None /\ balance' # balance =>
        /\ now >= pending.executableAt
        /\ balance'[pending.token] >= totalLocked'[pending.token]]_vars

-----------------------------------------------------------------------------
(* The contract implements the package lifecycle. *)

StageOf(id) ==
    IF id \notin DOMAIN pkg THEN "none"
    ELSE IF pkg[id].status = "Created" THEN "open"
    ELSE IF pkg[id].status = "Claimed" THEN "settled"
    ELSE IF pkg[id].status = "Refunded" THEN "returned"
    ELSE "void"

\* What a recipient was promised.  The recipient may be reassigned and the
\* expiry extended: neither is part of the terms.
TermsOf(id) ==
    IF id \notin DOMAIN pkg THEN <<>>
    ELSE <<pkg[id].amount, pkg[id].token, pkg[id].startsAt, pkg[id].campaign, pkg[id].root>>

Lifecycle == INSTANCE PackageLifecycle WITH
    Package <- Ids,
    NoTerms <- <<>>,
    stage <- [id \in Ids |-> StageOf(id)],
    terms <- [id \in Ids |-> TermsOf(id)],
    payments <- [id \in Ids |-> Len(payouts[id])]

\* Every call moves each package along the lifecycle or leaves it alone: ids
\* are never reused, ended packages never reopen, money is never paid twice.
ImplementsLifecycle == Lifecycle!LifecycleSpec

=============================================================================
