---------------------------- MODULE MCAidEscrow ----------------------------
(***************************************************************************)
(* Values of the constants of AidEscrow for the model checker.             *)
(***************************************************************************)
EXTENDS AidEscrow

\* The last account stands under no Merkle root.
CONSTANTS Outsider

MCEligible == [m \in Roots |-> Addrs \ {Outsider}]

NoConfigs == {}

\* A cap on expiries, a minimum above every amount, and one refused for its minimum.
LimitingConfigs ==
    {[minAmount |-> 1, maxExpiresIn |-> 1, allowed |-> {}, cooldown |-> 0],
     [minAmount |-> 3, maxExpiresIn |-> 0, allowed |-> {}, cooldown |-> 0],
     [minAmount |-> 0, maxExpiresIn |-> 0, allowed |-> {}, cooldown |-> 0]}

AccountingCalls ==
    {"batch_create_packages", "claim", "disburse", "revoke", "cancel_package", "refund",
     "sweep_expired_packages", "surplus_withdrawal"}

DelegationCalls ==
    {"claim", "claim_with_proof", "claim_with_relayer", "batch_claim", "disburse",
     "reassign_package", "revoke", "set_delegate", "set_delegate_with_expiry",
     "revoke_delegate", "sweep_expired_delegates", "attach_evidence_hash",
     "extend_expiry", "allowed_tokens"}

RefundCalls == {"revoke", "refund", "sweep_expired_packages"}

-----------------------------------------------------------------------------
\* What the tests say of the contract; a run of its own finds it violated.
\* tests/property_based_invariants.rs, inv(2): "contract token balance >=
\* total_locked (solvency)".  A package that was revoked and then refunded is
\* paid out of money that is locked for another package.
BalanceCoversLocked == \A t \in Tokens : balance[t] >= totalLocked[t]

=============================================================================
