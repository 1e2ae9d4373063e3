------------------------ MODULE MCAidEscrowCampaigns ------------------------
(***************************************************************************)
(* Values of the constants of AidEscrowCampaigns for the model checker.    *)
(***************************************************************************)
EXTENDS AidEscrowCampaigns

MCEligible == [m \in Roots |-> Addrs]

\* A cooldown switched on and off: one call is too early, the next may be in time.
ThrottlingConfigs ==
    {[minAmount |-> 1, maxExpiresIn |-> 0, allowed |-> {}, cooldown |-> 1],
     [minAmount |-> 1, maxExpiresIn |-> 0, allowed |-> {}, cooldown |-> 0]}

\* Every path that pays out, and the batches that create what they pay.
PayingCalls ==
    {"batch_create_packages", "claim", "claim_with_relayer", "batch_claim", "disburse",
     "cancel_package", "refund", "sweep_expired_packages", "surplus_withdrawal"}

=============================================================================
