-------------------------- MODULE AidEscrowParties --------------------------
(***************************************************************************)
(* What every part of the AidEscrow contract is about: the accounts that   *)
(* sign its calls, and the value of an absent Option or storage entry.     *)
(***************************************************************************)

CONSTANTS
    Addrs,  \* accounts: admins, distributors, recipients, delegates, claimants
    None    \* an absent Option, map entry or metadata key

=============================================================================
