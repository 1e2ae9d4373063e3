-------------------------- MODULE PackageLifecycle --------------------------
(***************************************************************************)
(* What an aid package promises, whatever the contract's entry points are: *)
(* it is offered once, on terms that never change, and its money leaves    *)
(* the escrow at most once, to a beneficiary or back to the operator.      *)
(* A voided package is out of the beneficiary's reach for good.            *)
(***************************************************************************)
EXTENDS Naturals

CONSTANTS
    Package,   \* package identities
    NoTerms    \* the terms of a package nobody has offered yet

VARIABLES
    stage,     \* stage[p]: "none", "open", "settled", "void" or "returned"
    terms,     \* terms[p]: what was offered
    payments   \* payments[p]: how many times its money has left the escrow

abstractVars == <<stage, terms, payments>>

LifecycleInit ==
    /\ stage = [p \in Package |-> "none"]
    /\ terms = [p \in Package |-> NoTerms]
    /\ payments = [p \in Package |-> 0]

Move(p, from, to) == stage[p] \in from /\ stage' = [stage EXCEPT ![p] = to]

Pay(p) == payments' = [payments EXCEPT ![p] = @ + 1]

Offer(p) ==
    /\ Move(p, {"none"}, "open")
    /\ terms'[p] # NoTerms
    /\ terms' = [terms EXCEPT ![p] = terms'[p]]
    /\ UNCHANGED payments

Settle(p) == Move(p, {"open"}, "settled") /\ Pay(p) /\ UNCHANGED terms

Void(p) == Move(p, {"open"}, "void") /\ UNCHANGED <<terms, payments>>

Return(p) == Move(p, {"open", "void"}, "returned") /\ Pay(p) /\ UNCHANGED terms

LifecycleNext == \E p \in Package : Offer(p) \/ Settle(p) \/ Void(p) \/ Return(p)

LifecycleSpec == LifecycleInit /\ [][LifecycleNext]_abstractVars

=============================================================================
