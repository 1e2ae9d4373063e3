------------------------------ MODULE MCClaims ------------------------------
(***************************************************************************)
(* The claims of a campaign on a small instance.  Claims and requests are  *)
(* interchangeable: nothing compares them.                                 *)
(***************************************************************************)
EXTENDS ClaimLifecycle, TLC

Symmetry == Permutations(Claims) \cup Permutations(Requests)

=============================================================================
