---------------------------- MODULE MCAuditChain ----------------------------
(***************************************************************************)
(* The audit chain on a small instance.                                    *)
(***************************************************************************)
EXTENDS AuditChain, TLC

Symmetry == Permutations(Writers)

=============================================================================
