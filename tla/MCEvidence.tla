----------------------------- MODULE MCEvidence -----------------------------
(* The evidence queue for TLC: the requests, and the chunks, are alike.      *)
EXTENDS EvidenceIntake, TLC

Symmetry == Permutations(Requests) \cup Permutations(Chunks)

=============================================================================
