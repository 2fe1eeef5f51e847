------------------------- MODULE MCLegalTransaction -------------------------
(* LegalTransaction for TLC: executions, proposals and source contents are  *)
(* interchangeable.                                                         *)
EXTENDS LegalTransaction, TLC

Symmetry ==
  Permutations(Runs) \cup Permutations(Proposals) \cup Permutations(Sources)
=============================================================================
