----------------------- MODULE MCConfirmationScheduler -----------------------
(* ConfirmationScheduler for TLC: who calls is not told apart by any property, and *)
(* neither are identifiers.                                                        *)
EXTENDS ConfirmationScheduler, TLC

Symmetry == Permutations(Callers) \cup Permutations(Ids)
=============================================================================
