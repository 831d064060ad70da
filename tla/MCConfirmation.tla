--------------------------- MODULE MCConfirmation ---------------------------
(* Confirmation with the symmetries of its envelopes and processes, for TLC. *)
EXTENDS Confirmation, TLC

Symmetry == Permutations(Envelopes) \cup Permutations(Workers)
=============================================================================
