--------------------------- MODULE MCDistribution ---------------------------
(* Distribution for TLC: contributions 2 and 1, so caps 3 and 1, and two periods *)
(* that each make 3 due.                                                         *)
EXTENDS Distribution, TLC

TwoInvestors == <<2, 1>>
TwoPeriods == <<3, 3>>
Symmetry == Permutations(Envelopes)
=============================================================================
