------------------------- MODULE MCApplicationReview -------------------------
(* The constants of ApplicationReview for its TLC run. *)
EXTENDS ApplicationReview

CONSTANTS p1, p2, p3, k1, k2

\* Two requests share the submission's key and one has its own.
MCKeyOf == [p \in Requests |-> IF p = p3 THEN k2 ELSE k1]
=============================================================================
