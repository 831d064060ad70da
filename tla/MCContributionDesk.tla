------------------------- MODULE MCContributionDesk -------------------------
(* The constants of ContributionDesk for its TLC run. *)
EXTENDS ContributionDesk, TLC

CONSTANTS ann, bob

MCInitialBalance == (ann :> 2) @@ (bob :> 2)
=============================================================================
