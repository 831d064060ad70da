-------------------------- MODULE MCCampaignMirror --------------------------
(* The constants of CampaignMirror for its TLC runs. *)
EXTENDS CampaignMirror, TLC

CONSTANTS ann, q1, q2

MCInitialBalance == (ann :> 2)

\* One request names ann and the other names nobody.
MCLooks == {<<q1, ann>>, <<q2, NoOne>>}

\* The only investor, once and twice.
MCBatches == {<<ann>>, <<ann, ann>>}
=============================================================================
