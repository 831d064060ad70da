--------------------------- MODULE MCCampaignVault ---------------------------
(* The constants of CampaignVault for its TLC runs. *)
EXTENDS CampaignVault, SequencesExt, TLC

CONSTANTS ann, bob, cyd

\* cyd cannot afford its whole cap.
MCInitialBalance == (ann :> 4) @@ (bob :> 2) @@ (cyd :> 1)

\* Every list of at most two addresses, doubles and the empty list included,
\* and one that is longer than MaxSweepBatch.
MCBatches == BoundedSeq(Investors, 2) \cup {<<ann, bob, cyd>>}

\* Zero and a negative amount are inputs too: the contract has to refuse them.
MCAmounts == -1..3
=============================================================================
