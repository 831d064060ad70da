------------------------ MODULE MCCampaignDeployment ------------------------
(* The constants of CampaignDeployment for its TLC run. *)
EXTENDS CampaignDeployment

CONSTANTS k1, k2

\* A deadline that one tick of the clock passes, and one with milliseconds.
Persisted == {Whole(1), [second |-> 1, fraction |-> TRUE]}

\* Terms that are complete: with a duration, or with one of the deadlines.
MCInitialTerms ==
  {[sme |-> k1, goal |-> 1, duration |-> 2, deadline |-> NoDeadline]}
  \cup {[sme |-> k1, goal |-> 1, duration |-> 0, deadline |-> d] : d \in Persisted}

\* The application's own terms, with each deadline; and another key and goal.
MCDirectCommands ==
  {[sme |-> k1, goal |-> 1, deadline |-> d, adopts |-> FALSE] : d \in Persisted}
  \cup {[sme |-> k2, goal |-> 2, deadline |-> Whole(1), adopts |-> FALSE]}
=============================================================================
