--------------------------- MODULE ReviewLifecycle ---------------------------
(***************************************************************************)
(* The states of an application and the transitions the domain package     *)
(* allows between them (application-review.ts).  No code that writes the   *)
(* state calls it: the writers carry conditions of their own.              *)
(***************************************************************************)

VARIABLE review   \* the application's state; "none" before it is submitted

States == {"draft", "awaiting_assessment", "human_review", "approved", "changes_requested", "rejected"}

Outcomes == {"approved", "changes_requested", "rejected"}

\* allowedTransitions.
Allowed(from) ==
  CASE from = "draft" -> {"awaiting_assessment"}
    [] from = "awaiting_assessment" -> {"human_review"}
    [] from = "human_review" -> Outcomes
    [] from = "changes_requested" -> {"draft"}
    [] OTHER -> {}

Init == review = "none"

\* What an application is created as.
Create == review = "none" /\ review' \in {"draft", "awaiting_assessment"}

Transition == review' \in Allowed(review)

Next == Create \/ Transition

Spec == Init /\ [][Next]_review
=============================================================================
