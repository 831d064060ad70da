-------------------------- MODULE ApplicationReview --------------------------
(***************************************************************************)
(* One application from its submission to a human's decision               *)
(* (submit-sme-request.ts, route-application-assessment.ts,                *)
(* record-human-decision.ts, and the functions of the database they call). *)
(* Requests for an assessment overlap: the submission starts one and       *)
(* admins repeat it, each under an idempotency key.  One spends seconds at *)
(* a language model; its answer is recorded, or its failure is handed off  *)
(* to a human in two writes, while other requests and decisions go on.     *)
(* Every await ends a step, and the process may die between two.           *)
(* Applications begin with a submission: rows an operator inserts directly *)
(* in a later state are outside.                                           *)
(***************************************************************************)
EXTENDS Integers, FiniteSets

CONSTANTS
  Requests,     \* the requests that may run an assessment at the same time
  Keys, KeyOf,  \* the key of each: its handoffId
  NoKey,        \* no key: a record that does not exist
  First,        \* the request the submission starts
  Decisions,    \* the ids the admins give their decisions
  MaxFaults     \* bound on crashes and failing calls

ASSUME ReviewAssumption ==
  /\ KeyOf \in [Requests -> Keys]
  /\ NoKey \notin Keys
  /\ First \in Requests
  /\ MaxFaults \in Nat

VARIABLES
  sales,       \* whether the sales feed has a series for the applicant's reference
  review,      \* the application_review row: its state
  request,     \* where each request is
  assessment,  \* the application_assessment row: the key of the attempt
  handoff,     \* the assessment_failure_handoff row: the key of the attempt
  decisions,   \* the human_decision rows
  following,   \* the decisions applied whose follow-up has not begun
  followed,    \* the decisions whose owner was notified or whose deployment was started
  told,        \* the successful answers requests were given
  faults

rows == <<review, assessment, handoff>>
human == <<decisions, following, followed>>
reviewVars == <<sales, rows, request, human, told, faults>>

Outcomes == {"approved", "changes_requested", "rejected"}
Decision == [id : Decisions, outcome : Outcomes]
Answer == [kind : {"recorded", "manual", "absent"}, key : Keys]

\* A reference has a series from the start or never: the feed appends only to one it has.
Init ==
  /\ sales \in BOOLEAN
  /\ review = "none"
  /\ request = [p \in Requests |-> "idle"]
  /\ assessment = NoKey
  /\ handoff = NoKey
  /\ decisions = {}
  /\ following = {}
  /\ followed = {}
  /\ told = {}
  /\ faults = 0

Goto(p, pc) == request' = [request EXCEPT ![p] = pc]
Tells(p, kind) == told' = told \cup {[kind |-> kind, key |-> KeyOf[p]]}

\* submitSmeRequest and submit_sme_request: the first submission creates the application
\* and starts its assessment, which nobody waits for; a repeated one replays.
Submit ==
  /\ review = "none"
  /\ review' = "awaiting_assessment"
  /\ Goto(First, "stored")
  /\ UNCHANGED <<sales, assessment, handoff, human, told, faults>>

-----------------------------------------------------------------------------
(* A request for an assessment. *)

Start(p) ==
  /\ request[p] = "idle"
  /\ review # "none"
  /\ Goto(p, "stored")
  /\ UNCHANGED <<sales, rows, human, told, faults>>

\* findStoredByApplicationId: a recorded assessment answers its own key and no other.
FindStored(p) ==
  /\ request[p] = "stored"
  /\ Goto(p, IF assessment = NoKey THEN "evidence" ELSE "idle")
  /\ IF assessment = KeyOf[p] THEN Tells(p, "recorded") ELSE UNCHANGED told
  /\ UNCHANGED <<sales, rows, human, faults>>

\* deriveEvidence: without a series the request ends as sales_evidence_missing (or, if what the
\* feed has is malformed, as unavailable), and the application stays where it is.
DeriveEvidence(p) ==
  /\ request[p] = "evidence"
  /\ Goto(p, IF sales THEN "model" ELSE "idle")
  /\ UNCHANGED <<sales, rows, human, told, faults>>

\* A slip: what the model fails to assess goes to a human without a record of it.
AskStraight(p) ==
  /\ request[p] = "model"
  /\ \E pc \in {"record", "transition"} : Goto(p, pc)
  /\ UNCHANGED <<sales, rows, human, told, faults>>

\* runAssessment: a valid assessment, or a failure of any code.
Ask(p) ==
  /\ request[p] = "model"
  /\ \E pc \in {"record", "handoff"} : Goto(p, pc)
  /\ UNCHANGED <<sales, rows, human, told, faults>>

\* record_application_assessment: a transaction.
Record(p) ==
  /\ request[p] = "record"
  /\ Goto(p, "idle")
  /\ \/ /\ assessment = NoKey /\ review = "awaiting_assessment"
        /\ assessment' = KeyOf[p]
        /\ review' = "human_review"
        /\ Tells(p, "recorded")
     \/ /\ assessment = KeyOf[p]
        /\ Tells(p, "recorded")
        /\ UNCHANGED <<review, assessment>>
     \/ /\ assessment # KeyOf[p]
        /\ assessment = NoKey => review # "awaiting_assessment"
        /\ UNCHANGED <<review, assessment, told>>
  /\ UNCHANGED <<sales, handoff, human, faults>>

\* A slip: the state is looked at before the record that is there.
HandOffByState(p) ==
  /\ request[p] = "handoff"
  /\ IF review # "awaiting_assessment" THEN Goto(p, "resolve") /\ UNCHANGED handoff
     ELSE /\ handoff' = IF handoff = NoKey THEN KeyOf[p] ELSE handoff
          /\ Goto(p, IF handoff \in {NoKey, KeyOf[p]} THEN "transition" ELSE "idle")
  /\ UNCHANGED <<sales, review, assessment, human, told, faults>>

\* A slip: what was handed off already needs nothing more.
HandOffOnce(p) ==
  /\ request[p] = "handoff"
  /\ IF handoff = NoKey /\ review = "awaiting_assessment"
     THEN handoff' = KeyOf[p] /\ Goto(p, "transition")
     ELSE Goto(p, IF handoff = NoKey THEN "resolve" ELSE "idle") /\ UNCHANGED handoff
  /\ UNCHANGED <<sales, review, assessment, human, told, faults>>

\* record_assessment_failure_handoff: the record that is there is a replay under its own
\* key and a conflict under any other; a new one needs an application that still waits.
HandOff(p) ==
  /\ request[p] = "handoff"
  /\ \/ /\ handoff = KeyOf[p]
        /\ Goto(p, "transition") /\ UNCHANGED handoff
     \/ /\ handoff \notin {NoKey, KeyOf[p]}
        /\ Goto(p, "idle") /\ UNCHANGED handoff
     \/ /\ handoff = NoKey /\ review = "awaiting_assessment"
        /\ handoff' = KeyOf[p]
        /\ Goto(p, "transition")
     \/ /\ handoff = NoKey /\ review # "awaiting_assessment"
        /\ Goto(p, "resolve") /\ UNCHANGED handoff
  /\ UNCHANGED <<sales, review, assessment, human, told, faults>>

\* resolveHandoffError: nothing was handed off, and the answer says so.
Resolve(p) ==
  /\ request[p] = "resolve"
  /\ Goto(p, "idle")
  /\ IF review = "human_review" THEN Tells(p, "absent") ELSE UNCHANGED told
  /\ UNCHANGED <<sales, rows, human, faults>>

\* A slip: the update does not ask which state it leaves.
MoveAnyway(p) ==
  /\ request[p] = "transition"
  /\ Goto(p, "idle")
  /\ review' = "human_review"
  /\ Tells(p, "manual")
  /\ UNCHANGED <<sales, assessment, handoff, human, faults>>

\* transition: a conditional update that takes no lock; an application that is in the
\* target state already is a success as well.
Move(p) ==
  /\ request[p] = "transition"
  /\ Goto(p, "idle")
  /\ IF review \in {"awaiting_assessment", "human_review"}
     THEN review' = "human_review" /\ Tells(p, "manual")
     ELSE UNCHANGED <<review, told>>
  /\ UNCHANGED <<sales, assessment, handoff, human, faults>>

\* The process dies, or a call fails and the request answers unavailable.
Stop(p) ==
  /\ request[p] # "idle"
  /\ faults < MaxFaults
  /\ faults' = faults + 1
  /\ Goto(p, "idle")
  /\ UNCHANGED <<sales, rows, human, told>>

-----------------------------------------------------------------------------
(* The decision. *)

\* A slip: the follow-up does not ask whether the decision was applied.
DecideAndFollow(id, o) ==
  /\ review # "none"
  /\ following' = following \cup {[id |-> id, outcome |-> o]}
  /\ IF review = "human_review" /\ \A d \in decisions : d.id # id
     THEN review' = o /\ decisions' = decisions \cup {[id |-> id, outcome |-> o]}
     ELSE UNCHANGED <<review, decisions>>
  /\ UNCHANGED <<sales, assessment, handoff, request, followed, told, faults>>

\* A slip: an application can be decided before it was assessed.
DecideEarly(id, o) ==
  /\ review \in {"awaiting_assessment", "human_review"}
  /\ \A d \in decisions : d.id # id
  /\ review' = o
  /\ decisions' = decisions \cup {[id |-> id, outcome |-> o]}
  /\ following' = following \cup {[id |-> id, outcome |-> o]}
  /\ UNCHANGED <<sales, assessment, handoff, request, followed, told, faults>>

\* record_human_decision, a transaction, when it applies.  An id that is there is a
\* replay or a conflict, and another state a conflict: nothing changes.
Decide(id, o) ==
  /\ review = "human_review"
  /\ \A d \in decisions : d.id # id
  /\ review' = o
  /\ decisions' = decisions \cup {[id |-> id, outcome |-> o]}
  /\ following' = following \cup {[id |-> id, outcome |-> o]}
  /\ UNCHANGED <<sales, assessment, handoff, request, followed, told, faults>>

\* recordHumanDecision goes on: the owner is notified, or the deployment started.
Follow(d) ==
  /\ d \in following
  /\ following' = following \ {d}
  /\ followed' = followed \cup {d}
  /\ UNCHANGED <<sales, rows, request, decisions, told, faults>>

\* The process dies after the decision; a replay of it has no follow-up.
Forget(d) ==
  /\ d \in following
  /\ faults < MaxFaults
  /\ faults' = faults + 1
  /\ following' = following \ {d}
  /\ UNCHANGED <<sales, rows, request, decisions, followed, told>>

-----------------------------------------------------------------------------
Advance(p) ==
  \/ FindStored(p) \/ DeriveEvidence(p) \/ Ask(p) \/ Record(p)
  \/ HandOff(p) \/ Resolve(p) \/ Move(p)

Next ==
  \/ Submit
  \/ \E p \in Requests : Start(p) \/ Advance(p) \/ Stop(p)
  \/ \E id \in Decisions, o \in Outcomes : Decide(id, o)
  \/ \E d \in Decision : Follow(d) \/ Forget(d)

Spec == Init /\ [][Next]_reviewVars

\* Whoever asked for an assessment repeats it under the same key.
FairSpec == Spec /\ \A p \in Requests : WF_reviewVars(Start(p) \/ Advance(p))

-----------------------------------------------------------------------------
(* Properties. *)

Decided == review \in Outcomes

TypeOK ==
  /\ sales \in BOOLEAN
  /\ review \in {"none", "awaiting_assessment", "human_review"} \cup Outcomes
  /\ request \in [Requests ->
       {"idle", "stored", "evidence", "model", "record", "handoff", "resolve", "transition"}]
  /\ assessment \in Keys \cup {NoKey}
  /\ handoff \in Keys \cup {NoKey}
  /\ decisions \subseteq Decision
  /\ following \subseteq decisions /\ followed \subseteq decisions
  /\ told \subseteq Answer
  /\ faults \in 0..MaxFaults

\* What a human reviews, and what was decided, has an assessment or a failure's record
\* and evidence behind it, whatever requests overlapped and died on the way; so without a
\* sales series an application stays in awaiting_assessment.
ReviewerHasMaterial ==
  review \notin {"none", "awaiting_assessment"} => sales /\ (assessment # NoKey \/ handoff # NoKey)

\* An application has one decision, its state is that decision's outcome, and no
\* assessment, hand-off or other decision that arrives late takes it elsewhere.
DecisionStands ==
  /\ Decided <=> decisions # {}
  /\ \A d, e \in decisions : d = e /\ review = d.outcome

\* What a request was answered stays true: a recorded assessment is the one under its
\* key; a manual review has its hand-off on record and has left the assessment behind;
\* and where nothing was handed off, nothing ever is, for there is an assessment.
AnswersAreTrue ==
  \A a \in told :
    /\ a.kind = "recorded" => assessment = a.key
    /\ a.kind = "manual" => handoff = a.key /\ review \in {"human_review"} \cup Outcomes
    /\ a.kind = "absent" => handoff = NoKey /\ assessment # NoKey

\* The writers of the state, which do not call the domain's transition table, never take
\* a transition it forbids.
Lifecycle == INSTANCE ReviewLifecycle
ImplementsLifecycle == Lifecycle!Spec

\* An application that waits, and whose applicant has a sales series, gets to a human although
\* the model fails, requests die between the two writes of a hand-off, and others come under
\* another key.
ReachesReviewer == review = "awaiting_assessment" /\ sales ~> review # "awaiting_assessment"
=============================================================================
