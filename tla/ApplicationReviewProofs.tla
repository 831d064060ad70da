----------------------- MODULE ApplicationReviewProofs -----------------------
(***************************************************************************)
(* The safety of the review, for any requests, keys, decisions and number  *)
(* of faults.  The inductive invariant says how far the application has    *)
(* come when a request is about to move it; from it follows also what a    *)
(* request that ends leaves behind.                                        *)
(***************************************************************************)
EXTENDS ApplicationReview, TLAPS

\* A request that is about to move the application has handed it off under its key; one
\* that found nothing handed off was too late, for the application had been assessed.
Waiting == \A p \in Requests :
  /\ request[p] = "transition" => handoff = KeyOf[p]
  /\ request[p] = "resolve" => handoff = NoKey /\ review # "awaiting_assessment"

\* Without a sales series no request gets past its evidence, and nothing is on record.
Past == {"model", "record", "handoff", "resolve", "transition"}

Evidenced ==
  ~sales => /\ assessment = NoKey /\ handoff = NoKey
            /\ \A p \in Requests : request[p] \notin Past

\* There are no records of an application that was not submitted.
Submitted ==
  review = "none" =>
    assessment = NoKey /\ handoff = NoKey /\ \A p \in Requests : request[p] = "idle"

\* An assessment is recorded with the move that leaves the waiting behind.
Assessed == assessment # NoKey => review # "awaiting_assessment"

IInv ==
  /\ TypeOK
  /\ Waiting
  /\ Submitted
  /\ Evidenced
  /\ Assessed
  /\ ReviewerHasMaterial
  /\ DecisionStands
  /\ AnswersAreTrue

-----------------------------------------------------------------------------
LEMMA InitInvariant == Init => IInv
BY ReviewAssumption
DEF Init, IInv, TypeOK, Waiting, Submitted, Evidenced, Past, Assessed, ReviewerHasMaterial, DecisionStands, Decided, Outcomes,
    AnswersAreTrue, Decision, Answer

\* A step that moves requests only, to places where nothing is claimed of them.
LEMMA RequestMoves ==
  ASSUME IInv, UNCHANGED <<sales, rows, human, told>>, review # "none", faults' \in 0..MaxFaults,
         NEW p \in Requests,
         NEW pc \in {"idle", "stored", "model", "record", "handoff"}, Goto(p, pc),
         pc \in Past => sales
  PROVE  IInv'
BY DEF IInv, TypeOK, Waiting, Submitted, Evidenced, Past, Assessed, ReviewerHasMaterial, DecisionStands, Decided, Outcomes,
       AnswersAreTrue, rows, human, Goto, Answer

LEMMA SubmitKeeps == ASSUME IInv, Submit PROVE IInv'
BY ReviewAssumption
DEF Submit, IInv, TypeOK, Waiting, Submitted, Evidenced, Past, Assessed, ReviewerHasMaterial, DecisionStands, Decided,
    Outcomes, AnswersAreTrue, human, Goto

LEMMA StartKeeps == ASSUME IInv, NEW p \in Requests, Start(p) PROVE IInv'
BY RequestMoves DEF Start, IInv, TypeOK, Past

LEMMA AskKeeps == ASSUME IInv, NEW p \in Requests, Ask(p) PROVE IInv'
<1>1. review # "none"
  BY DEF Ask, IInv, Submitted
<1>2. PICK pc \in {"record", "handoff"} : Goto(p, pc)
  BY DEF Ask
<1>3. QED
  BY <1>1, <1>2, RequestMoves DEF Ask, IInv, TypeOK, Evidenced, Past

LEMMA DeriveEvidenceKeeps == ASSUME IInv, NEW p \in Requests, DeriveEvidence(p) PROVE IInv'
<1>1. review # "none"
  BY DEF DeriveEvidence, IInv, Submitted
<1>2. CASE sales /\ Goto(p, "model")
  BY <1>1, <1>2, RequestMoves DEF DeriveEvidence, IInv, TypeOK
<1>3. CASE Goto(p, "idle")
  BY <1>1, <1>3, RequestMoves DEF DeriveEvidence, IInv, TypeOK, Past
<1>4. QED
  BY <1>2, <1>3 DEF DeriveEvidence

LEMMA StopKeeps == ASSUME IInv, NEW p \in Requests, Stop(p) PROVE IInv'
<1>1. review # "none"
  BY DEF Stop, IInv, Submitted
<1>2. faults' \in 0..MaxFaults
  BY ReviewAssumption DEF Stop, IInv, TypeOK
<1>3. QED
  BY <1>1, <1>2, RequestMoves DEF Stop, Past

\* An answer is one of the three, under the request's key.
LEMMA TellsType ==
  ASSUME NEW p \in Requests, NEW kind \in {"recorded", "manual", "absent"}, told \subseteq Answer,
         Tells(p, kind)
  PROVE  /\ told' \subseteq Answer
         /\ \A a \in told' : a \in told \/ (a.kind = kind /\ a.key = KeyOf[p])
BY ReviewAssumption DEF Tells, Answer

LEMMA FindStoredKeeps == ASSUME IInv, NEW p \in Requests, FindStored(p) PROVE IInv'
<1>1. /\ told' \subseteq Answer
      /\ \A a \in told' : a \in told \/ (a.kind = "recorded" /\ a.key = assessment)
  <2>1. CASE assessment = KeyOf[p]
    BY <2>1, TellsType DEF FindStored, IInv, TypeOK
  <2>2. CASE assessment # KeyOf[p]
    BY <2>2 DEF FindStored, IInv, TypeOK
  <2>3. QED
    BY <2>1, <2>2
<1>2. PICK pc \in {"idle", "evidence"} : Goto(p, pc)
  BY DEF FindStored
<1>3. review # "none"
  BY DEF FindStored, IInv, Submitted
<1>4. UNCHANGED <<sales, rows, human, faults>>
  BY DEF FindStored
<1>5. AnswersAreTrue'
  BY <1>1, <1>4 DEF IInv, AnswersAreTrue, rows
<1>6. TypeOK'
  BY <1>1, <1>2, <1>4 DEF IInv, TypeOK, Goto, rows, human
<1>7. Waiting' /\ Submitted' /\ Evidenced' /\ Assessed'
  BY <1>2, <1>3, <1>4 DEF IInv, TypeOK, Waiting, Submitted, Evidenced, Past, Assessed, Goto, rows
<1>8. ReviewerHasMaterial' /\ DecisionStands'
  BY <1>4 DEF IInv, ReviewerHasMaterial, DecisionStands, Decided, rows, human
<1>9. QED
  BY <1>5, <1>6, <1>7, <1>8 DEF IInv

LEMMA RecordKeeps == ASSUME IInv, NEW p \in Requests, Record(p) PROVE IInv'
<1>1. Goto(p, "idle") /\ UNCHANGED <<sales, handoff, human, faults>> /\ review # "none" /\ sales
  BY DEF Record, IInv, Submitted, Evidenced, Past
<1>2. \/ /\ assessment = NoKey /\ review = "awaiting_assessment"
         /\ assessment' = KeyOf[p] /\ review' = "human_review"
      \/ UNCHANGED <<review, assessment>>
  BY DEF Record
<1>3. /\ told' \subseteq Answer
      /\ \A a \in told' : a \in told \/ (a.kind = "recorded" /\ a.key = assessment')
  <2>1. CASE UNCHANGED told
    BY <2>1 DEF IInv, TypeOK
  <2>2. CASE Tells(p, "recorded") /\ assessment' = KeyOf[p]
    BY <2>2, TellsType DEF IInv, TypeOK
  <2>3. QED
    BY <2>1, <2>2 DEF Record
<1>4. KeyOf[p] \in Keys /\ KeyOf[p] # NoKey
  BY ReviewAssumption
<1>5. TypeOK'
  BY <1>1, <1>2, <1>3, <1>4 DEF IInv, TypeOK, Goto, human
<1>6. Waiting' /\ Submitted' /\ Evidenced' /\ Assessed'
  BY <1>1, <1>2 DEF IInv, TypeOK, Waiting, Submitted, Evidenced, Past, Assessed, Goto
<1>7. ReviewerHasMaterial' /\ DecisionStands'
  BY <1>1, <1>2, <1>4
  DEF IInv, ReviewerHasMaterial, DecisionStands, Decided, Outcomes, human
<1>8. \A a \in told : a.key \in Keys
  BY DEF IInv, TypeOK, Answer
<1>9. AnswersAreTrue'
  BY <1>1, <1>2, <1>3, <1>4, <1>8, ReviewAssumption DEF IInv, AnswersAreTrue
<1>10. QED
  BY <1>5, <1>6, <1>7, <1>9 DEF IInv

LEMMA HandOffKeeps == ASSUME IInv, NEW p \in Requests, HandOff(p) PROVE IInv'
<1>1. UNCHANGED <<sales, review, assessment, human, told, faults>> /\ review # "none" /\ sales
  BY DEF HandOff, IInv, Submitted, Evidenced, Past
<1>2. \/ handoff' = handoff
      \/ handoff = NoKey /\ review = "awaiting_assessment" /\ handoff' = KeyOf[p]
  BY DEF HandOff
<1>3. PICK pc \in {"idle", "transition", "resolve"} : Goto(p, pc)
  BY DEF HandOff
<1>4. KeyOf[p] \in Keys /\ KeyOf[p] # NoKey
  BY ReviewAssumption
<1>5. TypeOK'
  BY <1>1, <1>2, <1>3, <1>4 DEF IInv, TypeOK, Goto, human
<1>6. /\ request'[p] = "transition" => handoff' = KeyOf[p]
      /\ request'[p] = "resolve" => handoff' = NoKey /\ review # "awaiting_assessment"
  BY DEF HandOff, Goto, IInv, TypeOK
<1>7. ASSUME NEW q \in Requests, q # p
      PROVE  /\ request'[q] = "transition" => handoff' = KeyOf[q]
             /\ request'[q] = "resolve" => handoff' = NoKey /\ review # "awaiting_assessment"
  <2>1. request'[q] = request[q]
    BY <1>3, <1>7 DEF Goto, IInv, TypeOK
  <2>2. QED
    BY <2>1, <1>2, ReviewAssumption DEF IInv, Waiting
<1>8. Waiting' /\ Submitted' /\ Evidenced' /\ Assessed'
  BY <1>1, <1>6, <1>7 DEF IInv, Waiting, Submitted, Evidenced, Assessed
<1>9. ReviewerHasMaterial' /\ DecisionStands'
  BY <1>1, <1>2, <1>4 DEF IInv, ReviewerHasMaterial, DecisionStands, Decided, human
<1>10. AnswersAreTrue'
  <2>1. \A a \in told : a.key # NoKey
    BY ReviewAssumption DEF IInv, TypeOK, Answer
  <2>2. handoff = NoKey /\ review = "awaiting_assessment" => assessment = NoKey
    BY DEF IInv, Assessed
  <2>3. QED
    BY <1>1, <1>2, <2>1, <2>2 DEF IInv, AnswersAreTrue
<1>11. QED
  BY <1>5, <1>8, <1>9, <1>10 DEF IInv

LEMMA ResolveKeeps == ASSUME IInv, NEW p \in Requests, Resolve(p) PROVE IInv'
<1>1. UNCHANGED <<sales, rows, human, faults>> /\ Goto(p, "idle")
      /\ handoff = NoKey /\ review \notin {"none", "awaiting_assessment"}
  BY DEF Resolve, IInv, Waiting, Submitted
<1>2. assessment # NoKey
  BY <1>1 DEF IInv, ReviewerHasMaterial
<1>3. /\ told' \subseteq Answer
      /\ \A a \in told' : a \in told \/ (a.kind = "absent" /\ a.key = KeyOf[p])
  <2>1. CASE UNCHANGED told
    BY <2>1 DEF IInv, TypeOK
  <2>2. CASE Tells(p, "absent")
    BY <2>2, TellsType DEF IInv, TypeOK
  <2>3. QED
    BY <2>1, <2>2 DEF Resolve
<1>4. TypeOK' /\ Waiting' /\ Submitted' /\ Evidenced' /\ Assessed'
  BY <1>1, <1>3 DEF IInv, TypeOK, Waiting, Submitted, Evidenced, Past, Assessed, Goto, rows, human
<1>5. ReviewerHasMaterial' /\ DecisionStands'
  BY <1>1 DEF IInv, ReviewerHasMaterial, DecisionStands, Decided, rows, human
<1>6. AnswersAreTrue'
  BY <1>1, <1>2, <1>3 DEF IInv, AnswersAreTrue, rows
<1>7. QED
  BY <1>4, <1>5, <1>6 DEF IInv

LEMMA MoveKeeps == ASSUME IInv, NEW p \in Requests, Move(p) PROVE IInv'
<1>1. /\ UNCHANGED <<sales, assessment, handoff, human, faults>> /\ Goto(p, "idle")
      /\ handoff = KeyOf[p] /\ review # "none" /\ sales
  BY DEF Move, IInv, Waiting, Submitted, Evidenced, Past
<1>2. \/ /\ review \in {"awaiting_assessment", "human_review"}
         /\ review' = "human_review" /\ Tells(p, "manual")
      \/ UNCHANGED <<review, told>>
  BY DEF Move
<1>3. KeyOf[p] \in Keys /\ KeyOf[p] # NoKey
  BY ReviewAssumption
<1>4. /\ told' \subseteq Answer
      /\ \A a \in told' :
           a \in told \/ (a.kind = "manual" /\ a.key = handoff /\ review' = "human_review")
  <2>1. CASE UNCHANGED told
    BY <2>1 DEF IInv, TypeOK
  <2>2. CASE Tells(p, "manual") /\ review' = "human_review"
    BY <2>2, <1>1, TellsType DEF IInv, TypeOK
  <2>3. QED
    BY <2>1, <2>2, <1>2
<1>5. TypeOK'
  BY <1>1, <1>2, <1>4 DEF IInv, TypeOK, Goto, human
<1>6. Waiting' /\ Submitted' /\ Evidenced' /\ Assessed'
  BY <1>1, <1>2 DEF IInv, TypeOK, Waiting, Submitted, Evidenced, Past, Assessed, Goto
<1>7. ReviewerHasMaterial' /\ DecisionStands'
  BY <1>1, <1>2, <1>3
  DEF IInv, ReviewerHasMaterial, DecisionStands, Decided, Outcomes, human
<1>8. AnswersAreTrue'
  BY <1>1, <1>2, <1>4 DEF IInv, AnswersAreTrue
<1>9. QED
  BY <1>5, <1>6, <1>7, <1>8 DEF IInv

\* The application that is decided was assessed or handed off, and had no decision.
LEMMA DecideKeeps ==
  ASSUME IInv, NEW id \in Decisions, NEW o \in Outcomes, Decide(id, o)
  PROVE  IInv'
<1> DEFINE d == [id |-> id, outcome |-> o]
<1>1. d \in Decision /\ d.outcome = o
  BY DEF Decision
<1>2. /\ UNCHANGED <<sales, assessment, handoff, request, followed, told, faults>>
      /\ review = "human_review" /\ review' = o
      /\ decisions' = decisions \cup {d} /\ following' = following \cup {d}
  BY DEF Decide
<1> HIDE DEF d
<1>3. decisions = {}
  BY <1>2 DEF IInv, DecisionStands, Decided, Outcomes
<1>4. TypeOK'
  BY <1>1, <1>2 DEF IInv, TypeOK
<1>5. DecisionStands'
  BY <1>1, <1>2, <1>3 DEF DecisionStands, Decided
<1>6. Waiting' /\ Submitted' /\ Evidenced' /\ Assessed' /\ ReviewerHasMaterial'
  BY <1>2 DEF IInv, Waiting, Submitted, Evidenced, Assessed, ReviewerHasMaterial, Outcomes
<1>7. AnswersAreTrue'
  BY <1>2 DEF IInv, AnswersAreTrue
<1>8. QED
  BY <1>4, <1>5, <1>6, <1>7 DEF IInv

LEMMA FollowUpKeeps == ASSUME IInv, NEW d, Follow(d) \/ Forget(d) PROVE IInv'
<1>1. UNCHANGED <<sales, rows, request, decisions, told>> /\ d \in decisions
  BY DEF Follow, Forget, IInv, TypeOK
<1>2. following' \subseteq decisions /\ followed' \subseteq decisions
  BY <1>1 DEF Follow, Forget, IInv, TypeOK
<1>3. faults' \in 0..MaxFaults
  BY ReviewAssumption DEF Follow, Forget, IInv, TypeOK
<1>4. TypeOK'
  BY <1>1, <1>2, <1>3 DEF IInv, TypeOK, rows
<1>5. QED
  BY <1>1, <1>4
  DEF IInv, Waiting, Submitted, Evidenced, Assessed, ReviewerHasMaterial, DecisionStands,
      Decided, AnswersAreTrue, rows

LEMMA StutterKeeps == ASSUME IInv, UNCHANGED reviewVars PROVE IInv'
BY DEF reviewVars, rows, human, IInv, TypeOK, Waiting, Submitted, Evidenced, Past, Assessed, ReviewerHasMaterial,
       DecisionStands, Decided, AnswersAreTrue

LEMMA NextInvariant == IInv /\ [Next]_reviewVars => IInv'
<1> SUFFICES ASSUME IInv, [Next]_reviewVars PROVE IInv'
  OBVIOUS
<1>1. CASE Submit
  BY <1>1, SubmitKeeps
<1>2. ASSUME NEW p \in Requests, Start(p) \/ Advance(p) \/ Stop(p) PROVE IInv'
  BY <1>2, StartKeeps, StopKeeps, FindStoredKeeps, DeriveEvidenceKeeps, AskKeeps, RecordKeeps,
     HandOffKeeps, ResolveKeeps, MoveKeeps DEF Advance
<1>3. ASSUME NEW id \in Decisions, NEW o \in Outcomes, Decide(id, o) PROVE IInv'
  BY <1>3, DecideKeeps
<1>4. ASSUME NEW d \in Decision, Follow(d) \/ Forget(d) PROVE IInv'
  BY <1>4, FollowUpKeeps
<1>5. CASE UNCHANGED reviewVars
  BY <1>5, StutterKeeps
<1>6. QED
  BY <1>1, <1>2, <1>3, <1>4, <1>5 DEF Next

THEOREM Invariance == Spec => []IInv
BY InitInvariant, NextInvariant, PTL DEF Spec

-----------------------------------------------------------------------------
\* TypeOK holds of every behaviour: in particular only a decision that was applied
\* notifies anybody or starts a deployment.
THEOREM TypeCorrect == Spec => []TypeOK
<1>1. IInv => TypeOK
  BY DEF IInv
<1>2. QED
  BY <1>1, Invariance, PTL

\* ReviewerHasMaterial: nothing reaches a human without an assessment or a hand-off, and
\* nothing at all without a sales series.
THEOREM MaterialIsThere == Spec => []ReviewerHasMaterial
<1>1. IInv => ReviewerHasMaterial
  BY DEF IInv
<1>2. QED
  BY <1>1, Invariance, PTL

\* DecisionStands: one decision, which nothing that arrives late undoes.
THEOREM OneDecision == Spec => []DecisionStands
<1>1. IInv => DecisionStands
  BY DEF IInv
<1>2. QED
  BY <1>1, Invariance, PTL

\* AnswersAreTrue: what a request was answered stays true.
THEOREM Truthful == Spec => []AnswersAreTrue
<1>1. IInv => AnswersAreTrue
  BY DEF IInv
<1>2. QED
  BY <1>1, Invariance, PTL

-----------------------------------------------------------------------------
\* A step changes the state as the domain's table allows, or not at all.
LEMMA StepIsAllowed == IInv /\ [Next]_reviewVars => [Lifecycle!Next]_review
<1> SUFFICES ASSUME IInv, [Next]_reviewVars PROVE Lifecycle!Next \/ UNCHANGED review
  OBVIOUS
<1>1. CASE Submit
  BY <1>1 DEF Submit, Lifecycle!Next, Lifecycle!Create
<1>2. ASSUME review = "awaiting_assessment", review' = "human_review"
      PROVE  Lifecycle!Next
  BY <1>2 DEF Lifecycle!Next, Lifecycle!Transition, Lifecycle!Allowed
<1>3. ASSUME review = "human_review", review' \in Outcomes
      PROVE  Lifecycle!Next
  BY <1>3
  DEF Lifecycle!Next, Lifecycle!Transition, Lifecycle!Allowed, Lifecycle!Outcomes, Outcomes
<1>4. ASSUME NEW p \in Requests, Start(p) \/ Advance(p) \/ Stop(p)
      PROVE  UNCHANGED review \/ (review = "awaiting_assessment" /\ review' = "human_review")
  BY <1>4 DEF Advance, Start, Stop, FindStored, DeriveEvidence, Ask, Record, HandOff, Resolve, Move, rows
<1>5. ASSUME NEW id \in Decisions, NEW o \in Outcomes, Decide(id, o)
      PROVE  review = "human_review" /\ review' \in Outcomes
  BY <1>5 DEF Decide
<1>6. ASSUME NEW d \in Decision, Follow(d) \/ Forget(d) PROVE UNCHANGED review
  BY <1>6 DEF Follow, Forget, rows
<1>7. CASE UNCHANGED reviewVars
  BY <1>7 DEF reviewVars, rows
<1>8. QED
  BY <1>1, <1>2, <1>3, <1>4, <1>5, <1>6, <1>7 DEF Next

\* ImplementsLifecycle: the conditions in the database's functions and in the repository
\* implement the domain's transition table.
THEOREM FollowsTheTable == Spec => ImplementsLifecycle
<1>1. Init => Lifecycle!Init
  BY DEF Init, Lifecycle!Init
<1>2. QED
  BY <1>1, StepIsAllowed, Invariance, PTL DEF Spec, ImplementsLifecycle, Lifecycle!Spec

-----------------------------------------------------------------------------
(* What a request leaves behind. *)

\* A request that ends by itself, neither dying nor losing a call, leaves the application with
\* a human, or finds the failure handed off under another key, or finds no sales series: there
\* is no fourth way out of route-application-assessment.ts, whatever other requests and
\* decisions do between its steps.
EndsWithReviewer ==
  [][\A p \in Requests :
       request[p] # "idle" /\ request'[p] = "idle" /\ ~Stop(p) =>
         \/ review' # "awaiting_assessment"
         \/ handoff' \notin {NoKey, KeyOf[p]}
         \/ ~sales]_reviewVars

\* The steps a request has left if no call fails.
StepsOf(pc) ==
  CASE pc = "stored" -> 5
    [] pc = "evidence" -> 4
    [] pc = "model" -> 3
    [] pc = "handoff" -> 2
    [] pc \in {"record", "resolve", "transition"} -> 1
    [] OTHER -> 0

\* It ends after five steps at most.
RequestIsFinite ==
  [][\A p \in Requests :
       request'[p] # request[p] => request[p] = "idle" \/ StepsOf(request'[p]) < StepsOf(request[p])]_reviewVars

\* A step of one request is no step of another.
LEMMA OthersRest ==
  ASSUME IInv, NEW p \in Requests, NEW q \in Requests, Start(q) \/ Advance(q) \/ Stop(q),
         request'[p] # request[p]
  PROVE  q = p
BY DEF IInv, TypeOK, Start, Advance, Stop, FindStored, DeriveEvidence, Ask, Record, HandOff, Resolve, Move, Goto

\* What moves a request: its start, its own steps, a fault, or the submission.
LEMMA MovedBy ==
  ASSUME IInv, Next, NEW p \in Requests, request'[p] # request[p]
  PROVE  \/ Start(p) \/ Advance(p) \/ Stop(p)
         \/ Submit /\ request[p] = "idle"
<1>1. CASE Submit
  BY <1>1, ReviewAssumption DEF Submit, IInv, Submitted
<1>2. ASSUME NEW id \in Decisions, NEW o \in Outcomes, Decide(id, o) PROVE FALSE
  BY <1>2 DEF Decide
<1>3. ASSUME NEW d \in Decision, Follow(d) \/ Forget(d) PROVE FALSE
  BY <1>3 DEF Follow, Forget
<1>4. ASSUME NEW q \in Requests, Start(q) \/ Advance(q) \/ Stop(q) PROVE q = p
  BY <1>4, OthersRest
<1>5. QED
  BY <1>1, <1>2, <1>3, <1>4 DEF Next

LEMMA StepEndsWithReviewer ==
  ASSUME IInv, Next, NEW p \in Requests, request[p] # "idle", request'[p] = "idle", ~Stop(p)
  PROVE  review' # "awaiting_assessment" \/ handoff' \notin {NoKey, KeyOf[p]} \/ ~sales
<1>1. request[p] \in {"stored", "evidence", "model", "record", "handoff", "resolve", "transition"}
  BY DEF IInv, TypeOK
<1>2. KeyOf[p] # NoKey /\ review # "none"
  BY ReviewAssumption DEF IInv, Submitted
<1>3. Advance(p)
  BY MovedBy DEF Start
<1>4. CASE FindStored(p)
  BY <1>4 DEF FindStored, Goto, IInv, TypeOK, Assessed, rows
<1>5. CASE Ask(p)
  BY <1>5 DEF Ask, Goto, IInv, TypeOK
<1>6. CASE Record(p)
  BY <1>2, <1>6 DEF Record, IInv, Assessed
<1>7. CASE HandOff(p)
  BY <1>7 DEF HandOff, Goto, IInv, TypeOK
<1>8. CASE Resolve(p)
  BY <1>8 DEF Resolve, IInv, Waiting, rows
<1>9. CASE Move(p)
  BY <1>9 DEF Move
<1>10. CASE DeriveEvidence(p)
  BY <1>10 DEF DeriveEvidence, Goto, IInv, TypeOK
<1>11. QED
  BY <1>3, <1>4, <1>5, <1>6, <1>7, <1>8, <1>9, <1>10 DEF Advance

\* EndsWithReviewer, for any number of requests, keys, decisions and faults.
THEOREM RequestsReachReviewer == Spec => EndsWithReviewer
<1>1. IInv /\ [Next]_reviewVars =>
        [\A p \in Requests :
           request[p] # "idle" /\ request'[p] = "idle" /\ ~Stop(p) =>
             \/ review' # "awaiting_assessment"
             \/ handoff' \notin {NoKey, KeyOf[p]}
             \/ ~sales]_reviewVars
  BY StepEndsWithReviewer
<1>2. QED
  BY <1>1, Invariance, PTL DEF Spec, EndsWithReviewer

\* RequestIsFinite, under the same conditions.
THEOREM RequestsEnd == Spec => RequestIsFinite
<1>1. ASSUME IInv, Next, NEW p \in Requests, request'[p] # request[p], request[p] # "idle"
      PROVE  StepsOf(request'[p]) < StepsOf(request[p])
  <2>1. request[p] \in {"stored", "evidence", "model", "record", "handoff", "resolve", "transition"}
    BY <1>1 DEF IInv, TypeOK
  <2>2. Advance(p) \/ Stop(p)
    BY <1>1, MovedBy DEF Start
  <2>3. PICK pc : /\ Goto(p, pc)
                  /\ pc \in {"idle", "evidence", "model", "record", "handoff", "resolve", "transition"}
    BY <2>2 DEF Advance, Stop, FindStored, DeriveEvidence, Ask, Record, HandOff, Resolve, Move
  <2>4. request'[p] = pc
    BY <1>1, <2>3 DEF Goto, IInv, TypeOK
  <2>5. \/ pc = "idle"
        \/ request[p] = "stored" /\ pc = "evidence"
        \/ request[p] = "evidence" /\ pc = "model"
        \/ request[p] = "model" /\ pc \in {"record", "handoff"}
        \/ request[p] = "handoff" /\ pc \in {"resolve", "transition"}
    <3>1. \A c : Goto(p, c) => pc = c
      BY <1>1, <2>4 DEF Goto, IInv, TypeOK
    <3>2. CASE FindStored(p) \/ DeriveEvidence(p) \/ Ask(p)
      BY <3>1, <3>2 DEF FindStored, DeriveEvidence, Ask
    <3>3. CASE Record(p) \/ HandOff(p)
      BY <3>1, <3>3 DEF Record, HandOff
    <3>4. CASE Resolve(p) \/ Move(p) \/ Stop(p)
      BY <3>1, <3>4 DEF Resolve, Move, Stop
    <3>5. QED
      BY <2>2, <3>2, <3>3, <3>4 DEF Advance
  <2>6. QED
    BY <2>1, <2>4, <2>5 DEF StepsOf
<1>2. IInv /\ [Next]_reviewVars =>
        [\A p \in Requests :
           request'[p] # request[p] =>
             request[p] = "idle" \/ StepsOf(request'[p]) < StepsOf(request[p])]_reviewVars
  BY <1>1
<1>3. QED
  BY <1>2, Invariance, PTL DEF Spec, RequestIsFinite
=============================================================================
