----------------------- MODULE CampaignDeploymentProofs -----------------------
(***************************************************************************)
(* The safety of the deployment of a campaign, for any requests, keys,     *)
(* goals, terms and number of attempts, faults and changes; and that      *)
(* each attempt has a number, and sends a transaction, of its own.         *)
(***************************************************************************)
EXTENDS CampaignDeployment, TLAPS

\* The vault that is there has the terms of a command; the deadline need not be the same where
\* the one on the ledger is accepted.
VaultFits(a) ==
  /\ vault # NoVault
  /\ vault.goal = a.command.goal /\ vault.sme = a.command.sme
  /\ (a.adopting /\ a.command.adopts) \/ a.command.deadline = Whole(vault.deadline)

\* What an attempt has found out when it is about to rely on it: its number, its command,
\* a vault with these terms, a campaign, a deployment that is confirmed.
Informed(a) ==
  /\ a.pc = "resolve" => a.number # 0
  /\ a.pc \in Opening => a.command \in Command /\ (a.number = 0 => opened)
  /\ a.pc \in Opening /\ a.command.adopts => ~a.command.deadline.fraction
  /\ a.pc = "create" => VaultFits(a)
  /\ a.pc = "confirm" => campaign # NoCampaign
  /\ a.pc = "publish" => dep.state = "confirmed"

\* The row's owner goes by the row's number.
Numbered(p) ==
  dep.state = "deploying" /\ dep.owner = p /\ attempt[p].number > 0 =>
    attempt[p].number = dep.attempts

IInv ==
  /\ TypeOK
  /\ \A p \in Attempts : Informed(attempt[p]) /\ Numbered(p)
  /\ PublishedIsDeployed

-----------------------------------------------------------------------------
LEMMA IdleType == Idle \in Attempt
BY DEF Idle, Attempt, NoAttempt, Opening

LEMMA InitInvariant == Init => IInv
<1> SUFFICES ASSUME Init PROVE IInv
  OBVIOUS
<1>1. Idle \in Attempt
  BY IdleType
<1>2. NoKey \notin Keys
  BY DeploymentAssumption
<1>3. TypeOK
  <2>1. dep \in Deployment /\ attempt \in [Attempts -> Attempt]
    BY <1>1 DEF Init, Deployment
  <2>2. terms \in Terms /\ campaign \in Campaign \cup {NoCampaign}
    BY DeploymentAssumption DEF Init
  <2>3. \A t \in flying \cup {vault} : t.by # 0
    BY DEF Init, NoVault, NoAttempt
  <2>4. faults \in 0..MaxFaults /\ changes \in 0..MaxChanges
    BY DeploymentAssumption DEF Init
  <2>5. vault = NoVault /\ flying = {} /\ funding = FALSE
    BY DEF Init
  <2>6. connecting = FALSE /\ published = FALSE /\ opened = FALSE /\ clock = 0
    BY DEF Init
  <2>7. QED
    BY <2>1, <2>2, <2>3, <2>4, <2>5, <2>6 DEF TypeOK
<1>4. \A p \in Attempts : Informed(attempt[p]) /\ Numbered(p)
  BY DEF Init, Idle, Informed, VaultFits, Numbered, Opening
<1>5. PublishedIsDeployed
  BY DEF Init, PublishedIsDeployed
<1>6. QED
  BY <1>3, <1>4, <1>5 DEF IInv

-----------------------------------------------------------------------------
(* What the steps of one attempt have in common. *)

PCs == {"idle", "pending", "begin", "claim", "resolve", "confirm", "publish", "fail"} \cup Opening

LEMMA GotoSteps ==
  ASSUME TypeOK, NEW p \in Attempts, NEW pc \in PCs, Goto(p, pc)
  PROVE  /\ attempt' \in [Attempts -> Attempt]
         /\ \A q \in Attempts \ {p} : attempt'[q] = attempt[q]
         /\ attempt'[p].pc = pc
         /\ attempt'[p].command = attempt[p].command /\ attempt'[p].number = attempt[p].number
         /\ attempt'[p].adopting = attempt[p].adopting
BY DEF Goto, TypeOK, Attempt, PCs

LEMMA EndsSteps ==
  ASSUME TypeOK, NEW p \in Attempts, Ends(p)
  PROVE  /\ attempt' \in [Attempts -> Attempt]
         /\ \A q \in Attempts \ {p} : attempt'[q] = attempt[q]
         /\ attempt'[p].pc = "idle" /\ attempt'[p].number = 0
<1>1. Idle \in Attempt
  BY IdleType
<1>2. QED
  BY <1>1 DEF Ends, TypeOK, Idle

\* Only p moves, and is entitled to be where it gets to.
LEMMA AttemptMoves ==
  ASSUME IInv, NEW p \in Attempts, UNCHANGED <<dep, ledger, campaign, current, published>>,
         faults' \in 0..MaxFaults,
         attempt' \in [Attempts -> Attempt],
         \A q \in Attempts \ {p} : attempt'[q] = attempt[q],
         Informed(attempt'[p]), attempt'[p].number \in {0, attempt[p].number}
  PROVE  IInv'
<1>1. TypeOK'
  BY DEF IInv, TypeOK, ledger, current
<1>2. PublishedIsDeployed'
  BY DEF IInv, PublishedIsDeployed, ledger
<1>3. \A q \in Attempts : Informed(attempt'[q])
  BY DEF IInv
<1>4. \A q \in Attempts : Informed(attempt[q])' /\ Numbered(q)'
  BY <1>3 DEF IInv, Informed, VaultFits, Numbered, ledger, current
<1>5. QED
  BY <1>1, <1>2, <1>4 DEF IInv

\* It ends, or goes to where nothing is asked of it.
LEMMA Leaves ==
  ASSUME IInv, NEW p \in Attempts, UNCHANGED <<dep, ledger, campaign, current, published>>,
         faults' \in 0..MaxFaults, Goto(p, "fail") \/ Ends(p)
  PROVE  IInv'
<1>1. TypeOK
  BY DEF IInv
<1>2. CASE Goto(p, "fail")
  BY <1>1, <1>2, GotoSteps, AttemptMoves DEF PCs, Informed, Opening
<1>3. CASE Ends(p)
  BY <1>1, <1>3, EndsSteps, AttemptMoves DEF Informed, Opening
<1>4. QED
  BY <1>2, <1>3

LEMMA FaultCounted ==
  ASSUME IInv, Fault \/ UNCHANGED faults
  PROVE  faults' \in 0..MaxFaults
BY DeploymentAssumption DEF IInv, TypeOK, Fault

-----------------------------------------------------------------------------
(* The row. *)

LEMMA CheckKeeps == ASSUME IInv, NEW p \in Attempts, Check(p) PROVE IInv'
<1> DEFINE a == [Idle EXCEPT !.pc = "pending", !.now = clock,
                             !.stale = IF dep.state = "deploying" THEN dep.attempts ELSE NoAttempt]
<1>1. a \in Attempt /\ a.pc = "pending" /\ a.number = 0
  BY DEF IInv, TypeOK, Deployment, Idle, Attempt, NoAttempt
<1>2. attempt' = [attempt EXCEPT ![p] = a]
  BY DEF Check
<1> HIDE DEF a
<1>3. /\ attempt' \in [Attempts -> Attempt] /\ attempt'[p] = a
      /\ \A q \in Attempts \ {p} : attempt'[q] = attempt[q]
  BY <1>1, <1>2 DEF IInv, TypeOK
<1>4. QED
  BY <1>1, <1>3, FaultCounted, AttemptMoves DEF Check, Informed, Opening

LEMMA ReadRowKeeps == ASSUME IInv, NEW p \in Attempts, ReadRow(p) PROVE IInv'
<1>1. UNCHANGED <<dep, ledger, campaign, current, published>> /\ faults' \in 0..MaxFaults
  BY FaultCounted DEF ReadRow
<1> DEFINE r == Reclaimable(p)
           a == [attempt[p] EXCEPT !.pc = "claim", !.read = dep.attempts, !.reclaim = r]
<1>2. CASE attempt' = [attempt EXCEPT ![p] = a]
  <2>0. r \in BOOLEAN
    BY DEF Reclaimable
  <2> HIDE DEF r
  <2>1. a \in Attempt /\ a.pc = "claim" /\ a.number = attempt[p].number
    <3>1. attempt[p] \in Attempt
      BY DEF IInv, TypeOK
    <3>2. dep.attempts \in Nat
      BY DEF IInv, TypeOK, Deployment
    <3>3. QED
      BY <2>0, <3>1, <3>2 DEF Attempt
  <2> HIDE DEF a
  <2>2. /\ attempt' \in [Attempts -> Attempt] /\ attempt'[p] = a
        /\ \A q \in Attempts \ {p} : attempt'[q] = attempt[q]
    BY <1>2, <2>1 DEF IInv, TypeOK
  <2>3. QED
    BY <1>1, <2>1, <2>2, AttemptMoves DEF Informed, Opening
<1>3. CASE Ends(p)
  BY <1>1, <1>3, Leaves
<1>4. QED
  BY <1>2, <1>3 DEF ReadRow, Ends

\* The row changes and stays unconfirmed; p's place claims nothing.
LEMMA RowMoves ==
  ASSUME IInv, NEW p \in Attempts, UNCHANGED <<ledger, campaign, current, published>>,
         faults' \in 0..MaxFaults,
         dep.state # "confirmed", dep' \in Deployment,
         dep'.state = "confirmed" => campaign # NoCampaign,
         attempt' \in [Attempts -> Attempt],
         \A q \in Attempts \ {p} : attempt'[q] = attempt[q],
         Informed(attempt[p])',
         \A q \in Attempts : Numbered(q)'
  PROVE  IInv'
<1>1. TypeOK'
  BY DEF IInv, TypeOK, ledger, current
<1>2. PublishedIsDeployed'
  BY DEF IInv, PublishedIsDeployed, ledger
<1>3. ASSUME NEW q \in Attempts \ {p} PROVE Informed(attempt[q])'
  <2>1. Informed(attempt[q]) /\ attempt'[q] = attempt[q]
    BY DEF IInv
  <2>2. QED
    BY <2>1 DEF Informed, VaultFits, ledger, current
<1>4. QED
  BY <1>1, <1>2, <1>3 DEF IInv

LEMMA MarkPendingKeeps == ASSUME IInv, NEW p \in Attempts, MarkPending(p) PROVE IInv'
<1>1. /\ UNCHANGED <<ledger, campaign, current, published, faults>>
      /\ attempt[p].pc = "pending" /\ Goto(p, "begin")
  BY DEF MarkPending
<1>2. TypeOK /\ faults' \in 0..MaxFaults
  BY <1>1, FaultCounted DEF IInv
<1>3. /\ attempt' \in [Attempts -> Attempt]
      /\ \A q \in Attempts \ {p} : attempt'[q] = attempt[q]
      /\ attempt'[p].pc = "begin" /\ attempt'[p].number = attempt[p].number
  BY <1>1, <1>2, GotoSteps DEF PCs
<1>4. CASE dep' = dep
  BY <1>1, <1>2, <1>3, <1>4, AttemptMoves DEF Informed, Opening
<1>5. CASE dep.state = "none" /\ dep' = [dep EXCEPT !.state = "pending"]
  <2>1. dep' \in Deployment /\ dep'.state = "pending"
    BY <1>2, <1>5 DEF TypeOK, Deployment
  <2>2. \A q \in Attempts : Numbered(q)'
    BY <2>1 DEF Numbered
  <2>3. Informed(attempt[p])'
    BY <1>3 DEF Informed, Opening
  <2>4. QED
    BY <1>1, <1>2, <1>3, <1>5, <2>1, <2>2, <2>3, RowMoves
<1>6. QED
  BY <1>4, <1>5 DEF MarkPending

LEMMA ClaimKeeps == ASSUME IInv, NEW p \in Attempts, Claim(p) PROVE IInv'
<1>1. UNCHANGED <<ledger, campaign, current, published, faults>> /\ faults' \in 0..MaxFaults
  BY FaultCounted DEF Claim
<1> DEFINE n == attempt[p].read + 1
           a == [Idle EXCEPT !.pc = "resolve", !.now = attempt[p].now, !.number = n]
<1>2. CASE /\ Claims(p) /\ attempt' = [attempt EXCEPT ![p] = a]
           /\ dep' = [state |-> "deploying", attempts |-> n, owner |-> p, aged |-> FALSE]
  <2>1. n \in Nat /\ n # 0 /\ dep.state # "confirmed"
    BY <1>2 DEF Claims, Reclaimable, Retrying, IInv, TypeOK, Deployment
  <2>2. a \in Attempt /\ a.pc = "resolve" /\ a.number = n
    <3>1. attempt[p].now \in Nat
      BY DEF IInv, TypeOK, Attempt
    <3> HIDE DEF n
    <3>2. QED
      BY <2>1, <3>1, IdleType DEF Idle, Attempt
  <2>3. /\ dep' \in Deployment /\ dep'.state = "deploying"
        /\ dep'.attempts = n /\ dep'.owner = p
    BY <1>2, <2>1 DEF Deployment
  <2> HIDE DEF a, n
  <2>4. /\ attempt' \in [Attempts -> Attempt] /\ attempt'[p] = a
        /\ \A q \in Attempts \ {p} : attempt'[q] = attempt[q]
    BY <1>2, <2>2 DEF IInv, TypeOK
  <2>5. \A q \in Attempts : Numbered(q)'
    BY <2>2, <2>3, <2>4 DEF Numbered
  <2>6. Informed(attempt[p])'
    BY <2>1, <2>2, <2>4 DEF Informed, Opening
  <2>7. QED
    BY <1>1, <2>1, <2>3, <2>4, <2>5, <2>6, RowMoves
<1>3. CASE Ends(p) /\ UNCHANGED dep
  BY <1>1, <1>3, Leaves
<1>4. QED
  BY <1>2, <1>3 DEF Claim

LEMMA AgeKeeps == ASSUME IInv, Age PROVE IInv'
<1>1. /\ UNCHANGED <<attempt, ledger, campaign, current, published>>
      /\ dep.state = "deploying" /\ dep' = [dep EXCEPT !.aged = TRUE]
      /\ Fault \/ UNCHANGED faults
  BY DEF Age
<1>2. dep' \in Deployment /\ \A f \in {"state", "owner", "attempts"} : dep'[f] = dep[f]
  BY <1>1 DEF IInv, TypeOK, Deployment
<1>3. TypeOK'
  BY <1>1, <1>2, FaultCounted DEF IInv, TypeOK, ledger, current
<1>4. QED
  BY <1>1, <1>2, <1>3
  DEF IInv, Informed, VaultFits, Numbered, PublishedIsDeployed, ledger, current

-----------------------------------------------------------------------------
(* The campaign. *)

LEMMA OpenKeeps ==
  ASSUME IInv, NEW p \in Attempts, NEW c \in DirectCommands, Open(p, c)
  PROVE  IInv'
<1> DEFINE a == [Idle EXCEPT !.pc = "find", !.command = c]
<1>1. /\ UNCHANGED <<dep, ledger, campaign, terms, connecting, clock, published, faults>>
      /\ opened' = TRUE /\ changes < MaxChanges /\ changes' = changes + 1
      /\ attempt' = [attempt EXCEPT ![p] = a]
  BY DEF Open
<1>2. /\ a \in Attempt /\ a.pc = "find" /\ a.number = 0
      /\ a.command \in Command /\ ~a.command.adopts
  <2>1. c \in Command /\ ~c.adopts
    BY DeploymentAssumption
  <2>2. QED
    BY <2>1, IdleType DEF Idle, Attempt, Opening
<1> HIDE DEF a
<1>3. /\ attempt' \in [Attempts -> Attempt] /\ attempt'[p] = a
      /\ \A q \in Attempts \ {p} : attempt'[q] = attempt[q]
  BY <1>1, <1>2 DEF IInv, TypeOK
<1>4. changes' \in 0..MaxChanges
  BY <1>1, DeploymentAssumption DEF IInv, TypeOK
<1>5. TypeOK'
  BY <1>1, <1>3, <1>4 DEF IInv, TypeOK, ledger
<1>6. Informed(attempt[p])' /\ Numbered(p)'
  BY <1>1, <1>2, <1>3 DEF Informed, Numbered
<1>7. ASSUME NEW q \in Attempts \ {p} PROVE Informed(attempt[q])' /\ Numbered(q)'
  <2>1. Informed(attempt[q]) /\ Numbered(q) /\ attempt'[q] = attempt[q]
    BY <1>3 DEF IInv
  <2>2. QED
    BY <1>1, <2>1 DEF Informed, VaultFits, Numbered, ledger
<1>8. PublishedIsDeployed'
  BY <1>1 DEF IInv, PublishedIsDeployed, ledger
<1>9. QED
  BY <1>5, <1>6, <1>7, <1>8 DEF IInv

\* Terms that are complete make a command; a deadline that comes from a duration is a whole
\* second's.
LEMMA CommandMade ==
  ASSUME TypeOK, TermsComplete, NEW now \in Nat
  PROVE  /\ CommandFrom(now) \in Command
         /\ CommandFrom(now).adopts => ~CommandFrom(now).deadline.fraction
<1>1. terms.sme \in Keys /\ terms.goal \in Goals /\ terms.duration \in Nat /\ terms.deadline \in Moment
  BY DEF TypeOK, TermsComplete, Terms
<1>2. now + terms.duration \in Nat
  BY <1>1
<1>3. Whole(now + terms.duration) \in Moment /\ ~Whole(now + terms.duration).fraction
  BY <1>2 DEF Whole, Moment
<1>4. DeadlineFrom(now) \in Moment /\ (terms.duration > 0 => ~DeadlineFrom(now).fraction)
  BY <1>1, <1>3 DEF DeadlineFrom
<1> DEFINE b == (terms.duration > 0)
<1>5. b \in BOOLEAN /\ CommandFrom(now) =
        [sme |-> terms.sme, goal |-> terms.goal, deadline |-> DeadlineFrom(now), adopts |-> b]
  BY DEF CommandFrom
<1>6. b => ~DeadlineFrom(now).fraction
  BY <1>4
<1> HIDE DEF b
<1>7. QED
  BY <1>1, <1>4, <1>5, <1>6 DEF Command

\* What Resolve makes of an attempt.
LEMMA Resolved ==
  ASSUME TypeOK, NEW p \in Attempts, Resolve(p)
  PROVE  /\ attempt' \in [Attempts -> Attempt]
         /\ \A q \in Attempts \ {p} : attempt'[q] = attempt[q]
         /\ attempt'[p].pc \in {"find", "fail"} /\ attempt'[p].number = attempt[p].number
         /\ attempt'[p].pc = "find" =>
              /\ attempt'[p].command \in Command
              /\ attempt'[p].command.adopts => ~attempt'[p].command.deadline.fraction
<1> DEFINE pc == IF TermsComplete THEN "find" ELSE "fail"
           c == IF TermsComplete THEN CommandFrom(attempt[p].now) ELSE NoCommand
           a == [Idle EXCEPT !.number = attempt[p].number, !.pc = pc, !.command = c]
<1>1. attempt' = [attempt EXCEPT ![p] = a]
  BY DEF Resolve
<1>2. attempt[p].now \in Nat /\ attempt[p].number \in Nat
  BY DEF TypeOK, Attempt
<1>3. c \in Command \cup {NoCommand}
  BY <1>2, CommandMade
<1>4. pc = "find" => c \in Command /\ (c.adopts => ~c.deadline.fraction)
  BY <1>2, CommandMade
<1>5. pc \in {"find", "fail"}
  OBVIOUS
<1> HIDE DEF pc, c
<1>6. a \in Attempt /\ a.pc = pc /\ a.number = attempt[p].number /\ a.command = c
  BY <1>2, <1>3, <1>5, IdleType DEF Idle, Attempt, Opening
<1> HIDE DEF a
<1>7. attempt' \in [Attempts -> Attempt] /\ attempt'[p] = a
      /\ \A q \in Attempts \ {p} : attempt'[q] = attempt[q]
  BY <1>1, <1>6 DEF TypeOK
<1>8. QED
  BY <1>4, <1>5, <1>6, <1>7

LEMMA ResolveKeeps == ASSUME IInv, NEW p \in Attempts, Resolve(p) PROVE IInv'
<1>1. UNCHANGED <<dep, ledger, campaign, current, published, faults>> /\ attempt[p].pc = "resolve"
  BY DEF Resolve
<1>2. TypeOK /\ faults' \in 0..MaxFaults
  BY <1>1, FaultCounted DEF IInv
<1>3. attempt[p].number = 0 => opened
  BY <1>1 DEF IInv, Informed
<1>4. Informed(attempt'[p])
  BY <1>2, <1>3, Resolved DEF Informed, Opening
<1>5. QED
  BY <1>1, <1>2, <1>4, Resolved, AttemptMoves

\* What an attempt knows stays with it from one place of the opening to the next.
LEMMA OpeningGoesOn ==
  ASSUME IInv, NEW p \in Attempts, UNCHANGED <<dep, ledger, campaign, current, published, faults>>,
         attempt[p].pc \in Opening, NEW pc \in Opening \cup {"confirm", "fail"}, Goto(p, pc),
         pc = "create" => VaultFits(attempt[p]),
         pc = "confirm" => campaign # NoCampaign
  PROVE  IInv'
<1>1. TypeOK /\ Informed(attempt[p]) /\ faults' \in 0..MaxFaults
  BY FaultCounted DEF IInv
<1>2. /\ attempt' \in [Attempts -> Attempt]
      /\ \A q \in Attempts \ {p} : attempt'[q] = attempt[q]
      /\ attempt'[p].pc = pc
      /\ attempt'[p].command = attempt[p].command /\ attempt'[p].number = attempt[p].number
      /\ attempt'[p].adopting = attempt[p].adopting
  BY <1>1, GotoSteps DEF PCs
<1>3. Informed(attempt'[p])
  BY <1>1, <1>2 DEF Informed, VaultFits, Opening
<1>4. QED
  BY <1>1, <1>2, <1>3, AttemptMoves

\* Probe also notes whether the attempt adopts a vault.
LEMMA Probed ==
  ASSUME TypeOK, NEW p \in Attempts, Probe(p)
  PROVE  /\ attempt' \in [Attempts -> Attempt]
         /\ \A q \in Attempts \ {p} : attempt'[q] = attempt[q]
         /\ attempt'[p].pc \in {"limit", "readback"}
         /\ attempt'[p].command = attempt[p].command /\ attempt'[p].number = attempt[p].number
<1> DEFINE pc == IF vault = NoVault THEN "limit" ELSE "readback"
           b == (vault # NoVault)
           a == [attempt[p] EXCEPT !.pc = pc, !.adopting = b]
<1>1. attempt[p] \in Attempt /\ pc \in {"limit", "readback"} /\ b \in BOOLEAN
  BY DEF TypeOK
<1>2. attempt' = [attempt EXCEPT ![p] = a]
  <2>1. attempt' = [attempt EXCEPT ![p].pc = pc, ![p].adopting = b]
    BY DEF Probe
  <2> HIDE DEF pc, b
  <2>2. QED
    BY <1>1, <2>1 DEF TypeOK, Attempt
<1> HIDE DEF pc, b
<1>3. /\ a \in Attempt /\ a.pc = pc
      /\ a.command = attempt[p].command /\ a.number = attempt[p].number
  BY <1>1 DEF Attempt, Opening
<1> HIDE DEF a
<1>4. QED
  BY <1>1, <1>2, <1>3 DEF TypeOK

LEMMA ProbeKeeps == ASSUME IInv, NEW p \in Attempts, Probe(p) PROVE IInv'
<1>1. UNCHANGED <<dep, ledger, campaign, current, published, faults>> /\ attempt[p].pc = "probe"
  BY DEF Probe
<1>2. TypeOK /\ Informed(attempt[p]) /\ faults' \in 0..MaxFaults
  BY <1>1, FaultCounted DEF IInv
<1>3. Informed(attempt'[p])
  BY <1>1, <1>2, Probed DEF Informed, Opening
<1>4. QED
  BY <1>1, <1>2, <1>3, Probed, AttemptMoves

LEMMA FindLimitPollKeep ==
  ASSUME IInv, NEW p \in Attempts, FindCampaign(p) \/ CheckLimit(p) \/ Poll(p)
  PROVE  IInv'
<1>1. CASE FindCampaign(p)
  BY <1>1, OpeningGoesOn DEF FindCampaign, Opening
<1>2. CASE CheckLimit(p)
  BY <1>2, OpeningGoesOn DEF CheckLimit, Opening
<1>3. CASE Poll(p)
  BY <1>3, OpeningGoesOn DEF Poll, Opening
<1>4. QED
  BY <1>1, <1>2, <1>3

LEMMA ReadBackKeeps == ASSUME IInv, NEW p \in Attempts, ReadBack(p) PROVE IInv'
<1>1. attempt[p].pc = "readback" /\ UNCHANGED <<dep, ledger, campaign, current, published, faults>>
  BY DEF ReadBack
<1>2. CASE Matches(p) /\ Goto(p, "create")
  <2>1. attempt[p].command.sme # NoVault.sme
    BY <1>1, DeploymentAssumption DEF IInv, Informed, Opening, Command, NoVault
  <2>2. VaultFits(attempt[p])
    BY <1>2, <2>1 DEF Matches, AcceptsDeadline, VaultFits
  <2>3. QED
    BY <1>1, <1>2, <2>2, OpeningGoesOn DEF Opening
<1>3. CASE Goto(p, "fail")
  BY <1>1, <1>3, OpeningGoesOn DEF Opening
<1>4. QED
  BY <1>2, <1>3 DEF ReadBack

LEMMA DeployKeeps == ASSUME IInv, NEW p \in Attempts, Deploy(p) PROVE IInv'
<1> DEFINE t == VaultOf(p)
<1>1. /\ UNCHANGED <<dep, vault, funding, campaign, current, published, faults>>
      /\ attempt[p].pc = "deploy" /\ Goto(p, "poll") /\ flying' = flying \cup {t}
  BY DEF Deploy
<1>2. /\ TypeOK /\ attempt[p].command \in Command /\ (attempt[p].number = 0 => opened)
      /\ attempt[p].command.adopts => ~attempt[p].command.deadline.fraction
  BY <1>1 DEF IInv, Informed, Opening
<1>3. /\ attempt' \in [Attempts -> Attempt]
      /\ \A q \in Attempts \ {p} : attempt'[q] = attempt[q]
      /\ attempt'[p].pc = "poll"
      /\ attempt'[p].command = attempt[p].command /\ attempt'[p].number = attempt[p].number
  BY <1>1, <1>2, GotoSteps DEF PCs, Opening
<1>4. t \in Vault /\ (t.by = 0 => opened)
  BY <1>2 DEF VaultOf, Vault, TypeOK, Attempt, Command, Moment
<1> HIDE DEF t
<1>5. TypeOK'
  BY <1>1, <1>2, <1>3, <1>4 DEF TypeOK, current
<1>6. ASSUME NEW q \in Attempts PROVE Informed(attempt[q])' /\ Numbered(q)'
  <2>1. Informed(attempt[q]) /\ Numbered(q)
    BY DEF IInv
  <2>2. CASE q = p
    BY <1>1, <1>2, <1>3, <2>1, <2>2 DEF Informed, VaultFits, Numbered, Opening, current
  <2>3. CASE q # p
    BY <1>1, <1>3, <2>1, <2>3 DEF Informed, VaultFits, Numbered, current
  <2>4. QED
    BY <2>2, <2>3
<1>7. PublishedIsDeployed'
  BY <1>1 DEF IInv, PublishedIsDeployed
<1>8. QED
  BY <1>5, <1>6, <1>7 DEF IInv

\* The mirror's row is written from a vault that has the attempt's terms.
LEMMA CampaignWritten ==
  ASSUME IInv, NEW p \in Attempts, UNCHANGED <<dep, ledger, current, published>>,
         faults' \in 0..MaxFaults, attempt[p].pc = "create", campaign = NoCampaign,
         campaign' = NewCampaign(p), NEW pc \in {"confirm", "fail"}, Goto(p, pc)
  PROVE  IInv'
<1>1. TypeOK /\ VaultFits(attempt[p]) /\ attempt[p].command \in Command
  BY DEF IInv, Informed, Opening
<1>2. /\ attempt' \in [Attempts -> Attempt]
      /\ \A q \in Attempts \ {p} : attempt'[q] = attempt[q]
      /\ attempt'[p].pc = pc /\ attempt'[p].number = attempt[p].number
  BY <1>1, GotoSteps DEF PCs
<1>3. /\ campaign' \in Campaign /\ vault # NoVault
      /\ campaign'.sme = vault.sme /\ campaign'.goal = vault.goal
      /\ campaign'.deadline = Whole(vault.deadline)
  <2>1. Whole(vault.deadline) \in Moment
    BY <1>1 DEF TypeOK, Vault, VaultFits, Whole, Moment
  <2>2. campaign'.deadline = Whole(vault.deadline)
    BY <1>1 DEF NewCampaign, AcceptsDeadline, VaultFits
  <2>3. QED
    BY <1>1, <2>1, <2>2 DEF NewCampaign, Campaign, Command, VaultFits
<1>4. campaign' # NoCampaign
  BY <1>3, DeploymentAssumption DEF Campaign, NoCampaign
<1>5. TypeOK'
  BY <1>1, <1>2, <1>3 DEF TypeOK, ledger, current
<1>6. PublishedIsDeployed'
  BY <1>1, <1>3, <1>4 DEF IInv, PublishedIsDeployed, ledger
<1>7. ASSUME NEW q \in Attempts PROVE Informed(attempt[q])' /\ Numbered(q)'
  <2>1. Informed(attempt[q]) /\ Numbered(q)
    BY DEF IInv
  <2>2. CASE q = p
    BY <1>2, <1>4, <2>1, <2>2 DEF Informed, VaultFits, Numbered, Opening
  <2>3. CASE q # p
    BY <1>2, <1>4, <2>1, <2>3 DEF Informed, VaultFits, Numbered, ledger, current
  <2>4. QED
    BY <2>2, <2>3
<1>8. QED
  BY <1>5, <1>6, <1>7 DEF IInv

LEMMA CreateKeeps ==
  ASSUME IInv, NEW p \in Attempts, Create(p) \/ CreateUnanswered(p)
  PROVE  IInv'
<1>1. CASE Create(p) /\ campaign = NoCampaign
  BY <1>1, FaultCounted, CampaignWritten DEF Create
<1>2. CASE Create(p) /\ campaign # NoCampaign
  BY <1>2, FaultCounted, Leaves DEF Create
<1>3. CASE CreateUnanswered(p)
  BY <1>3, FaultCounted, CampaignWritten DEF CreateUnanswered
<1>4. QED
  BY <1>1, <1>2, <1>3

-----------------------------------------------------------------------------
(* The outcome. *)

LEMMA ConfirmKeeps == ASSUME IInv, NEW p \in Attempts, Confirm(p) PROVE IInv'
<1>1. /\ UNCHANGED <<ledger, campaign, current, published, faults>>
      /\ TypeOK /\ faults' \in 0..MaxFaults /\ campaign # NoCampaign
  BY FaultCounted DEF Confirm, IInv, Informed
<1>2. CASE /\ Owned(p) /\ dep' = [dep EXCEPT !.state = "confirmed", !.aged = FALSE]
           /\ Goto(p, "publish")
  <2>1. dep' \in Deployment /\ dep'.state = "confirmed"
    BY <1>1, <1>2 DEF TypeOK, Deployment
  <2>2. /\ attempt' \in [Attempts -> Attempt] /\ attempt'[p].pc = "publish"
        /\ \A q \in Attempts \ {p} : attempt'[q] = attempt[q]
    BY <1>1, <1>2, GotoSteps DEF PCs
  <2>3. Informed(attempt[p])' /\ \A q \in Attempts : Numbered(q)'
    BY <2>1, <2>2 DEF Informed, VaultFits, Numbered, Opening
  <2>4. QED
    BY <1>1, <1>2, <2>1, <2>2, <2>3, RowMoves DEF Owned
<1>3. CASE Ends(p) /\ UNCHANGED dep
  BY <1>1, <1>3, Leaves
<1>4. QED
  BY <1>2, <1>3 DEF Confirm

LEMMA PublishKeeps == ASSUME IInv, NEW p \in Attempts, Publish(p) PROVE IInv'
<1>1. /\ UNCHANGED <<dep, ledger, campaign, current, faults>> /\ published' = TRUE
      /\ Ends(p) /\ TypeOK /\ dep.state = "confirmed"
  BY DEF Publish, IInv, Informed
<1>2. /\ attempt' \in [Attempts -> Attempt] /\ attempt'[p].pc = "idle"
      /\ \A q \in Attempts \ {p} : attempt'[q] = attempt[q]
  BY <1>1, EndsSteps
<1>3. TypeOK'
  BY <1>1, <1>2 DEF TypeOK, ledger, current
<1>4. PublishedIsDeployed'
  BY <1>1 DEF IInv, PublishedIsDeployed, ledger
<1>5. ASSUME NEW q \in Attempts PROVE Informed(attempt[q])' /\ Numbered(q)'
  <2>1. Informed(attempt[q])'
    BY <1>1, <1>2 DEF IInv, Informed, VaultFits, Opening, ledger, current
  <2>2. Numbered(q)'
    BY <1>1 DEF Numbered
  <2>3. QED
    BY <2>1, <2>2
<1>6. QED
  BY <1>3, <1>4, <1>5 DEF IInv

LEMMA MarkFailedKeeps == ASSUME IInv, NEW p \in Attempts, MarkFailed(p) PROVE IInv'
<1>1. /\ UNCHANGED <<ledger, campaign, current, published, faults>> /\ Ends(p)
      /\ TypeOK /\ faults' \in 0..MaxFaults
  BY FaultCounted DEF MarkFailed, IInv
<1>2. CASE Owned(p) /\ dep' = [dep EXCEPT !.state = "failed", !.aged = FALSE]
  <2>1. dep' \in Deployment /\ dep'.state = "failed"
    BY <1>1, <1>2 DEF TypeOK, Deployment
  <2>2. /\ attempt' \in [Attempts -> Attempt] /\ attempt'[p].pc = "idle"
        /\ \A q \in Attempts \ {p} : attempt'[q] = attempt[q]
    BY <1>1, EndsSteps
  <2>3. Informed(attempt[p])' /\ \A q \in Attempts : Numbered(q)'
    BY <2>1, <2>2 DEF Informed, VaultFits, Numbered, Opening
  <2>4. QED
    BY <1>1, <1>2, <2>1, <2>2, <2>3, RowMoves DEF Owned
<1>3. CASE UNCHANGED dep
  BY <1>1, <1>3, Leaves
<1>4. QED
  BY <1>2, <1>3 DEF MarkFailed

LEMMA FailuresKeep ==
  ASSUME IInv, NEW p \in Attempts, CallFails(p) \/ Crash(p)
  PROVE  IInv'
BY FaultCounted, Leaves DEF CallFails, Crash

-----------------------------------------------------------------------------
(* The ledger and the terms. *)

LEMMA LedgerKeeps ==
  ASSUME IInv, NEW t \in flying, Land(t) \/ Refuse(t) \/ Expire(t)
  PROVE  IInv'
<1>1. /\ UNCHANGED <<dep, attempt, campaign, current, published>>
      /\ flying' = flying \ {t} /\ (vault' = vault \/ (vault = NoVault /\ vault' = t))
      /\ funding' \in {funding, TRUE}
  BY DEF Land, Deployable, Refuse, Expire
<1>2. TypeOK /\ faults' \in 0..MaxFaults
  BY FaultCounted DEF Land, Refuse, Expire, IInv
<1>3. TypeOK'
  BY <1>1, <1>2 DEF TypeOK, current
<1>4. PublishedIsDeployed'
  BY <1>1 DEF IInv, PublishedIsDeployed
<1>5. \A q \in Attempts : Informed(attempt[q])' /\ Numbered(q)'
  BY <1>1 DEF IInv, Informed, VaultFits, Numbered, current
<1>6. QED
  BY <1>3, <1>4, <1>5 DEF IInv

\* The terms, the clock and the funding move, or a wallet request begins; nothing else does.
Surroundings == Tick \/ EndFunding \/ ChangeRate \/ StartConnecting \/ WriteKey

LEMMA SurroundingsKeep == ASSUME IInv, Surroundings PROVE IInv'
<1>1. UNCHANGED <<dep, attempt, vault, flying, campaign, opened, published, faults>>
  BY DEF Surroundings, Tick, EndFunding, ChangeRate, StartConnecting, WriteKey, ledger
<1>2. terms' \in Terms
  <2>1. CASE ChangeRate
    BY <2>1 DEF ChangeRate, IInv, TypeOK, Terms
  <2>2. CASE Tick \/ EndFunding \/ StartConnecting
    BY <2>2 DEF Tick, EndFunding, StartConnecting, IInv, TypeOK
  <2>3. CASE WriteKey
    BY <2>3 DEF WriteKey, IInv, TypeOK, Terms
  <2>4. QED
    BY <2>1, <2>2, <2>3 DEF Surroundings
<1>3. changes' \in 0..MaxChanges
  BY DeploymentAssumption
  DEF Surroundings, Tick, EndFunding, ChangeRate, StartConnecting, WriteKey, IInv, TypeOK
<1>4. connecting' \in BOOLEAN /\ funding' \in BOOLEAN /\ clock' \in Nat
  <2>1. clock' = clock \/ clock' = clock + 1
    BY DEF Surroundings, Tick, EndFunding, ChangeRate, StartConnecting, WriteKey
  <2>2. /\ connecting' = connecting \/ connecting' \in BOOLEAN
        /\ funding' = funding \/ funding' \in BOOLEAN
    BY DEF Surroundings, Tick, EndFunding, ChangeRate, StartConnecting, WriteKey, ledger
  <2>3. QED
    BY <2>1, <2>2 DEF IInv, TypeOK
<1>5. TypeOK'
  BY <1>1, <1>2, <1>3, <1>4 DEF IInv, TypeOK
<1>6. QED
  BY <1>1, <1>5 DEF IInv, Informed, VaultFits, Numbered, PublishedIsDeployed

LEMMA StutterKeeps == ASSUME IInv, UNCHANGED depVars PROVE IInv'
<1>1. TypeOK'
  BY DEF IInv, TypeOK, depVars, ledger, current
<1>2. QED
  BY <1>1 DEF IInv, Informed, VaultFits, Numbered, PublishedIsDeployed, depVars, ledger, current

LEMMA NextInvariant == IInv /\ [Next]_depVars => IInv'
<1> SUFFICES ASSUME IInv, [Next]_depVars PROVE IInv'
  OBVIOUS
<1>1. ASSUME NEW p \in Attempts, Advance(p) PROVE IInv'
  BY <1>1, MarkPendingKeeps, ReadRowKeeps, ClaimKeeps, ResolveKeeps, FindLimitPollKeep, ProbeKeeps, DeployKeeps,
     ReadBackKeeps, CreateKeeps, ConfirmKeeps, PublishKeeps, MarkFailedKeeps DEF Advance
<1>2. ASSUME NEW p \in Attempts, CallFails(p) \/ CreateUnanswered(p) \/ Crash(p) PROVE IInv'
  BY <1>2, FailuresKeep, CreateKeeps
<1>3. ASSUME NEW p \in Attempts, Check(p) \/ \E c \in DirectCommands : Open(p, c) PROVE IInv'
  BY <1>3, CheckKeeps, OpenKeeps
<1>4. ASSUME NEW t \in flying, Land(t) \/ Refuse(t) \/ Expire(t) PROVE IInv'
  BY <1>4, LedgerKeeps
<1>5. CASE Age \/ Surroundings
  BY <1>5, AgeKeeps, SurroundingsKeep
<1>6. CASE UNCHANGED depVars
  BY <1>6, StutterKeeps
<1>7. QED
  BY <1>1, <1>2, <1>3, <1>4, <1>5, <1>6 DEF Next, Settle, Surroundings

THEOREM Invariance == Spec => []IInv
BY InitInvariant, NextInvariant, PTL DEF Spec

-----------------------------------------------------------------------------
\* TypeOK: the rows, the attempts and the ledger keep their types and the bounds hold.
THEOREM TypeCorrect == Spec => []TypeOK
<1>1. IInv => TypeOK
  BY DEF IInv
<1>2. QED
  BY <1>1, Invariance, PTL

\* PublishedIsDeployed: what the owner hears of is a confirmed deployment with a campaign
\* that is the vault at the application's address.
THEOREM PublishedHolds == Spec => []PublishedIsDeployed
<1>1. IInv => PublishedIsDeployed
  BY DEF IInv
<1>2. QED
  BY <1>1, Invariance, PTL

-----------------------------------------------------------------------------
\* The steps that leave the row, or leave it in progress, write no outcome.
LEMMA NoOutcome ==
  ASSUME dep' = dep \/ (dep.state # "confirmed" /\ (dep.state = "deploying" => dep'.state = "deploying"))
  PROVE  OwnOutcome
BY DEF OwnOutcome

\* An outcome is written by the owner, which goes by the row's number.
LEMMA OutcomeByOwner ==
  ASSUME IInv, NEW p \in Attempts, Confirm(p) \/ MarkFailed(p)
  PROVE  OwnOutcome
<1>1. CASE dep' = dep
  BY <1>1, NoOutcome
<1>2. CASE dep' # dep
  <2>1. Owned(p) /\ attempt[p].pc \in {"confirm", "fail"}
    BY <1>2 DEF Confirm, MarkFailed
  <2>2. attempt[p].number = dep.attempts
    BY <2>1 DEF IInv, Numbered, Owned
  <2>3. attempt'[p].pc \in {"idle", "publish"}
    BY GotoSteps, EndsSteps DEF Confirm, MarkFailed, IInv, PCs
  <2>4. attempt'[p] # attempt[p]
    BY <2>1, <2>3
  <2>5. QED
    BY <2>1, <2>2, <2>4 DEF OwnOutcome, Owned
<1>3. QED
  BY <1>1, <1>2

LEMMA StepOwnOutcome == IInv /\ [Next]_depVars => [OwnOutcome]_depVars
<1> SUFFICES ASSUME IInv, Next PROVE OwnOutcome
  OBVIOUS
<1>1. ASSUME NEW p \in Attempts, MarkPending(p) PROVE OwnOutcome
  BY <1>1, NoOutcome DEF MarkPending
<1>2. ASSUME NEW p \in Attempts, Claim(p) PROVE OwnOutcome
  <2>1. CASE Claims(p) /\ dep'.state = "deploying"
    BY <2>1, NoOutcome DEF Claims, Reclaimable, Retrying
  <2>2. CASE UNCHANGED dep
    BY <2>2, NoOutcome
  <2>3. QED
    BY <1>2, <2>1, <2>2 DEF Claim
<1>3. ASSUME NEW p \in Attempts, Confirm(p) \/ MarkFailed(p) PROVE OwnOutcome
  BY <1>3, OutcomeByOwner
<1>4. CASE Age
  <2>1. dep'.state = dep.state
    BY <1>4 DEF Age, IInv, TypeOK, Deployment
  <2>2. QED
    BY <1>4, <2>1, NoOutcome DEF Age
<1>5. ASSUME NEW p \in Attempts,
             \/ ReadRow(p) \/ Resolve(p) \/ FindCampaign(p) \/ Probe(p) \/ CheckLimit(p)
             \/ Deploy(p) \/ Poll(p) \/ ReadBack(p) \/ Create(p) \/ Publish(p) \/ Check(p) \/ CallFails(p)
             \/ CreateUnanswered(p) \/ Crash(p) \/ \E c \in DirectCommands : Open(p, c)
      PROVE  OwnOutcome
  BY <1>5, NoOutcome
  DEF ReadRow, Resolve, FindCampaign, Probe, CheckLimit, Deploy, Poll, ReadBack, Create, Publish,
      Check, CallFails, CreateUnanswered, Crash, Open
<1>6. ASSUME NEW t \in flying, Land(t) \/ Refuse(t) \/ Expire(t) PROVE OwnOutcome
  BY <1>6, NoOutcome DEF Land, Refuse, Expire
<1>7. CASE Surroundings
  BY <1>7, NoOutcome DEF Surroundings, Tick, EndFunding, ChangeRate, StartConnecting, WriteKey
<1>8. QED
  BY <1>1, <1>2, <1>3, <1>4, <1>5, <1>6, <1>7 DEF Next, Advance, Settle, Surroundings

\* OutcomeIsTheOwners: a superseded attempt writes nothing, and a confirmed row is never
\* written again.
THEOREM OwnersOnly == Spec => OutcomeIsTheOwners
BY Invariance, StepOwnOutcome, PTL DEF Spec, OutcomeIsTheOwners

-----------------------------------------------------------------------------
(* Numbers and transactions. *)

\* An attempt goes by a number from its claim on; one that opens directly, by 0.
GoesByNumber(p) == attempt[p].number > 0 \/ attempt[p].pc \in Opening
BeforeDeploy == {"resolve", "find", "probe", "limit", "deploy"}
Sent == flying \cup {vault}

\* No number is beyond the row's, which only a claim raises.
NumbersGiven ==
  /\ \A p \in Attempts : attempt[p].number <= dep.attempts
  /\ \A t \in Sent : t.by <= dep.attempts

\* No two attempts go by one number, and no two transactions do, although beginAttempt is a
\* read and a later update, attempts die and are given up while their transactions are on the
\* way, and one may be opened directly besides.
OneToANumber ==
  /\ \A p, q \in Attempts :
       GoesByNumber(p) /\ GoesByNumber(q) /\ attempt[p].number = attempt[q].number => p = q
  /\ \A t, u \in Sent : t.by = u.by => t = u

\* A transaction under an attempt's number is the one it sent, with the terms it resolved.
OwnTerms(p, t) ==
  /\ attempt[p].pc \notin BeforeDeploy
  /\ t.sme = attempt[p].command.sme /\ t.goal = attempt[p].command.goal
  /\ t.deadline = attempt[p].command.deadline.second

OwnSent ==
  \A p \in Attempts : \A t \in Sent :
    GoesByNumber(p) /\ t.by = attempt[p].number => OwnTerms(p, t)

Numbers == NumbersGiven /\ OneToANumber /\ OwnSent

\* An attempt whose own transaction made the vault is never refused it, as long as the vault is
\* funding and the deadline asked for was a whole second's, as one from a duration is: if no call
\* fails the attempt goes on to the campaign, unless one is there already.  Of funding vaults and
\* whole deadlines matchesRequestedVault turns away those of other attempts only, whatever
\* happened to the terms and the clock since.
OwnTaken ==
  \A p \in Attempts :
    /\ attempt[p].pc \in Opening /\ vault.by = attempt[p].number
    /\ funding
    /\ attempt[p].command.adopts \/ ~attempt[p].command.deadline.fraction
    /\ UNCHANGED faults
    => attempt'[p].pc # "fail" \/ campaign # NoCampaign

OwnVaultIsTaken == [][OwnTaken]_depVars

\* A step that gives no number keeps them: one attempt goes on under its number, or ends.
LEMMA NumbersKept ==
  ASSUME IInv, Numbers, NEW p \in Attempts,
         \A q \in Attempts \ {p} : attempt'[q] = attempt[q],
         dep'.attempts = dep.attempts, Sent' \subseteq Sent,
         \/ attempt'[p] = attempt[p]
         \/ attempt'[p].number = 0 /\ attempt'[p].pc \notin Opening
         \/ /\ GoesByNumber(p)' => GoesByNumber(p)
            /\ attempt'[p].number = attempt[p].number
            /\ attempt'[p].command = attempt[p].command
            /\ attempt'[p].pc \in BeforeDeploy => attempt[p].pc \in BeforeDeploy
  PROVE  Numbers'
<1>1. \A q \in Attempts :
        GoesByNumber(q)' => GoesByNumber(q) /\ attempt'[q].number = attempt[q].number
  BY DEF GoesByNumber
<1>2. NumbersGiven'
  <2>1. dep.attempts \in Nat /\ 0 <= dep.attempts
    BY DEF IInv, TypeOK, Deployment
  <2>2. QED
    BY <2>1 DEF Numbers, NumbersGiven
<1>3. OneToANumber'
  BY <1>1 DEF Numbers, OneToANumber
<1>4. \A q \in Attempts, t \in Sent :
        GoesByNumber(q)' /\ OwnTerms(q, t) => OwnTerms(q, t)'
  BY DEF OwnTerms, GoesByNumber
<1>5. OwnSent'
  <2> SUFFICES ASSUME NEW q \in Attempts, NEW t \in Sent', GoesByNumber(q)',
                      t.by = attempt'[q].number
               PROVE  OwnTerms(q, t)'
    BY DEF OwnSent
  <2>1. t \in Sent /\ GoesByNumber(q) /\ t.by = attempt[q].number
    BY <1>1
  <2>2. OwnTerms(q, t)
    BY <2>1 DEF Numbers, OwnSent
  <2>3. QED
    BY <1>4, <2>1, <2>2
<1>6. QED
  BY <1>2, <1>3, <1>5 DEF Numbers

\* A number that nobody goes by and no transaction has goes to one attempt.
LEMMA NumberGiven ==
  ASSUME IInv, Numbers, NEW p \in Attempts, NEW n \in Nat,
         \A q \in Attempts \ {p} : attempt'[q] = attempt[q],
         attempt'[p].number = n, attempt'[p].pc \in {"resolve", "find", "fail"},
         dep'.attempts \in Nat, dep.attempts <= dep'.attempts, n <= dep'.attempts,
         UNCHANGED ledger,
         \A t \in Sent : t.by # n,
         \A q \in Attempts \ {p} : GoesByNumber(q) => attempt[q].number # n
  PROVE  Numbers'
<1>1. \A q \in Attempts \ {p} :
        GoesByNumber(q)' => GoesByNumber(q) /\ attempt'[q].number = attempt[q].number
  BY DEF GoesByNumber
<1>2. Sent' = Sent
  BY DEF Sent, ledger
<1>3. NumbersGiven'
  <2>1. /\ \A q \in Attempts : attempt[q].number \in Nat
        /\ \A t \in Sent : t.by \in Int
        /\ dep.attempts \in Nat
    BY DEF IInv, TypeOK, Deployment, Attempt, Sent, Vault, NoVault, NoAttempt
  <2>2. QED
    BY <1>2, <2>1 DEF Numbers, NumbersGiven
<1>4. OneToANumber'
  BY <1>1, <1>2 DEF Numbers, OneToANumber
<1>5. OwnSent'
  <2> SUFFICES ASSUME NEW q \in Attempts, NEW t \in Sent', GoesByNumber(q)',
                      t.by = attempt'[q].number
               PROVE  OwnTerms(q, t)'
    BY DEF OwnSent
  <2>1. t \in Sent /\ q # p
    BY <1>2
  <2>2. OwnTerms(q, t) /\ attempt'[q] = attempt[q]
    BY <1>1, <2>1 DEF Numbers, OwnSent
  <2>3. QED
    BY <2>2 DEF OwnTerms
<1>6. QED
  BY <1>3, <1>4, <1>5 DEF Numbers

\* A claim raises the row's number, so its own is new.
LEMMA ClaimNumbers == ASSUME IInv, Numbers, NEW p \in Attempts, Claim(p) PROVE Numbers'
<1> DEFINE n == attempt[p].read + 1
           a == [Idle EXCEPT !.pc = "resolve", !.now = attempt[p].now, !.number = n]
<1>1. TypeOK /\ UNCHANGED ledger
  BY DEF IInv, Claim
<1>2. CASE /\ Claims(p) /\ attempt' = [attempt EXCEPT ![p] = a]
           /\ dep' = [state |-> "deploying", attempts |-> n, owner |-> p, aged |-> FALSE]
  <2>1. n \in Nat /\ dep.attempts \in Nat /\ n = dep.attempts + 1 /\ dep'.attempts = n
    BY <1>1, <1>2 DEF Claims, TypeOK, Deployment
  <2>2. a.pc = "resolve" /\ a.number = n
    BY DEF Idle
  <2> HIDE DEF a, n
  <2>3. attempt'[p] = a /\ \A q \in Attempts \ {p} : attempt'[q] = attempt[q]
    BY <1>1, <1>2 DEF TypeOK
  <2>4. /\ \A q \in Attempts : attempt[q].number \in Nat
        /\ \A t \in Sent : t.by \in Int
    BY <1>1 DEF TypeOK, Attempt, Sent, Vault, NoVault, NoAttempt
  <2>5. /\ \A t \in Sent : t.by # n
        /\ \A q \in Attempts : attempt[q].number # n
    BY <2>1, <2>4 DEF Numbers, NumbersGiven
  <2>6. QED
    BY <1>1, <2>1, <2>2, <2>3, <2>5, NumberGiven
<1>3. CASE Ends(p) /\ UNCHANGED dep
  BY <1>1, <1>3, EndsSteps, NumbersKept DEF ledger, Sent, Opening
<1>4. QED
  BY <1>2, <1>3 DEF Claim

\* The campaign is opened directly once, so the number 0 is given once.
LEMMA OpenNumbers ==
  ASSUME IInv, Numbers, NEW p \in Attempts, NEW c \in DirectCommands, Open(p, c)
  PROVE  Numbers'
<1> DEFINE a == [Idle EXCEPT !.pc = "find", !.command = c]
<1>1. TypeOK /\ UNCHANGED ledger /\ UNCHANGED dep /\ attempt' = [attempt EXCEPT ![p] = a]
  BY DEF IInv, Open
<1>2. a.pc = "find" /\ a.number = 0
  BY DEF Idle
<1> HIDE DEF a
<1>3. attempt'[p] = a /\ \A q \in Attempts \ {p} : attempt'[q] = attempt[q]
  BY <1>1 DEF TypeOK
<1>4. dep'.attempts \in Nat /\ dep.attempts <= dep'.attempts /\ 0 <= dep'.attempts
  BY <1>1 DEF TypeOK, Deployment
<1>5. \A u \in Sent : u.by # 0
  BY <1>1 DEF Open, TypeOK, Sent
<1>6. \A q \in Attempts : GoesByNumber(q) => attempt[q].number # 0
  BY DEF Open, IInv, Informed, GoesByNumber
<1>7. QED
  BY <1>1, <1>2, <1>3, <1>4, <1>5, <1>6, NumberGiven

\* An attempt resolves its terms before it has sent anything.
LEMMA ResolveNumbers == ASSUME IInv, Numbers, NEW p \in Attempts, Resolve(p) PROVE Numbers'
<1>1. TypeOK /\ UNCHANGED ledger /\ UNCHANGED dep /\ attempt[p].pc = "resolve"
  BY DEF IInv, Resolve
<1>2. /\ attempt'[p].number = attempt[p].number /\ attempt'[p].pc \in {"find", "fail"}
      /\ \A q \in Attempts \ {p} : attempt'[q] = attempt[q]
  BY <1>1, Resolved
<1>3. attempt[p].number \in Nat /\ GoesByNumber(p)
  BY <1>1 DEF TypeOK, Attempt, IInv, Informed, GoesByNumber
<1>4. \A t \in Sent : t.by # attempt[p].number
  BY <1>1, <1>3 DEF Numbers, OwnSent, OwnTerms, BeforeDeploy
<1>5. \A q \in Attempts \ {p} : GoesByNumber(q) => attempt[q].number # attempt[p].number
  BY <1>3 DEF Numbers, OneToANumber
<1>6. dep'.attempts \in Nat /\ dep.attempts <= dep'.attempts /\ attempt[p].number <= dep'.attempts
  BY <1>1 DEF TypeOK, Deployment, Numbers, NumbersGiven
<1>7. QED
  BY <1>1, <1>2, <1>3, <1>4, <1>5, <1>6, NumberGiven

\* Nothing has been sent under an attempt's number when it deploys, and what it sends has its
\* terms.
LEMMA DeployNumbers == ASSUME IInv, Numbers, NEW p \in Attempts, Deploy(p) PROVE Numbers'
<1> DEFINE t == VaultOf(p)
<1>1. /\ TypeOK /\ attempt[p].pc = "deploy" /\ UNCHANGED <<dep, vault>>
      /\ flying' = flying \cup {t} /\ Goto(p, "poll")
  BY DEF IInv, Deploy
<1>2. /\ attempt'[p].number = attempt[p].number /\ attempt'[p].pc = "poll"
      /\ attempt'[p].command = attempt[p].command
      /\ \A q \in Attempts \ {p} : attempt'[q] = attempt[q]
  BY <1>1, GotoSteps DEF PCs, Opening
<1>3. GoesByNumber(p) /\ Sent' = Sent \cup {t}
  BY <1>1 DEF GoesByNumber, Opening, Sent
<1>4. /\ t.by = attempt[p].number /\ t.sme = attempt[p].command.sme
      /\ t.goal = attempt[p].command.goal /\ t.deadline = attempt[p].command.deadline.second
  BY DEF VaultOf
<1> HIDE DEF t
<1>5. \A u \in Sent : u.by # attempt[p].number
  BY <1>1, <1>3 DEF Numbers, OwnSent, OwnTerms, BeforeDeploy
<1>6. \A q \in Attempts : GoesByNumber(q)' <=> GoesByNumber(q)
  BY <1>1, <1>2 DEF GoesByNumber, Opening
<1>7. \A q \in Attempts : attempt'[q].number = attempt[q].number
  BY <1>2
<1>8. NumbersGiven'
  BY <1>1, <1>3, <1>4, <1>7 DEF Numbers, NumbersGiven
<1>9. OneToANumber'
  BY <1>3, <1>4, <1>5, <1>6, <1>7 DEF Numbers, OneToANumber
<1>10. OwnSent'
  <2> SUFFICES ASSUME NEW q \in Attempts, NEW u \in Sent', GoesByNumber(q)',
                      u.by = attempt'[q].number
               PROVE  OwnTerms(q, u)'
    BY DEF OwnSent
  <2>1. CASE u = t
    <3>1. q = p
      BY <1>3, <1>4, <1>6, <1>7, <2>1 DEF Numbers, OneToANumber
    <3>2. QED
      BY <1>2, <1>4, <2>1, <3>1 DEF OwnTerms, BeforeDeploy
  <2>2. CASE u # t
    <3>1. u \in Sent /\ GoesByNumber(q) /\ u.by = attempt[q].number
      BY <1>3, <1>6, <1>7, <2>2
    <3>2. q # p /\ OwnTerms(q, u)
      BY <1>5, <3>1 DEF Numbers, OwnSent
    <3>3. QED
      BY <1>2, <3>2 DEF OwnTerms
  <2>3. QED
    BY <2>1, <2>2
<1>11. QED
  BY <1>8, <1>9, <1>10 DEF Numbers

LEMMA NumbersStay == IInv /\ Numbers /\ [Next]_depVars => Numbers'
<1> SUFFICES ASSUME IInv, Numbers, [Next]_depVars PROVE Numbers'
  OBVIOUS
<1>1. TypeOK
  BY DEF IInv
<1>2. ASSUME NEW p \in Attempts, NEW pc \in PCs \ BeforeDeploy, Goto(p, pc), UNCHANGED ledger,
             dep'.attempts = dep.attempts, pc \in Opening => attempt[p].pc \in Opening
      PROVE  Numbers'
  BY <1>1, <1>2, GotoSteps, NumbersKept DEF GoesByNumber, ledger, Sent
<1>3. ASSUME NEW p \in Attempts, Ends(p), UNCHANGED ledger, dep'.attempts = dep.attempts
      PROVE  Numbers'
  BY <1>1, <1>3, EndsSteps, NumbersKept DEF ledger, Sent, Opening
<1>4. ASSUME NEW p \in Attempts, MarkPending(p) PROVE Numbers'
  <2>1. dep'.attempts = dep.attempts
    BY <1>1, <1>4 DEF MarkPending, TypeOK, Deployment
  <2>2. QED
    BY <1>2, <1>4, <2>1 DEF MarkPending, PCs, BeforeDeploy, Opening
<1>5. ASSUME NEW p \in Attempts, Check(p) \/ ReadRow(p) PROVE Numbers'
  <2>1. UNCHANGED <<dep, ledger>>
    BY <1>5 DEF Check, ReadRow
  <2>2. CASE Check(p)
    <3> DEFINE a == [Idle EXCEPT !.pc = "pending", !.now = clock,
                       !.stale = IF dep.state = "deploying" THEN dep.attempts ELSE NoAttempt]
    <3>1. attempt' = [attempt EXCEPT ![p] = a] /\ a.pc = "pending" /\ a.number = 0
      BY <2>2 DEF Check, Idle
    <3> HIDE DEF a
    <3>2. attempt'[p] = a /\ \A q \in Attempts \ {p} : attempt'[q] = attempt[q]
      BY <1>1, <3>1 DEF TypeOK
    <3>3. QED
      BY <2>1, <3>1, <3>2, NumbersKept DEF ledger, Sent, Opening
  <2>3. CASE ReadRow(p) /\ ~Ends(p)
    <3> DEFINE r == Reclaimable(p)
               a == [attempt[p] EXCEPT !.pc = "claim", !.read = dep.attempts, !.reclaim = r]
    <3>1. attempt' = [attempt EXCEPT ![p] = a]
      BY <2>3 DEF ReadRow, Ends
    <3> HIDE DEF r
    <3>2. a.pc = "claim" /\ a.number = attempt[p].number /\ a.command = attempt[p].command
      BY <1>1 DEF TypeOK, Attempt
    <3> HIDE DEF a
    <3>3. attempt'[p] = a /\ \A q \in Attempts \ {p} : attempt'[q] = attempt[q]
      BY <1>1, <3>1 DEF TypeOK
    <3>4. GoesByNumber(p)' => GoesByNumber(p)
      BY <3>2, <3>3 DEF GoesByNumber, Opening
    <3>5. attempt'[p].pc \notin BeforeDeploy
      BY <3>2, <3>3 DEF BeforeDeploy
    <3>6. QED
      BY <2>1, <3>2, <3>3, <3>4, <3>5, NumbersKept DEF ledger, Sent
  <2>4. QED
    BY <1>3, <1>5, <2>1, <2>2, <2>3
<1>6. ASSUME NEW p \in Attempts, Claim(p) \/ Resolve(p) \/ Deploy(p) \/ \E c \in DirectCommands : Open(p, c)
      PROVE  Numbers'
  BY <1>6, ClaimNumbers, ResolveNumbers, DeployNumbers, OpenNumbers
<1>7. ASSUME NEW p \in Attempts, FindCampaign(p) \/ Probe(p) \/ CheckLimit(p) PROVE Numbers'
  <2>1. attempt[p].pc \in {"find", "probe", "limit"} /\ UNCHANGED <<dep, ledger>>
    BY <1>7 DEF FindCampaign, Probe, CheckLimit
  <2>2. /\ \A q \in Attempts \ {p} : attempt'[q] = attempt[q]
        /\ attempt'[p].command = attempt[p].command /\ attempt'[p].number = attempt[p].number
    <3>1. CASE Probe(p)
      BY <1>1, <3>1, Probed
    <3>2. CASE FindCampaign(p) \/ CheckLimit(p)
      <4>1. PICK pc \in {"probe", "confirm", "deploy", "fail"} : Goto(p, pc)
        BY <3>2 DEF FindCampaign, CheckLimit
      <4>2. QED
        BY <1>1, <4>1, GotoSteps DEF PCs, Opening
    <3>3. QED
      BY <1>7, <3>1, <3>2
  <2>3. GoesByNumber(p)
    BY <2>1 DEF GoesByNumber, Opening
  <2>4. QED
    BY <2>1, <2>2, <2>3, NumbersKept DEF ledger, Sent, BeforeDeploy
<1>8. ASSUME NEW p \in Attempts,
             \/ Poll(p) \/ ReadBack(p) \/ Create(p) \/ CreateUnanswered(p) \/ CallFails(p)
      PROVE  Numbers'
  <2>1. PICK pc \in {"readback", "create", "confirm", "fail"} : Goto(p, pc)
    BY <1>8 DEF Poll, ReadBack, Create, CreateUnanswered, CallFails
  <2>2. UNCHANGED <<dep, ledger>> /\ attempt[p].pc \in {"resolve"} \cup Opening
    BY <1>8 DEF Poll, ReadBack, Create, CreateUnanswered, CallFails, Opening
  <2>3. pc \in Opening => attempt[p].pc \in Opening
    BY <1>8, <2>1, <1>1, GotoSteps
    DEF Poll, ReadBack, Create, CreateUnanswered, CallFails, Opening, PCs
  <2>4. QED
    BY <1>2, <2>1, <2>2, <2>3 DEF PCs, BeforeDeploy, Opening
<1>9. ASSUME NEW p \in Attempts, Confirm(p) \/ Publish(p) \/ MarkFailed(p) \/ Crash(p)
      PROVE  Numbers'
  <2>1. UNCHANGED ledger /\ (Goto(p, "publish") \/ Ends(p))
    BY <1>9 DEF Confirm, Publish, MarkFailed, Crash
  <2>2. dep'.attempts = dep.attempts
    BY <1>1, <1>9 DEF Confirm, Publish, MarkFailed, Crash, TypeOK, Deployment
  <2>3. QED
    BY <1>2, <1>3, <2>1, <2>2 DEF PCs, BeforeDeploy, Opening
<1>10. ASSUME NEW p \in Attempts, UNCHANGED <<attempt, dep>>, Sent' \subseteq Sent PROVE Numbers'
  BY <1>10, NumbersKept
<1>11. ASSUME UNCHANGED attempt, dep'.attempts = dep.attempts, Sent' \subseteq Sent PROVE Numbers'
  <2>1. CASE Attempts = {}
    BY <1>11, <2>1 DEF Numbers, NumbersGiven, OneToANumber, OwnSent
  <2>2. CASE Attempts # {}
    BY <1>11, <2>2, NumbersKept
  <2>3. QED
    BY <2>1, <2>2
<1>12. ASSUME NEW t \in flying, Land(t) \/ Refuse(t) \/ Expire(t) PROVE Numbers'
  BY <1>11, <1>12 DEF Land, Refuse, Expire, Sent
<1>13. CASE Age \/ Surroundings \/ UNCHANGED depVars
  <2>1. UNCHANGED attempt /\ UNCHANGED <<vault, flying>> /\ dep'.attempts = dep.attempts
    BY <1>1, <1>13 DEF Age, Surroundings, Tick, EndFunding, ChangeRate, StartConnecting, WriteKey,
                       depVars, ledger, TypeOK, Deployment
  <2>2. QED
    BY <1>11, <2>1 DEF Sent
<1>14. QED
  BY <1>4, <1>5, <1>6, <1>7, <1>8, <1>9, <1>12, <1>13 DEF Next, Advance, Settle, Surroundings

LEMMA NumbersHold == Spec => [](IInv /\ Numbers)
<1>1. Init => Numbers
  BY DEF Init, Numbers, NumbersGiven, OneToANumber, OwnSent, GoesByNumber, Sent, Idle, Opening,
         NoVault, NoAttempt
<1>2. QED
  BY <1>1, NumbersStay, Invariance, PTL DEF Spec

\* OneToANumber, for any number of attempts, faults and changes.
THEOREM EachNumberIsOnes == Spec => []OneToANumber
BY NumbersHold, PTL DEF Numbers

\* Only the attempt's own steps fail it; those that do have found another's vault, or a campaign.
LEMMA OwnStepTakes == IInv /\ Numbers /\ [Next]_depVars => [OwnTaken]_depVars
<1> SUFFICES ASSUME IInv, Numbers, Next, NEW p \in Attempts, attempt[p].pc \in Opening,
                    vault.by = attempt[p].number, funding, UNCHANGED faults,
                    attempt[p].command.adopts \/ ~attempt[p].command.deadline.fraction,
                    attempt'[p].pc = "fail"
             PROVE  campaign # NoCampaign
  BY DEF OwnTaken
<1>1. OwnTerms(p, vault) /\ TypeOK /\ attempt[p].number \in Nat
  BY DEF Numbers, OwnSent, GoesByNumber, Sent, IInv, TypeOK, Attempt
<1>2. attempt[p].pc \notin {"find", "probe", "limit", "deploy"}
  BY <1>1 DEF OwnTerms, BeforeDeploy
<1>3. attempt[p].command.deadline = Whole(vault.deadline)
  <2>1. attempt[p].command.deadline \in Moment /\ ~attempt[p].command.deadline.fraction
    BY DEF IInv, Informed, Command
  <2>2. attempt[p].command.deadline.second = vault.deadline
    BY <1>1 DEF OwnTerms
  <2>3. QED
    BY <2>1, <2>2 DEF Moment, Whole
<1>4. Matches(p)
  BY <1>1, <1>3 DEF OwnTerms, Matches
<1>5. attempt'[p] # attempt[p] /\ ~Fault
  BY <1>1 DEF Fault, Opening, TypeOK
<1>6. PICK q \in Attempts :
        Check(q) \/ (\E c \in DirectCommands : Open(q, c)) \/ Advance(q)
  BY <1>5 DEF Next, Settle, Land, Refuse, Expire, Age, Tick, EndFunding, ChangeRate, StartConnecting,
              WriteKey, CallFails, CreateUnanswered, Crash
<1>7. q = p
  BY <1>1, <1>5, <1>6
  DEF Check, Open, Advance, MarkPending, ReadRow, Claim, Resolve, FindCampaign, Probe,
      CheckLimit, Deploy, Poll, ReadBack, Create, Confirm, Publish, MarkFailed, Goto, Ends, TypeOK
<1>8. Poll(p) \/ ReadBack(p) \/ Create(p)
  BY <1>2, <1>6, <1>7
  DEF Check, Open, Advance, MarkPending, ReadRow, Claim, Resolve, FindCampaign, Probe,
      CheckLimit, Deploy, Confirm, Publish, MarkFailed, Opening
<1>9. CASE Poll(p) \/ ReadBack(p)
  <2>1. PICK pc \in {"readback", "create"} : Goto(p, pc)
    BY <1>4, <1>9 DEF Poll, ReadBack
  <2>2. QED
    BY <1>1, <2>1, GotoSteps DEF PCs, Opening
<1>10. CASE Create(p)
  <2>1. CASE Goto(p, "confirm")
    BY <1>1, <2>1, GotoSteps DEF PCs
  <2>2. QED
    BY <1>10, <2>1 DEF Create
<1>11. QED
  BY <1>8, <1>9, <1>10

\* OwnVaultIsTaken, under the same conditions.
THEOREM OwnVaultAccepted == Spec => OwnVaultIsTaken
BY NumbersHold, OwnStepTakes, PTL DEF Spec, OwnVaultIsTaken
=============================================================================
