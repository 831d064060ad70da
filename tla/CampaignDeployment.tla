------------------------- MODULE CampaignDeployment -------------------------
(***************************************************************************)
(* How one approved application gets its vault                             *)
(* (deploy-approved-campaign.ts, open-campaign.ts).  An attempt claims the *)
(* application's row, resolves the terms, and opens the campaign: it finds *)
(* the campaign in the mirror, or the vault on the ledger, or deploys it,  *)
(* and writes the mirror.  Attempts overlap: an approval and an admin's    *)
(* retries start them, and one whose row has not been touched for ten      *)
(* minutes is taken to be dead.  Every await ends a step; between two the  *)
(* process may die, a call may fail, the terms may change, time may pass   *)
(* and the vault may be funded.                                            *)
(***************************************************************************)
EXTENDS Integers, FiniteSets

CONSTANTS
  Attempts,        \* the requests that may run an attempt at the same time
  Keys, Goals,     \* the SME's public keys; its goal in stroops at each rate
  InitialTerms,    \* the terms the application may have at first
  DirectCommands,  \* what POST /campaigns may be asked for
  NoKey,           \* no key: also for a vault or a campaign that do not exist
  MaxAttempts,     \* bound: nobody retries after this many
  MaxFaults,       \* bound on crashes, failing calls, lost and slow ones together
  MaxChanges       \* bound on changes of the terms, direct openings, ticks of the clock
                   \* and vaults that end their funding, together

\* A deadline: its whole second, and whether it has milliseconds besides.
Moment == [second : Nat, fraction : BOOLEAN]
Whole(s) == [second |-> s, fraction |-> FALSE]
NoDeadline == Whole(0)

\* What an attempt finds when it resolves the terms: the owner's key; the goal at the current
\* rate, or NoGoal without a usable rate or above the limit; and, which never change, the
\* campaign's duration or else the deadline persisted before there were durations.
NoGoal == 0
Terms == [sme : Keys \cup {NoKey}, goal : Goals \cup {NoGoal}, duration : Nat, deadline : Moment]

\* What openCampaign is asked for; adopts is its adoptDeployedDeadline.
Command == [sme : Keys, goal : Goals, deadline : Moment, adopts : BOOLEAN]
NoCommand == [sme |-> NoKey, goal |-> NoGoal, deadline |-> NoDeadline, adopts |-> FALSE]

ASSUME DeploymentAssumption ==
  /\ NoKey \notin Keys
  /\ Goals \subseteq Nat \ {NoGoal}
  /\ InitialTerms \subseteq Terms
  /\ DirectCommands \subseteq {c \in Command : ~c.adopts}
  /\ MaxAttempts \in Nat /\ MaxFaults \in Nat /\ MaxChanges \in Nat

VARIABLES
  dep,          \* the application's campaign_deployment row
  attempt,      \* what each request knows and where it is
  vault,        \* the contract at the application's address, by which attempt
  funding,      \* whether that contract's state is funding
  flying,       \* deploy transactions sent and not yet in a ledger
  campaign,     \* the mirror's campaign row
  terms,        \* what resolving the terms finds now
  connecting,   \* whether a wallet request has found the key unfrozen
  published,    \* whether the owner was notified
  opened,       \* bound: POST /campaigns is called once for the application
  clock,        \* the time in whole seconds
  faults, changes

ledger == <<vault, funding, flying>>
current == <<terms, connecting, changes, opened, clock>>
depVars == <<dep, attempt, ledger, campaign, current, published, faults>>

NoAttempt == -1

Vault == [sme : Keys, goal : Goals, deadline : Nat, by : Nat]
NoVault == [sme |-> NoKey, goal |-> NoGoal, deadline |-> 0, by |-> NoAttempt]

Campaign == [sme : Keys, goal : Goals, deadline : Moment]
NoCampaign == [sme |-> NoKey, goal |-> NoGoal, deadline |-> NoDeadline]

Idle == [pc |-> "idle", stale |-> NoAttempt, read |-> NoAttempt, reclaim |-> FALSE,
         number |-> 0, now |-> 0, command |-> NoCommand, adopting |-> FALSE]

Init ==
  /\ dep = [state |-> "none", attempts |-> 0, owner |-> NoAttempt, aged |-> FALSE]
  /\ attempt = [p \in Attempts |-> Idle]
  /\ vault = NoVault
  /\ funding = FALSE
  /\ flying = {}
  /\ campaign = NoCampaign
  /\ terms \in InitialTerms
  /\ connecting = FALSE
  /\ published = FALSE
  /\ opened = FALSE
  /\ clock = 0
  /\ faults = 0
  /\ changes = 0

\* Where an attempt opens the campaign.
Opening == {"find", "probe", "limit", "deploy", "poll", "readback", "create"}

Goto(p, pc) == attempt' = [attempt EXCEPT ![p].pc = pc]
Ends(p) == attempt' = [attempt EXCEPT ![p] = Idle]
Fault == faults < MaxFaults /\ faults' = faults + 1

-----------------------------------------------------------------------------
(* An attempt takes the row. *)

\* A slip: a row that is being deployed is left alone, however old.
NeverTakenForDead == dep.state # "deploying"

\* A recent attempt still owns the row: deployment_in_progress.
MayBegin == dep.state = "deploying" => dep.aged

\* findByApplicationId: a confirmed deployment is returned as it is, a recent one is in
\* progress.  The moment is taken here: only the attempt found stale now may be reclaimed,
\* and a duration counts from now.
Check(p) ==
  /\ attempt[p].pc = "idle"
  /\ dep.attempts < MaxAttempts
  /\ dep.state # "confirmed"
  /\ MayBegin
  /\ attempt' = [attempt EXCEPT ![p] = [Idle EXCEPT
       !.pc = "pending", !.now = clock,
       !.stale = IF dep.state = "deploying" THEN dep.attempts ELSE NoAttempt]]
  /\ UNCHANGED <<dep, ledger, campaign, current, published, faults>>

\* markPending: an insert, or the row that is there.
MarkPending(p) ==
  /\ attempt[p].pc = "pending"
  /\ dep' = IF dep.state = "none" THEN [dep EXCEPT !.state = "pending"] ELSE dep
  /\ Goto(p, "begin")
  /\ UNCHANGED <<ledger, campaign, current, published, faults>>

Retrying == dep.state \in {"pending", "failed"}

\* updated_at is before the cutoff: nothing was written since the row was found stale.
Reclaimable(p) == dep.state = "deploying" /\ dep.attempts = attempt[p].stale

\* beginAttempt reads the row; one that is neither is another attempt's.
ReadRow(p) ==
  /\ attempt[p].pc = "begin"
  /\ attempt' = [attempt EXCEPT ![p] =
       IF Retrying \/ Reclaimable(p)
       THEN [@ EXCEPT !.pc = "claim", !.read = dep.attempts, !.reclaim = Reclaimable(p)]
       ELSE Idle]
  /\ UNCHANGED <<dep, ledger, campaign, current, published, faults>>

\* The condition of beginAttempt's update.
Claims(p) ==
  /\ dep.attempts = attempt[p].read
  /\ IF attempt[p].reclaim THEN Reclaimable(p) ELSE Retrying

\* A slip: the attempt goes by the number it read.
ClaimUnnumbered(p) ==
  /\ attempt[p].pc = "claim"
  /\ Claims(p)
  /\ dep' = [state |-> "deploying", attempts |-> attempt[p].read + 1, owner |-> p, aged |-> FALSE]
  /\ attempt' = [attempt EXCEPT ![p] =
       [Idle EXCEPT !.pc = "resolve", !.now = attempt[p].now, !.number = attempt[p].read]]
  /\ UNCHANGED <<ledger, campaign, current, published, faults>>

\* beginAttempt's update, which makes the attempt the row's owner by its correlation id.
Claim(p) ==
  /\ attempt[p].pc = "claim"
  /\ IF Claims(p)
     THEN /\ dep' = [state |-> "deploying", attempts |-> attempt[p].read + 1,
                     owner |-> p, aged |-> FALSE]
          /\ attempt' = [attempt EXCEPT ![p] =
               [Idle EXCEPT !.pc = "resolve", !.now = attempt[p].now, !.number = attempt[p].read + 1]]
     ELSE Ends(p) /\ UNCHANGED dep
  /\ UNCHANGED <<ledger, campaign, current, published, faults>>

-----------------------------------------------------------------------------
(* An attempt opens the campaign. *)

\* POST /campaigns opens it too, with terms of the caller's and without the row.  Its
\* transaction goes by the number 0.
Open(p, c) ==
  /\ attempt[p].pc = "idle"
  /\ ~opened /\ changes < MaxChanges
  /\ opened' = TRUE
  /\ changes' = changes + 1
  /\ attempt' = [attempt EXCEPT ![p] = [Idle EXCEPT !.pc = "find", !.command = c]]
  /\ UNCHANGED <<dep, ledger, campaign, terms, connecting, clock, published, faults>>

\* Otherwise terms_unavailable, wallet_required, rate_unavailable or goal_limit_exceeded.
TermsComplete ==
  /\ terms.duration > 0 \/ terms.deadline # NoDeadline
  /\ terms.sme # NoKey
  /\ terms.goal # NoGoal

\* resolveDeadline: a duration counts from the whole second of the attempt's moment.
DeadlineFrom(now) ==
  IF terms.duration > 0 THEN Whole(now + terms.duration) ELSE terms.deadline

\* Only a deadline that moves with every attempt gives way to the one on the ledger.
CommandFrom(now) ==
  [sme |-> terms.sme, goal |-> terms.goal, deadline |-> DeadlineFrom(now),
   adopts |-> terms.duration > 0]

Resolve(p) ==
  /\ attempt[p].pc = "resolve"
  /\ attempt' = [attempt EXCEPT ![p] =
       [Idle EXCEPT !.number = attempt[p].number,
                    !.pc = IF TermsComplete THEN "find" ELSE "fail",
                    !.command = IF TermsComplete THEN CommandFrom(attempt[p].now) ELSE NoCommand]]
  /\ UNCHANGED <<dep, ledger, campaign, current, published, faults>>

\* openCampaign: a campaign in the mirror is returned as it is.
FindCampaign(p) ==
  /\ attempt[p].pc = "find"
  /\ Goto(p, IF campaign = NoCampaign THEN "probe" ELSE "confirm")
  /\ UNCHANGED <<dep, ledger, campaign, current, published, faults>>

\* The chain is probed before a deploy: a vault that is there is adopted.
Probe(p) ==
  /\ attempt[p].pc = "probe"
  /\ attempt' = [attempt EXCEPT ![p].pc = IF vault = NoVault THEN "limit" ELSE "readback",
                                ![p].adopting = (vault # NoVault)]
  /\ UNCHANGED <<dep, ledger, campaign, current, published, faults>>

\* The goal is checked against the rate of now; one of another rate may be above its limit.
CheckLimit(p) ==
  /\ attempt[p].pc = "limit"
  /\ \/ Goto(p, "deploy")
     \/ terms.goal # attempt[p].command.goal /\ Goto(p, "fail")
  /\ UNCHANGED <<dep, ledger, campaign, current, published, faults>>

\* What a deploy makes: the ledger has the deadline's whole second (toDeadlineSeconds).
VaultOf(p) ==
  [sme |-> attempt[p].command.sme, goal |-> attempt[p].command.goal,
   deadline |-> attempt[p].command.deadline.second, by |-> attempt[p].number]

\* factory.deploy: prepared, signed and sent.
Deploy(p) ==
  /\ attempt[p].pc = "deploy"
  /\ flying' = flying \cup {VaultOf(p)}
  /\ Goto(p, "poll")
  /\ UNCHANGED <<dep, vault, funding, campaign, current, published, faults>>

InFlight(p) == \E t \in flying : t.by = attempt[p].number

\* factory.deploy polls until its own transaction has an outcome.
Poll(p) ==
  /\ attempt[p].pc = "poll"
  /\ ~InFlight(p)
  /\ Goto(p, IF vault.by = attempt[p].number THEN "readback" ELSE "fail")
  /\ UNCHANGED <<dep, ledger, campaign, current, published, faults>>

\* A slip: whatever vault is found is adopted.
MatchesAny(p) == vault # NoVault

\* acceptOnChainDeadline.
AcceptsDeadline(p) == attempt[p].adopting /\ attempt[p].command.adopts

\* matchesRequestedVault.
Matches(p) ==
  /\ funding
  /\ vault.goal = attempt[p].command.goal
  /\ vault.sme = attempt[p].command.sme
  /\ AcceptsDeadline(p) \/ attempt[p].command.deadline = Whole(vault.deadline)

ReadBack(p) ==
  /\ attempt[p].pc = "readback"
  /\ Goto(p, IF Matches(p) THEN "create" ELSE "fail")
  /\ UNCHANGED <<dep, ledger, campaign, current, published, faults>>

\* The row written: the key and the deadline that were asked for, the goal the chain
\* reports, and its deadline where that is accepted.
NewCampaign(p) ==
  [sme |-> attempt[p].command.sme, goal |-> vault.goal,
   deadline |-> IF AcceptsDeadline(p) THEN Whole(vault.deadline) ELSE attempt[p].command.deadline]

\* campaigns.create: the contract's address is unique in the mirror.
Create(p) ==
  /\ attempt[p].pc = "create"
  /\ IF campaign = NoCampaign
     THEN campaign' = NewCampaign(p) /\ Goto(p, "confirm")
     ELSE Goto(p, "fail") /\ UNCHANGED campaign
  /\ UNCHANGED <<dep, ledger, current, published, faults>>

-----------------------------------------------------------------------------
(* An attempt ends. *)

\* A slip: the write does not ask whose attempt the row records.
OwnedByAny(p) == dep.state = "deploying" /\ attempt[p].number > 0

\* The condition of mark: still deploying, under this attempt's correlation id; what was
\* opened directly has no row to mark.
Owned(p) == dep.state = "deploying" /\ dep.owner = p /\ attempt[p].number > 0

\* markConfirmed; an attempt that was superseded reports what the row says.
Confirm(p) ==
  /\ attempt[p].pc = "confirm"
  /\ IF Owned(p)
     THEN dep' = [dep EXCEPT !.state = "confirmed", !.aged = FALSE] /\ Goto(p, "publish")
     ELSE Ends(p) /\ UNCHANGED dep
  /\ UNCHANGED <<ledger, campaign, current, published, faults>>

\* publishApproved.
Publish(p) ==
  /\ attempt[p].pc = "publish"
  /\ published' = TRUE
  /\ Ends(p)
  /\ UNCHANGED <<dep, ledger, campaign, current, faults>>

\* fail: markFailed.
MarkFailed(p) ==
  /\ attempt[p].pc = "fail"
  /\ dep' = IF Owned(p) THEN [dep EXCEPT !.state = "failed", !.aged = FALSE] ELSE dep
  /\ Ends(p)
  /\ UNCHANGED <<ledger, campaign, current, published, faults>>

\* A call the attempt makes fails, or a poll gives up; the transaction may still land.
CallFails(p) ==
  /\ attempt[p].pc \in {"resolve"} \cup Opening
  /\ Fault
  /\ Goto(p, "fail")
  /\ UNCHANGED <<dep, ledger, campaign, current, published>>

\* The mirror's row is written and the answer is lost.
CreateUnanswered(p) ==
  /\ attempt[p].pc = "create"
  /\ campaign = NoCampaign
  /\ Fault
  /\ campaign' = NewCampaign(p)
  /\ Goto(p, "fail")
  /\ UNCHANGED <<dep, ledger, current, published>>

\* The process dies, or a write of the row fails, which ends the attempt as well.
Crash(p) ==
  /\ attempt[p].pc # "idle"
  /\ Fault
  /\ Ends(p)
  /\ UNCHANGED <<dep, ledger, campaign, current, published>>

-----------------------------------------------------------------------------
(* The ledger, time, and the terms. *)

\* The factory: one vault per salt, and the application's salt never changes.  The vault's
\* constructor refuses a deadline that has passed.
Deployable(t) == vault = NoVault /\ t.deadline > clock

Land(t) ==
  /\ Deployable(t)
  /\ vault' = t
  /\ funding' = TRUE
  /\ flying' = flying \ {t}
  /\ UNCHANGED <<dep, attempt, campaign, current, published, faults>>

\* The address is taken, or it is too late: the deploy fails.
Refuse(t) ==
  /\ ~Deployable(t)
  /\ flying' = flying \ {t}
  /\ UNCHANGED <<dep, attempt, vault, funding, campaign, current, published, faults>>

\* The transaction is dropped, or its time is over.
Expire(t) ==
  /\ vault = NoVault
  /\ Fault
  /\ flying' = flying \ {t}
  /\ UNCHANGED <<dep, attempt, vault, funding, campaign, current, published>>

Running(n) == \E p \in Attempts : attempt[p].number = n

\* Ten minutes pass without a write of the row; it counts as a fault while its attempt
\* is still running.
Age ==
  /\ dep.state = "deploying" /\ ~dep.aged
  /\ dep' = [dep EXCEPT !.aged = TRUE]
  /\ IF Running(dep.attempts) THEN Fault ELSE UNCHANGED faults
  /\ UNCHANGED <<attempt, ledger, campaign, current, published>>

\* The clock ticks.
Tick ==
  /\ changes < MaxChanges
  /\ clock' = clock + 1
  /\ changes' = changes + 1
  /\ UNCHANGED <<dep, attempt, ledger, campaign, terms, connecting, opened, published, faults>>

\* Investors find the vault on the ledger: it is settled, or begins to refund.
EndFunding ==
  /\ changes < MaxChanges
  /\ funding
  /\ funding' = FALSE
  /\ changes' = changes + 1
  /\ UNCHANGED <<dep, attempt, vault, flying, campaign, terms, connecting, opened, clock, published, faults>>

\* The rate table gets a new version, or has none that is usable.
ChangeRate ==
  /\ changes < MaxChanges
  /\ \E g \in (Goals \cup {NoGoal}) \ {terms.goal} : terms' = [terms EXCEPT !.goal = g]
  /\ changes' = changes + 1
  /\ UNCHANGED <<dep, attempt, ledger, campaign, connecting, opened, clock, published, faults>>

\* connectWallet: isFrozen looks for a campaign of the owner's.
StartConnecting ==
  /\ changes < MaxChanges
  /\ ~connecting
  /\ campaign = NoCampaign
  /\ connecting' = TRUE
  /\ changes' = changes + 1
  /\ UNCHANGED <<dep, attempt, ledger, campaign, terms, opened, clock, published, faults>>

\* connectWallet: writePublicKey, two calls later.
WriteKey ==
  /\ connecting
  /\ \E k \in Keys : terms' = [terms EXCEPT !.sme = k]
  /\ connecting' = FALSE
  /\ UNCHANGED <<dep, attempt, ledger, campaign, changes, opened, clock, published, faults>>

-----------------------------------------------------------------------------
Advance(p) ==
  \/ MarkPending(p) \/ ReadRow(p) \/ Claim(p)
  \/ Resolve(p) \/ FindCampaign(p) \/ Probe(p) \/ CheckLimit(p) \/ Deploy(p) \/ Poll(p)
  \/ ReadBack(p) \/ Create(p)
  \/ Confirm(p) \/ Publish(p) \/ MarkFailed(p)

Settle == \E t \in flying : Land(t) \/ Refuse(t)

Next ==
  \/ \E p \in Attempts :
       \/ Check(p) \/ \E c \in DirectCommands : Open(p, c)
       \/ Advance(p) \/ CallFails(p) \/ CreateUnanswered(p) \/ Crash(p)
  \/ Settle \/ (\E t \in flying : Expire(t)) \/ Age
  \/ Tick \/ EndFunding \/ ChangeRate \/ StartConnecting \/ WriteKey

Spec == Init /\ [][Next]_depVars

\* Attempts go on, somebody retries, ledgers close and a dead attempt is found out.
FairSpec ==
  /\ Spec
  /\ \A p \in Attempts : WF_depVars(Advance(p))
  /\ WF_depVars(\E p \in Attempts : Check(p))
  /\ WF_depVars(Settle)
  /\ WF_depVars(Age)

-----------------------------------------------------------------------------
(* Properties. *)

Deployment ==
  [state : {"none", "pending", "deploying", "confirmed", "failed"}, attempts : Nat,
   owner : Attempts \cup {NoAttempt}, aged : BOOLEAN]

Attempt ==
  [pc : {"idle", "pending", "begin", "claim", "resolve", "confirm", "publish", "fail"} \cup Opening,
   stale : Nat \cup {NoAttempt}, read : Nat \cup {NoAttempt}, reclaim : BOOLEAN,
   number : Nat, now : Nat, command : Command \cup {NoCommand}, adopting : BOOLEAN]

TypeOK ==
  /\ dep \in Deployment
  /\ attempt \in [Attempts -> Attempt]
  /\ vault \in Vault \cup {NoVault}
  /\ flying \subseteq Vault
  /\ funding \in BOOLEAN
  /\ opened \in BOOLEAN /\ \A t \in flying \cup {vault} : t.by = 0 => opened
  /\ campaign \in Campaign \cup {NoCampaign}
  /\ terms \in Terms
  /\ connecting \in BOOLEAN /\ published \in BOOLEAN
  /\ clock \in Nat
  /\ faults \in 0..MaxFaults /\ changes \in 0..MaxChanges

\* What is published is deployed: the owner hears of a confirmed deployment, that has a
\* campaign, that is the vault at the application's address, with the goal, the SME and the
\* deadline the ledger has, whoever deployed it and whatever the terms are by then.
PublishedIsDeployed ==
  /\ published => dep.state = "confirmed"
  /\ dep.state = "confirmed" => campaign # NoCampaign
  /\ campaign # NoCampaign =>
       /\ vault # NoVault
       /\ campaign.sme = vault.sme /\ campaign.goal = vault.goal
       /\ campaign.deadline = Whole(vault.deadline)

OwnOutcome ==
  /\ dep.state = "confirmed" => dep' = dep
  /\ dep.state = "deploying" /\ dep'.state # "deploying" =>
       \E p \in Attempts : attempt[p].number = dep.attempts /\ attempt'[p] # attempt[p]

\* The outcome of an attempt is written by that attempt, never by one it has superseded,
\* and a confirmed row is never written again.
OutcomeIsTheOwners == [][OwnOutcome]_depVars

\* Without a vault a retry deploys one, if the deadline it would ask for is still to come;
\* it adopts the vault that is there, if that is still funding and has the terms of now, the
\* deadline included unless it comes from a duration.
WouldDeploy == vault = NoVault /\ DeadlineFrom(clock).second > clock
WouldAdopt ==
  /\ funding
  /\ vault.goal = terms.goal /\ vault.sme = terms.sme
  /\ terms.duration > 0 \/ terms.deadline = Whole(vault.deadline)

\* As things are a retry is refused: its terms are not complete, or there is no campaign yet
\* and it could neither deploy a vault nor adopt the one that is there.
RetryRefused ==
  \/ ~TermsComplete
  \/ campaign = NoCampaign /\ ~WouldDeploy /\ ~WouldAdopt

\* An approved application that is retried gets its campaign, although attempts fail, die
\* and overlap, unless it comes to a state in which the code refuses every retry.
CampaignOpens == <>(dep.state = "confirmed" \/ RetryRefused)
=============================================================================
