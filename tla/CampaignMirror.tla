--------------------------- MODULE CampaignMirror ---------------------------
(***************************************************************************)
(* The database's copy of one vault: the campaign row and one row per      *)
(* investor (reconcile-campaign.ts, supabase-campaign-repository.ts).      *)
(* Whoever looks at the campaign makes a request that reads the vault,     *)
(* value by value, and then writes what it read: the campaign row under a  *)
(* condition, then the row of the investor it names, if it names one.      *)
(* Requests run side by side, while the vault of module CampaignVault goes *)
(* on.                                                                     *)
(***************************************************************************)
EXTENDS CampaignVault

CONSTANTS
  Requests,      \* the requests that may run at once
  NoOne,         \* the investor of a request that names none
  Looks,         \* the pairs of a request and the investor it may name, or NoOne
  MaxClock       \* bound: the API's clock stops here

ASSUME MirrorAssumption ==
  /\ NoOne \notin Investors
  /\ Looks \subseteq Requests \X (Investors \cup {NoOne})
  /\ MaxClock \in Nat

VARIABLES
  row,        \* the campaign's row: state, total, when observed, and its status
  mirrored,   \* each investor's row: amount and when observed; amount 0: no row
  request,    \* what each request has read, and where it is
  clock,      \* the API's clock, by which observations are stamped
  settledAt   \* ghost: the API's clock when the vault settled

mirrorOnly == <<row, mirrored, request, clock>>
mirrorVars == <<vars, mirrorOnly, settledAt>>

CampaignStates == {"open", "settled", "refundable"}
Instants == 0..MaxClock
Unread == -1
NoRow == [amount |-> 0, at |-> 0]

\* mapVaultStateToCampaignState.
Mapped(vaultState) ==
  CASE vaultState = "Funding" -> "open"
    [] vaultState = "Settled" -> "settled"
    [] vaultState = "Refunding" -> "refundable"

Idle == [pc |-> "idle", investor |-> NoOne, observed |-> 0, state |-> "open", total |-> 0,
         amount |-> Unread, expected |-> "open", status |-> "in_sync"]

\* openCampaign has just written the row.
MirrorInit ==
  /\ Init
  /\ row = [state |-> "open", total |-> 0, at |-> 0, status |-> "in_sync"]
  /\ mirrored = [i \in Investors |-> NoRow]
  /\ request = [q \in Requests |-> Idle]
  /\ clock = 0
  /\ settledAt = 0

-----------------------------------------------------------------------------
(* One request. *)

\* A slip: the total is read before the state.
FirstTheTotal == "total"

\* readCampaign asks for the state first and then for the total (goal, deadline,
\* SME and token never change).
First == "state"
AfterReading(field) ==
  IF field # First THEN "find" ELSE IF field = "state" THEN "total" ELSE "state"

\* A request takes the time before its first read.
Begin(q, i) ==
  /\ <<q, i>> \in Looks
  /\ request[q].pc = "idle"
  /\ clock' \in Instants \cap {clock, clock + 1}
  /\ request' = [request EXCEPT ![q] =
                   [Idle EXCEPT !.pc = First, !.investor = i, !.observed = clock']]
  /\ UNCHANGED <<vars, row, mirrored, settledAt>>

ReadState(q) ==
  /\ request[q].pc = "state"
  /\ request' = [request EXCEPT ![q].pc = AfterReading("state"), ![q].state = Mapped(state)]
  /\ UNCHANGED <<vars, row, mirrored, clock, settledAt>>

\* A slip: the observation is stamped when the answers have come.
ReadTotalAndStamp(q) ==
  /\ request[q].pc = "total"
  /\ clock' \in Instants \cap {clock, clock + 1}
  /\ request' = [request EXCEPT ![q].pc = AfterReading("total"), ![q].total = total,
                                ![q].observed = clock']
  /\ UNCHANGED <<vars, row, mirrored, settledAt>>

ReadTotal(q) ==
  /\ request[q].pc = "total"
  /\ request' = [request EXCEPT ![q].pc = AfterReading("total"), ![q].total = total]
  /\ UNCHANGED <<vars, row, mirrored, clock, settledAt>>

\* readContribution: after the other reads in the campaign's routes, beside them, so
\* perhaps before any of them, in the portfolio's.
ReadContribution(q) ==
  /\ request[q].pc \in {"state", "find"}
  /\ request[q].investor # NoOne
  /\ request[q].amount = Unread
  /\ request' = [request EXCEPT ![q].amount = contribution[request[q].investor]]
  /\ UNCHANGED <<vars, row, mirrored, clock, settledAt>>

\* reconcileCampaign reads the row and decides the status of what it will write.
FindRow(q) ==
  /\ request[q].pc = "find"
  /\ request[q].investor = NoOne \/ request[q].amount # Unread
  /\ request' = [request EXCEPT
       ![q].pc = "update", ![q].expected = row.state,
       ![q].status = IF row.state = request[q].state /\ row.total = request[q].total
                     THEN "in_sync" ELSE "diverged"]
  /\ UNCHANGED <<vars, row, mirrored, clock, settledAt>>

\* A slip: the state the status was decided against is not asked for again.
MatchesAnyState(q) == row.at <= request[q].observed

\* A slip: a row found diverged is left for somebody to look at.
MatchesInSync(q) ==
  row.state = request[q].expected /\ row.at <= request[q].observed /\ request[q].status = "in_sync"

\* The condition of the update of the campaign's row.
Matches(q) ==
  /\ row.state = request[q].expected
  /\ row.at <= request[q].observed

\* The row's check constraint, campaign_total_not_above_goal.
Storable(q) == request[q].total <= Goal

\* The update matches and is stored; the investor's row is next.
UpdateRow(q) ==
  /\ request[q].pc = "update"
  /\ Matches(q)
  /\ Storable(q)
  /\ row' = [state |-> request[q].state, total |-> request[q].total,
             at |-> request[q].observed, status |-> request[q].status]
  /\ request' = [request EXCEPT ![q] =
       IF request[q].investor = NoOne THEN Idle
       ELSE [Idle EXCEPT !.pc = "contribution", !.investor = request[q].investor,
                         !.observed = request[q].observed, !.amount = request[q].amount]]
  /\ UNCHANGED <<vars, mirrored, clock, settledAt>>

\* The update matches no row, or the constraint refuses it: nothing else is written.
UpdateNothing(q) ==
  /\ request[q].pc = "update"
  /\ ~(Matches(q) /\ Storable(q))
  /\ request' = [request EXCEPT ![q] = Idle]
  /\ UNCHANGED <<vars, row, mirrored, clock, settledAt>>

\* A slip: a zero is written like any other amount.
WriteZero(q) ==
  /\ request[q].pc = "contribution"
  /\ request[q].amount = 0
  /\ mirrored' = [mirrored EXCEPT ![request[q].investor] =
                    [amount |-> 0, at |-> request[q].observed]]
  /\ request' = [request EXCEPT ![q] = Idle]
  /\ UNCHANGED <<vars, row, clock, settledAt>>

\* deleteContribution: an investor the vault holds nothing of.
DeleteContribution(q) ==
  LET i == request[q].investor IN
    /\ request[q].pc = "contribution"
    /\ request[q].amount = 0
    /\ mirrored' = IF mirrored[i].at <= request[q].observed
                   THEN [mirrored EXCEPT ![i] = NoRow] ELSE mirrored
    /\ request' = [request EXCEPT ![q] = Idle]
    /\ UNCHANGED <<vars, row, clock, settledAt>>

\* writeContribution: an insert, which fails when there is a row.
InsertContribution(q) ==
  LET i == request[q].investor IN
    /\ request[q].pc = "contribution"
    /\ request[q].amount > 0
    /\ IF mirrored[i].amount = 0
       THEN /\ mirrored' = [mirrored EXCEPT ![i] =
                              [amount |-> request[q].amount, at |-> request[q].observed]]
            /\ request' = [request EXCEPT ![q] = Idle]
       ELSE /\ request' = [request EXCEPT ![q].pc = "overwrite"]
            /\ UNCHANGED mirrored
    /\ UNCHANGED <<vars, row, clock, settledAt>>

\* writeContribution, when the insert failed: an update of whatever row is there now.
OverwriteContribution(q) ==
  LET i == request[q].investor IN
    /\ request[q].pc = "overwrite"
    /\ mirrored' = IF mirrored[i].amount > 0 /\ mirrored[i].at <= request[q].observed
                   THEN [mirrored EXCEPT ![i] =
                           [amount |-> request[q].amount, at |-> request[q].observed]]
                   ELSE mirrored
    /\ request' = [request EXCEPT ![q] = Idle]
    /\ UNCHANGED <<vars, row, clock, settledAt>>

\* The write of the investor's row fails, or the process dies before it.  A request that
\* fails before it has written anything is as if it had never begun.
LoseContribution(q) ==
  /\ request[q].pc \in {"contribution", "overwrite"}
  /\ request' = [request EXCEPT ![q] = Idle]
  /\ UNCHANGED <<vars, row, mirrored, clock, settledAt>>

Advance(q) ==
  \/ ReadState(q) \/ ReadTotal(q) \/ ReadContribution(q) \/ FindRow(q)
  \/ UpdateRow(q) \/ UpdateNothing(q)
  \/ DeleteContribution(q) \/ InsertContribution(q) \/ OverwriteContribution(q)

-----------------------------------------------------------------------------
(* The vault, which anyone may call without the platform. *)

VaultStep ==
  /\ \/ \E i \in Investors, a \in Amounts : Contribute(i, a) \/ ContributeAndSettle(i, a)
     \/ \E i \in Investors : Withdraw(i) \/ Refund(i)
     \/ \E batch \in Batches : Sweep(batch)
     \/ Tick
  /\ settledAt' = IF state # "Settled" /\ state' = "Settled" THEN clock ELSE settledAt
  /\ UNCHANGED mirrorOnly

-----------------------------------------------------------------------------
MirrorNext ==
  \/ \E q \in Requests :
       \/ \E i \in Investors \cup {NoOne} : Begin(q, i)
       \/ Advance(q)
       \/ LoseContribution(q)
  \/ VaultStep

MirrorSpec == MirrorInit /\ [][MirrorNext]_mirrorVars

\* Requests that have begun go on, and somebody looks at the campaign again.
MirrorFairSpec ==
  /\ MirrorSpec
  /\ \A q \in Requests : WF_mirrorVars(Advance(q))
  /\ WF_mirrorVars(\E q \in Requests, i \in Investors \cup {NoOne} : Begin(q, i))

-----------------------------------------------------------------------------
(* Properties. *)

RowType == [state : CampaignStates, total : Nat, at : Instants, status : {"in_sync", "diverged"}]

RequestType ==
  [pc : {"idle", "state", "total", "find", "update", "contribution", "overwrite"},
   investor : Investors \cup {NoOne}, observed : Instants, state : CampaignStates, total : Nat,
   amount : Nat \cup {Unread}, expected : CampaignStates, status : {"in_sync", "diverged"}]

\* Nothing above the goal, no zero ("the table refuses a zero") and no row from the future.
MirrorTypeOK ==
  /\ row \in RowType /\ row.total <= Goal /\ row.at <= clock
  /\ mirrored \in [Investors -> [amount : Nat, at : Instants]]
  /\ \A i \in Investors :
       mirrored[i].at <= clock /\ (mirrored[i].amount = 0 => mirrored[i] = NoRow)
  /\ request \in [Requests -> RequestType]
  /\ clock \in Instants /\ settledAt \in 0..clock

\* When the row says that the campaign has ended, it ended so and with that total,
\* however the six reads of the request that wrote it were torn by the vault's steps:
\* a distribution is derived from a settled row's total.
ConclusionsAreExact ==
  row.state # "open" => row.state = Mapped(state) /\ row.total = total

\* A change of the row's state is marked as a divergence even when two requests cross
\* ("observable instead of silently erased").
StateChangesAreMarked ==
  [][row'.state # row.state => row'.status = "diverged"]_mirrorVars

\* An investor's row observed after the settlement holds what the vault holds: the
\* amounts a distribution is split by are right once everybody has been looked at.
ObservedAfterTheEndIsFinal ==
  state = "Settled" =>
    \A i \in Investors : mirrored[i].at > settledAt => mirrored[i].amount = contribution[i]

\* A settled campaign's row says so for good once old requests are through, if its
\* total fits the row.
MirrorSettles ==
  (state = "Settled" /\ total <= Goal) ~> [](row.state = "settled" /\ row.total = total)
=============================================================================
