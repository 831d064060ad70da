-------------------------- MODULE ContributionDesk --------------------------
(***************************************************************************)
(* Contributions made through the platform (POST invocations and           *)
(* invocations/submission of campaign.route.ts): an amount is checked      *)
(* against the vault as it is read at that moment, the investor signs the  *)
(* envelope that was prepared, the API records it and hands it over, and   *)
(* the vault takes it when a ledger does.  Here nobody calls the contract  *)
(* without the platform, so all that its checks can do is done.            *)
(***************************************************************************)
EXTENDS CampaignVault

VARIABLE desk   \* of each investor: the envelope in its hands and how far it has come

deskVars == <<vars, desk>>

NoEnvelope == [pc |-> "none", amount |-> 0]

DeskInit == Init /\ desk = [i \in Investors |-> NoEnvelope]

\* The over-funding guardrail: "the excess is rejected, not absorbed".
WithinRemaining(a) == a <= Goal - total

\* The preflight of the investor's limit, where the campaign has a rate.
WithinLimit(i, a) == contribution[i] + a <= Cap

\* POST invocations: read, check, build the envelope.  The reads are one step here; the
\* time until the investor has signed is not.
Prepare(i, a) ==
  /\ state = "Funding"
  /\ a > 0 /\ WithinRemaining(a) /\ WithinLimit(i, a)
  /\ desk' = [desk EXCEPT ![i] = [pc |-> "prepared", amount |-> a]]
  /\ UNCHANGED vars

\* POST invocations/submission: recorded before it reaches the network.
Record(i) ==
  /\ desk[i].pc = "prepared"
  /\ desk' = [desk EXCEPT ![i].pc = "recorded"]
  /\ UNCHANGED vars

\* A ledger takes the recorded envelope.
Land(i) ==
  /\ desk[i].pc = "recorded"
  /\ Contribute(i, desk[i].amount) \/ ContributeAndSettle(i, desk[i].amount)
  /\ desk' = [desk EXCEPT ![i] = NoEnvelope]

\* It is never signed, or refused, or it expires.
Discard(i) ==
  /\ desk[i].pc # "none"
  /\ desk' = [desk EXCEPT ![i] = NoEnvelope]
  /\ UNCHANGED vars

\* The rest of what happens to the vault.
VaultMoves ==
  /\ (\E i \in Investors : Withdraw(i) \/ Refund(i)) \/ Tick
  /\ UNCHANGED desk

DeskNext ==
  \/ \E i \in Investors : Record(i) \/ Land(i) \/ Discard(i) \/ \E a \in Amounts : Prepare(i, a)
  \/ VaultMoves

DeskSpec == DeskInit /\ [][DeskNext]_deskVars

-----------------------------------------------------------------------------
\* A vault never holds more than its goal, which is what the mirror's row can hold: its
\* constraint campaign_total_not_above_goal "replica el limite que impone el contrato".
VaultFitsMirror == total <= Goal
=============================================================================
