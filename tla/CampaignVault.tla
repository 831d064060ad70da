---------------------------- MODULE CampaignVault ----------------------------
(***************************************************************************)
(* The Soroban contract that keeps one campaign's money                    *)
(* (contracts/campaign-vault/src/lib.rs).  An invocation is one atomic     *)
(* transaction: it returns Ok and every write of it lands, or it returns   *)
(* an Error and none does, so each action below is one successful          *)
(* invocation and its guard is the conjunction of the contract's checks    *)
(* and of the conditions under which its token transfers succeed.          *)
(*                                                                         *)
(* The token (the native asset's contract) and the ledger clock are        *)
(* external: a transfer fails when the payer does not hold the amount or   *)
(* the payee's account cannot receive, and fails the whole invocation.     *)
(***************************************************************************)
EXTENDS Integers, Sequences, FiniteSets, Functions

CONSTANTS
  Investors,       \* the accounts that may contribute
  Sme,             \* the account the campaign pays
  Vault,           \* the contract's own token account
  Goal, Deadline,  \* the constructor's arguments
  CapDivisor,      \* 10 in the contract: the per-investor cap is Goal / 10
  MaxSweepBatch,   \* 20 in the contract
  InitialBalance,  \* what each investor's wallet holds at first
  Amounts,         \* the amounts investors try to contribute
  Batches,         \* the address lists callers pass to sweep
  Closable,        \* the accounts whose owners may close and reopen them
  MaxTime          \* bound: ledger time stops here

Accounts == Investors \cup {Sme, Vault}

\* The two checks of __constructor, and the shape of the inputs.
ASSUME VaultAssumption ==
  /\ IsFiniteSet(Investors)
  /\ Goal \in Int /\ Goal > 0
  /\ Deadline \in Int /\ Deadline > 0
  /\ CapDivisor \in Nat \ {0}
  /\ MaxSweepBatch \in Nat \ {0}
  /\ InitialBalance \in [Investors -> Nat]
  /\ Amounts \subseteq Int
  /\ Batches \subseteq Seq(Investors)
  /\ Vault \notin Investors /\ Sme \notin Investors /\ Sme # Vault
  /\ Closable \subseteq Investors \cup {Sme}
  /\ MaxTime \in Nat

VARIABLES
  state,          \* "Funding", "Settled" or "Refunding"
  total,          \* DataKey::Total
  contribution,   \* DataKey::Contribution(investor), 0 when absent
  contributors,   \* DataKey::Contributors, in order of first contribution
  balance,        \* the token's balance of every account
  closed,         \* the accounts that do not exist at present
  now             \* the ledger's timestamp

vaultVars == <<state, total, contribution, contributors>>
vars == <<state, total, contribution, contributors, balance, closed, now>>

States == {"Funding", "Settled", "Refunding"}

Cap == Goal \div CapDivisor

\* What the vault owes the investors of S.
OwedTo(S) == SumFunctionOnSet(contribution, S)

-----------------------------------------------------------------------------
(* The token and the clock. *)

\* b after amount moved between two different accounts.
Moved(b, from, to, amount) ==
  [b EXCEPT ![from] = @ - amount, ![to] = @ + amount]

CanMove(from, to, amount) ==
  /\ balance[from] >= amount
  /\ {from, to} \cap closed = {}

Tick ==
  /\ now < MaxTime
  /\ now' = now + 1
  /\ UNCHANGED <<state, total, contribution, contributors, balance, closed>>

\* The owner of an account closes it, or opens it again.
CloseOrReopen(acc) ==
  /\ closed' = IF acc \in closed THEN closed \ {acc} ELSE closed \cup {acc}
  /\ UNCHANGED <<state, total, contribution, contributors, balance, now>>

-----------------------------------------------------------------------------
(* The contract. *)

Init ==
  /\ state = "Funding"
  /\ total = 0
  /\ contribution = [i \in Investors |-> 0]
  /\ contributors = <<>>
  /\ balance = [acc \in Accounts |-> IF acc \in Investors THEN InitialBalance[acc] ELSE 0]
  /\ closed = {}
  /\ now = 0

\* Three slips in the checks of contribute: no check of the amount, of the deadline,
\* or of the cap over all of an investor's contributions.
AnyAmount(i, a) == state = "Funding" /\ now < Deadline /\ contribution[i] + a <= Cap
AnyTime(i, a) == state = "Funding" /\ a > 0 /\ contribution[i] + a <= Cap
CapByPiece(i, a) == state = "Funding" /\ now < Deadline /\ a > 0 /\ a <= Cap

\* The checks contribute makes before it writes anything.
MayContribute(i, a) ==
  /\ state = "Funding"
  /\ now < Deadline
  /\ a > 0
  /\ contribution[i] + a <= Cap

\* A slip: membership inferred from the contribution being zero.
IndexedByAmount(i) == IF contribution[i] = 0 THEN Append(contributors, i) ELSE contributors

\* The index keeps one entry per address, also for one that withdrew.
Indexed(i) ==
  IF contribution[i] = 0 /\ i \notin Range(contributors)
  THEN Append(contributors, i)
  ELSE contributors

\* What contribute writes of its own before the transfers.
RecordContribution(i, a) ==
  /\ contributors' = Indexed(i)
  /\ total' = total + a
  /\ contribution' = [contribution EXCEPT ![i] = @ + a]

\* A slip: a campaign that reaches its goal exactly stays open.
PassesGoal(a) == total + a > Goal

ReachesGoal(a) == total + a >= Goal

\* contribute, below the goal.
Contribute(i, a) ==
  /\ MayContribute(i, a)
  /\ CanMove(i, Vault, a)
  /\ RecordContribution(i, a)
  /\ ~ReachesGoal(a)
  /\ balance' = Moved(balance, i, Vault, a)
  /\ UNCHANGED <<state, closed, now>>

\* contribute, reaching the goal: the SME is paid in the same transaction.
ContributeAndSettle(i, a) ==
  /\ MayContribute(i, a)
  /\ CanMove(i, Vault, a)
  /\ RecordContribution(i, a)
  /\ ReachesGoal(a)
  /\ state' = "Settled"
  /\ balance[Vault] + a >= total + a
  /\ Sme \notin closed
  /\ balance' = Moved(Moved(balance, i, Vault, a), Vault, Sme, total + a)
  /\ UNCHANGED <<closed, now>>

\* A slip: the total still counts what has left.
WithdrawUncounted(i) ==
  /\ state = "Funding"
  /\ contribution[i] > 0
  /\ CanMove(Vault, i, contribution[i])
  /\ contribution' = [contribution EXCEPT ![i] = 0]
  /\ balance' = Moved(balance, Vault, i, contribution[i])
  /\ UNCHANGED <<state, total, contributors, closed, now>>

Withdraw(i) ==
  /\ state = "Funding"
  /\ contribution[i] > 0
  /\ CanMove(Vault, i, contribution[i])
  /\ contribution' = [contribution EXCEPT ![i] = 0]
  /\ total' = total - contribution[i]
  /\ balance' = Moved(balance, Vault, i, contribution[i])
  /\ UNCHANGED <<state, contributors, closed, now>>

\* A slip: only the first refund after the deadline gets through.
RefundableOnce == state = "Funding" /\ now >= Deadline /\ total < Goal

\* ensure_refundable: already Refunding, or the deadline passed below the goal.
Refundable ==
  \/ state = "Refunding"
  \/ /\ state = "Funding"
     /\ now >= Deadline
     /\ total < Goal

\* A slip: the entry is paid and not cleared.
RefundUncleared(i) ==
  /\ Refundable
  /\ contribution[i] > 0
  /\ CanMove(Vault, i, contribution[i])
  /\ state' = "Refunding"
  /\ balance' = Moved(balance, Vault, i, contribution[i])
  /\ UNCHANGED <<total, contribution, contributors, closed, now>>

\* refund: anyone may call it for i; it fails, transition included, when there
\* is nothing to return.
Refund(i) ==
  /\ Refundable
  /\ contribution[i] > 0
  /\ CanMove(Vault, i, contribution[i])
  /\ state' = "Refunding"
  /\ contribution' = [contribution EXCEPT ![i] = 0]
  /\ balance' = Moved(balance, Vault, i, contribution[i])
  /\ UNCHANGED <<total, contributors, closed, now>>

\* pay_refund zeroes an entry before it pays it, so an address a batch names
\* twice is paid once and one with nothing to return is skipped.
Payees(batch) == {i \in Range(batch) : contribution[i] > 0}

\* sweep: every transfer of the batch succeeds, or none of it happens.
Sweep(batch) ==
  /\ Len(batch) \in 1..MaxSweepBatch
  /\ Refundable
  /\ Payees(batch) \cap closed = {}
  /\ state' = "Refunding"
  /\ contribution' = [i \in Investors |-> IF i \in Payees(batch) THEN 0 ELSE contribution[i]]
  /\ \E out \in 0..balance[Vault] :
       /\ out = OwedTo(Payees(batch))
       /\ balance' = [acc \in Accounts |->
                        IF acc = Vault THEN balance[Vault] - out
                        ELSE IF acc \in Payees(batch) THEN balance[acc] + contribution[acc]
                        ELSE balance[acc]]
  /\ UNCHANGED <<total, contributors, closed, now>>

-----------------------------------------------------------------------------
Next ==
  \/ \E i \in Investors :
       \/ \E a \in Amounts : Contribute(i, a) \/ ContributeAndSettle(i, a)
       \/ Withdraw(i)
       \/ Refund(i)
  \/ \E batch \in Batches : Sweep(batch)
  \/ \E acc \in Closable : CloseOrReopen(acc)
  \/ Tick

Spec == Init /\ [][Next]_vars

\* Ledgers keep closing, and every investor who is still owed money after the
\* deadline has someone who asks for it: refund is permissionless.
Fairness == WF_vars(Tick) /\ \A i \in Investors : WF_vars(Refund(i))

FairSpec == Spec /\ Fairness

-----------------------------------------------------------------------------
(* Properties. *)

TypeOK ==
  /\ state \in States
  /\ total \in Nat
  /\ contribution \in [Investors -> Nat]
  /\ contributors \in Seq(Investors)
  /\ balance \in [Accounts -> Nat]
  /\ closed \subseteq Closable
  /\ now \in 0..MaxTime

\* The goal check inside contribute leaves no window: a vault that has not
\* settled is below its goal, so the branch ensure_refundable calls
\* unreachable is, and one that has settled overshot by less than one cap.
NoWindowAtGoal ==
  IF state = "Settled" THEN total >= Goal /\ total < Goal + Cap ELSE total < Goal

\* Nobody can redirect a stroop: an investor's wallet plus what the vault
\* records for it is always what it came with, the SME holds the whole total
\* once settled and nothing before.
NobodyRedirects ==
  /\ \A i \in Investors : balance[i] + contribution[i] = InitialBalance[i]
  /\ balance[Sme] = IF state = "Settled" THEN total ELSE 0

\* The vault always holds what its contribution entries say it owes, and the
\* total agrees with them until refunds begin (they do not decrement it).
Solvent ==
  /\ balance[Vault] = IF state = "Settled" THEN 0 ELSE OwedTo(Investors)
  /\ state # "Refunding" => total = OwedTo(Investors)

\* "settling always needs at least ten distinct investors" (CapDivisor of them).
EnoughBackers ==
  state = "Settled" => Cardinality({i \in Investors : contribution[i] > 0}) >= CapDivisor

\* The contributors index, the list a sweep is built from, names every address
\* that is owed money, and names none twice however often it left and returned.
IndexComplete ==
  /\ IsInjective(contributors)
  /\ \A i \in Investors : contribution[i] > 0 => i \in Range(contributors)

\* Until the SME is paid an investor can always leave with its own money, in
\* any state and whatever the others did, unless its own account is closed.
ExitAlwaysOpen ==
  \A i \in Investors :
    (state # "Settled" /\ contribution[i] > 0 /\ i \notin closed)
      => (ENABLED Withdraw(i) \/ ENABLED Refund(i))

\* The state machine of the contract's header: it settles only before the
\* deadline, it starts refunding only from the deadline on and below the goal,
\* and both ends are final: after a settlement no money moves again, and while
\* refunding no investor pays in.
LegalStep ==
  /\ state = "Funding" /\ state' = "Settled" => now < Deadline /\ total' >= Goal
  /\ state = "Funding" /\ state' = "Refunding" => now >= Deadline /\ total < Goal
  /\ state # "Funding" => state' = state
  /\ state = "Settled" => UNCHANGED <<total, contribution, balance>>
  /\ state = "Refunding" => \A i \in Investors : contribution'[i] \in {0, contribution[i]}

LegalTransitions == [][LegalStep]_vars

\* After the deadline of a campaign that missed its goal every investor is
\* paid back, unless its account is closed: nobody else's can block it.
EveryoneIsRefunded ==
  \A i \in Investors :
    (now >= Deadline /\ state # "Settled") ~> (contribution[i] = 0 \/ i \in closed)

\* The vault is an Escrow: what it records for an investor is held until the
\* settlement and paid from then on.
Zero == [i \in Investors |-> 0]

E == INSTANCE Escrow WITH
       Target <- Goal,
       phase  <- CASE state = "Funding" -> "open"
                   [] state = "Settled" -> "paid"
                   [] state = "Refunding" -> "returning",
       wallet <- [i \in Investors |-> balance[i]],
       held   <- IF state = "Settled" THEN Zero ELSE contribution,
       paid   <- IF state = "Settled" THEN contribution ELSE Zero,
       pot    <- IF state = "Refunding" THEN 0 ELSE total

ImplementsEscrow == E!Spec
=============================================================================
