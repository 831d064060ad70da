--------------------------- MODULE CampaignProofs ---------------------------
(***************************************************************************)
(* A campaign's vault, the mirror of it and the desk that prepares         *)
(* contributions to it: theorems about CampaignVault for every finite set  *)
(* of investors, goal, deadline, cap divisor and batch size, and about     *)
(* CampaignMirror and ContributionDesk for any requests, clock and         *)
(* envelopes besides.  The mirror's and the desk's specifications take the *)
(* vault's own steps, so the vault comes first: Spec and what follows from *)
(* it are CampaignVault's, MirrorSpec is CampaignMirror's, DeskSpec is     *)
(* ContributionDesk's.  What a reader of the mirror may conclude from it   *)
(* comes last.                                                             *)
(***************************************************************************)
EXTENDS CampaignMirror, ContributionDesk, SumLemmas

-----------------------------------------------------------------------------
(* The vault. *)

\* The strengthening the step proofs need: while the campaign is open the
\* vault's token balance is exactly the recorded total.
VaultHoldsTotal == state = "Funding" => balance[Vault] = total

IInv == TypeOK /\ NoWindowAtGoal /\ NobodyRedirects /\ VaultHoldsTotal

-----------------------------------------------------------------------------
(* Lemmas about the operators the actions are built from. *)

\* A transfer the payer can afford keeps every balance a natural number,
\* changes exactly the two accounts named, and creates or destroys nothing.
LEMMA MovedProperties ==
  ASSUME NEW b \in [Accounts -> Nat],
         NEW from \in Accounts, NEW to \in Accounts, from # to,
         NEW amount \in Nat, b[from] >= amount
  PROVE  /\ Moved(b, from, to, amount) \in [Accounts -> Nat]
         /\ Moved(b, from, to, amount)[from] = b[from] - amount
         /\ Moved(b, from, to, amount)[to] = b[to] + amount
         /\ \A acc \in Accounts \ {from, to} : Moved(b, from, to, amount)[acc] = b[acc]
BY DEF Moved

\* The per-investor cap is a natural number, for any goal and divisor.
LEMMA CapIsNat == Cap \in Nat
BY VaultAssumption DEF Cap

\* Recording a contributor appends at most that one address to the index.
LEMMA IndexedType ==
  ASSUME NEW i \in Investors, contributors \in Seq(Investors)
  PROVE  Indexed(i) \in Seq(Investors)
BY DEF Indexed

-----------------------------------------------------------------------------
(* The inductive invariant. *)

\* The inductive invariant holds of a vault that has just been deployed.
LEMMA InitIInv == Init => IInv
BY VaultAssumption, CapIsNat
   DEF Init, IInv, TypeOK, NoWindowAtGoal, NobodyRedirects, VaultHoldsTotal,
       States, Accounts

\* A contribution below the goal keeps the inductive invariant.
LEMMA ContributeIInv ==
  ASSUME IInv, NEW i \in Investors, NEW a \in Amounts, Contribute(i, a)
  PROVE  IInv'
<1>1. /\ a \in Nat /\ a > 0
      /\ i \in Accounts /\ Vault \in Accounts /\ Sme \in Accounts
      /\ Vault # i /\ Sme # i /\ Vault # Sme
      /\ balance \in [Accounts -> Nat] /\ balance[i] >= a
      /\ balance' = Moved(balance, i, Vault, a)
  BY VaultAssumption DEF IInv, TypeOK, Contribute, MayContribute, CanMove, Accounts
<1>2. /\ balance' \in [Accounts -> Nat]
      /\ balance'[i] = balance[i] - a
      /\ balance'[Vault] = balance[Vault] + a
      /\ \A acc \in Accounts \ {i, Vault} : balance'[acc] = balance[acc]
  BY <1>1, MovedProperties
<1>3. TypeOK'
  BY <1>1, <1>2, IndexedType
     DEF IInv, TypeOK, Contribute, RecordContribution
<1>4. NoWindowAtGoal'
  BY <1>1, VaultAssumption DEF IInv, TypeOK, NoWindowAtGoal, Contribute, ReachesGoal, MayContribute, RecordContribution
<1>5. NobodyRedirects'
  <2>1. contribution' = [contribution EXCEPT ![i] = @ + a]
    BY DEF Contribute, RecordContribution
  <2>2. \A j \in Investors : balance'[j] + contribution'[j] = InitialBalance[j]
    <3>1. contribution'[i] = contribution[i] + a
      BY <2>1 DEF IInv, TypeOK
    <3>2. \A j \in Investors \ {i} : contribution'[j] = contribution[j] /\ balance'[j] = balance[j]
      BY <1>2, <2>1, VaultAssumption DEF IInv, TypeOK, Accounts
    <3>3. contribution \in [Investors -> Nat] /\ InitialBalance \in [Investors -> Nat]
      BY VaultAssumption DEF IInv, TypeOK
    <3>4. \A j \in Investors : balance[j] + contribution[j] = InitialBalance[j]
      BY DEF IInv, NobodyRedirects
    <3>5. balance'[i] + contribution'[i] = InitialBalance[i]
      BY <1>1, <1>2, <3>1, <3>3, <3>4
    <3>6. QED
      BY <3>2, <3>4, <3>5
  <2>3. balance'[Sme] = balance[Sme] /\ state' = state /\ state = "Funding"
    BY <1>1, <1>2 DEF Contribute, MayContribute
  <2>4. QED
    BY <2>2, <2>3 DEF IInv, NobodyRedirects
<1>6. VaultHoldsTotal'
  BY <1>1, <1>2
     DEF IInv, TypeOK, VaultHoldsTotal, Contribute, MayContribute, RecordContribution
<1>7. QED
  BY <1>3, <1>4, <1>5, <1>6 DEF IInv

\* So does the one that reaches the goal and pays the SME in the same transaction.
LEMMA SettleIInv ==
  ASSUME IInv, NEW i \in Investors, NEW a \in Amounts, ContributeAndSettle(i, a)
  PROVE  IInv'
<1> DEFINE paidIn == Moved(balance, i, Vault, a)
<1>1. /\ a \in Nat /\ a > 0 /\ total \in Nat /\ total + a \in Nat
      /\ i \in Accounts /\ Vault \in Accounts /\ Sme \in Accounts
      /\ Vault # i /\ Sme # i /\ Vault # Sme
      /\ balance \in [Accounts -> Nat] /\ balance[i] >= a
      /\ balance[Vault] = total
      /\ state = "Funding" /\ state' = "Settled" /\ total' = total + a
      /\ balance' = Moved(paidIn, Vault, Sme, total + a)
  BY VaultAssumption
     DEF IInv, TypeOK, VaultHoldsTotal, ContributeAndSettle, MayContribute,
         RecordContribution, CanMove, Accounts
<1>2. /\ paidIn \in [Accounts -> Nat]
      /\ paidIn[i] = balance[i] - a
      /\ paidIn[Vault] = total + a
      /\ \A acc \in Accounts \ {i, Vault} : paidIn[acc] = balance[acc]
  BY <1>1, MovedProperties
<1> HIDE DEF paidIn
<1>3. /\ balance' \in [Accounts -> Nat]
      /\ balance'[Sme] = paidIn[Sme] + (total + a)
      /\ \A acc \in Accounts \ {Vault, Sme} : balance'[acc] = paidIn[acc]
  <2> DEFINE payout == total + a
  <2>1. /\ payout \in Nat /\ paidIn[Vault] = payout
        /\ balance' = Moved(paidIn, Vault, Sme, payout)
    BY <1>1, <1>2
  <2>2. Vault \in Accounts /\ Sme \in Accounts /\ Vault # Sme /\ paidIn \in [Accounts -> Nat]
    BY <1>1, <1>2
  <2> HIDE DEF payout
  <2>3. /\ balance' \in [Accounts -> Nat]
        /\ balance'[Sme] = paidIn[Sme] + payout
        /\ \A acc \in Accounts \ {Vault, Sme} : balance'[acc] = paidIn[acc]
    BY <2>1, <2>2, MovedProperties
  <2>4. QED
    BY <2>3 DEF payout
<1>4. TypeOK'
  BY <1>1, <1>3, IndexedType
     DEF IInv, TypeOK, States, ContributeAndSettle, RecordContribution
<1>5. NoWindowAtGoal'
  <2>1. total < Goal /\ total + a >= Goal
    BY <1>1 DEF IInv, NoWindowAtGoal, ContributeAndSettle, ReachesGoal
  <2>2. a <= Cap
    BY <1>1, CapIsNat DEF IInv, TypeOK, ContributeAndSettle, ReachesGoal, MayContribute
  <2>3. QED
    BY <1>1, <2>1, <2>2, CapIsNat, VaultAssumption DEF NoWindowAtGoal
<1>6. NobodyRedirects'
  <2>1. contribution' = [contribution EXCEPT ![i] = @ + a]
    BY DEF ContributeAndSettle, ReachesGoal, RecordContribution
  <2>2. \A j \in Investors : balance'[j] + contribution'[j] = InitialBalance[j]
    <3>1. TAKE j \in Investors
    <3>2. j \in Accounts \ {Vault, Sme}
      BY VaultAssumption DEF Accounts
    <3>3. CASE j = i
      BY <1>1, <1>2, <1>3, <2>1, <3>2, <3>3 DEF IInv, TypeOK, NobodyRedirects
    <3>4. CASE j # i
      BY <1>1, <1>2, <1>3, <2>1, <3>2, <3>4 DEF IInv, TypeOK, NobodyRedirects
    <3>5. QED
      BY <3>3, <3>4
  <2>3. balance[Sme] = 0
    BY <1>1 DEF IInv, NobodyRedirects
  <2>4. balance'[Sme] = total'
    BY <1>1, <1>2, <1>3, <2>3
  <2>5. QED
    BY <1>1, <2>2, <2>4 DEF NobodyRedirects
<1>7. VaultHoldsTotal'
  BY <1>1 DEF VaultHoldsTotal
<1>8. QED
  BY <1>4, <1>5, <1>6, <1>7 DEF IInv

\* What withdraw and refund have in common: the vault pays i its whole entry.
LEMMA PayBackIInv ==
  ASSUME IInv, NEW i \in Investors, state # "Settled", state' # "Settled",
         CanMove(Vault, i, contribution[i]),
         contribution' = [contribution EXCEPT ![i] = 0],
         balance' = Moved(balance, Vault, i, contribution[i])
  PROVE  /\ balance' \in [Accounts -> Nat]
         /\ contribution' \in [Investors -> Nat]
         /\ balance'[Vault] = balance[Vault] - contribution[i]
         /\ NobodyRedirects'
<1>1. /\ i \in Accounts /\ Vault \in Accounts /\ Sme \in Accounts
      /\ Vault # i /\ Sme # i /\ Vault # Sme
      /\ balance \in [Accounts -> Nat] /\ contribution[i] \in Nat
      /\ balance[Vault] >= contribution[i]
  BY VaultAssumption DEF IInv, TypeOK, CanMove, Accounts
<1>2. /\ balance' \in [Accounts -> Nat]
      /\ balance'[i] = balance[i] + contribution[i]
      /\ balance'[Vault] = balance[Vault] - contribution[i]
      /\ \A acc \in Accounts \ {i, Vault} : balance'[acc] = balance[acc]
  BY <1>1, MovedProperties
<1>3. contribution' \in [Investors -> Nat]
  BY DEF IInv, TypeOK
<1>4. ASSUME NEW j \in Investors
      PROVE  balance'[j] + contribution'[j] = InitialBalance[j]
  <2>1. j \in Accounts /\ j # Vault
    BY VaultAssumption DEF Accounts
  <2>2. CASE j = i
    BY <1>1, <1>2, <2>2, VaultAssumption DEF IInv, TypeOK, NobodyRedirects
  <2>3. CASE j # i
    BY <1>2, <2>1, <2>3 DEF IInv, TypeOK, NobodyRedirects
  <2>4. QED
    BY <2>2, <2>3
<1>5. balance'[Sme] = 0
  BY <1>1, <1>2 DEF IInv, NobodyRedirects
<1>6. QED
  BY <1>2, <1>3, <1>4, <1>5 DEF NobodyRedirects

\* So does a withdrawal, which also takes the amount off the total.
LEMMA WithdrawIInv ==
  ASSUME IInv, NEW i \in Investors, Withdraw(i)
  PROVE  IInv'
<1>1. /\ balance' \in [Accounts -> Nat]
      /\ contribution' \in [Investors -> Nat]
      /\ balance'[Vault] = balance[Vault] - contribution[i]
      /\ NobodyRedirects'
  BY PayBackIInv DEF Withdraw
<1>2. total' = balance'[Vault] /\ total' \in Nat
  BY <1>1, VaultAssumption
     DEF Withdraw, CanMove, IInv, TypeOK, VaultHoldsTotal, Accounts
<1>3. TypeOK'
  BY <1>1, <1>2 DEF Withdraw, IInv, TypeOK
<1>4. NoWindowAtGoal'
  BY <1>2, VaultAssumption DEF Withdraw, IInv, TypeOK, NoWindowAtGoal
<1>5. VaultHoldsTotal'
  BY <1>2 DEF VaultHoldsTotal
<1>6. QED
  BY <1>1, <1>3, <1>4, <1>5 DEF IInv

\* So does a refund, which leaves the total alone and starts refunding.
LEMMA RefundIInv ==
  ASSUME IInv, NEW i \in Investors, Refund(i)
  PROVE  IInv'
<1>1. state # "Settled" /\ state' = "Refunding"
  BY DEF Refund, Refundable
<1>2. /\ balance' \in [Accounts -> Nat]
      /\ contribution' \in [Investors -> Nat]
      /\ NobodyRedirects'
  BY <1>1, PayBackIInv DEF Refund
<1>3. TypeOK'
  BY <1>1, <1>2 DEF Refund, IInv, TypeOK, States
<1>4. NoWindowAtGoal' /\ VaultHoldsTotal'
  BY <1>1 DEF Refund, IInv, NoWindowAtGoal, VaultHoldsTotal
<1>5. QED
  BY <1>2, <1>3, <1>4 DEF IInv

\* So does a sweep, whatever addresses the batch names and how often.
LEMMA SweepIInv ==
  ASSUME IInv, NEW batch \in Batches, Sweep(batch)
  PROVE  IInv'
<1>1. state # "Settled" /\ state' = "Refunding" /\ total' = total
  BY DEF Sweep, Refundable
<1>2. PICK out \in 0..balance[Vault] :
        balance' = [acc \in Accounts |->
                      IF acc = Vault THEN balance[Vault] - out
                      ELSE IF acc \in Payees(batch) THEN balance[acc] + contribution[acc]
                      ELSE balance[acc]]
  BY DEF Sweep
<1>3. Payees(batch) \subseteq Investors
  BY VaultAssumption DEF Payees, Range
<1>4. /\ contribution' \in [Investors -> Nat]
      /\ \A j \in Investors :
           contribution'[j] = IF j \in Payees(batch) THEN 0 ELSE contribution[j]
  BY DEF Sweep, IInv, TypeOK
<1>5. balance' \in [Accounts -> Nat]
  BY <1>2, <1>3, VaultAssumption DEF IInv, TypeOK, Accounts
<1>6. TypeOK'
  BY <1>1, <1>4, <1>5 DEF Sweep, IInv, TypeOK, States
<1>7. NobodyRedirects'
  <2>1. ASSUME NEW j \in Investors
        PROVE  balance'[j] + contribution'[j] = InitialBalance[j]
    BY <1>2, <1>4, VaultAssumption DEF IInv, TypeOK, NobodyRedirects, Accounts
  <2>2. balance'[Sme] = 0
    BY <1>1, <1>2, <1>3, VaultAssumption DEF IInv, NobodyRedirects, Accounts
  <2>3. QED
    BY <1>1, <2>1, <2>2 DEF NobodyRedirects
<1>8. NoWindowAtGoal' /\ VaultHoldsTotal'
  BY <1>1 DEF IInv, NoWindowAtGoal, VaultHoldsTotal
<1>9. QED
  BY <1>6, <1>7, <1>8 DEF IInv

\* Every step keeps the inductive invariant.
LEMMA NextIInv == IInv /\ [Next]_vars => IInv'
<1> SUFFICES ASSUME IInv, [Next]_vars PROVE IInv'
  OBVIOUS
<1>1. ASSUME NEW i \in Investors, NEW a \in Amounts, Contribute(i, a)
      PROVE  IInv'
  BY <1>1, ContributeIInv
<1>2. ASSUME NEW i \in Investors, NEW a \in Amounts, ContributeAndSettle(i, a)
      PROVE  IInv'
  BY <1>2, SettleIInv
<1>3. ASSUME NEW i \in Investors, Withdraw(i)
      PROVE  IInv'
  BY <1>3, WithdrawIInv
<1>4. ASSUME NEW i \in Investors, Refund(i)
      PROVE  IInv'
  BY <1>4, RefundIInv
<1>5. ASSUME NEW batch \in Batches, Sweep(batch)
      PROVE  IInv'
  BY <1>5, SweepIInv
<1>6. ASSUME NEW acc \in Closable, CloseOrReopen(acc)
      PROVE  IInv'
  BY <1>6 DEF CloseOrReopen, IInv, TypeOK, NoWindowAtGoal, NobodyRedirects, VaultHoldsTotal
<1>7. CASE Tick
  BY <1>7, VaultAssumption
     DEF Tick, IInv, TypeOK, NoWindowAtGoal, NobodyRedirects, VaultHoldsTotal
<1>8. CASE UNCHANGED vars
  BY <1>8 DEF vars, IInv, TypeOK, NoWindowAtGoal, NobodyRedirects, VaultHoldsTotal
<1>9. QED
  BY <1>1, <1>2, <1>3, <1>4, <1>5, <1>6, <1>7, <1>8 DEF Next

\* The inductive invariant holds in every reachable state.
LEMMA Invariance == Spec => []IInv
BY InitIInv, NextIInv, PTL DEF Spec

\* The contract's variables keep their types: in particular no balance and no
\* total ever becomes negative, whatever amounts callers pass.
THEOREM TypeCorrect == Spec => []TypeOK
BY Invariance, PTL DEF IInv

\* The goal check inside contribute leaves no window at the goal, so the branch
\* ensure_refundable calls unreachable is unreachable.
THEOREM NoWindow == Spec => []NoWindowAtGoal
BY Invariance, PTL DEF IInv

\* Nobody, the platform and the SME included, can redirect an investor's money.
THEOREM OwnMoneyOnly == Spec => []NobodyRedirects
BY Invariance, PTL DEF IInv

-----------------------------------------------------------------------------
(* The state machine, and the refinement of Escrow. *)

\* Every step from a state of the invariant respects the contract's state machine.
LEMMA StepIsLegal == IInv /\ [Next]_vars => [LegalStep]_vars
<1> SUFFICES ASSUME IInv, Next PROVE LegalStep
  OBVIOUS
<1> USE DEF LegalStep
<1>1. ASSUME NEW i \in Investors, NEW a \in Amounts,
             Contribute(i, a) \/ ContributeAndSettle(i, a)
      PROVE  LegalStep
  BY <1>1 DEF Contribute, ReachesGoal, ContributeAndSettle, MayContribute, RecordContribution
<1>2. ASSUME NEW i \in Investors, Withdraw(i)
      PROVE  LegalStep
  BY <1>2 DEF Withdraw
<1>3. ASSUME NEW i \in Investors, Refund(i)
      PROVE  LegalStep
  BY <1>3 DEF Refund, Refundable, IInv, TypeOK
<1>4. ASSUME NEW batch \in Batches, Sweep(batch)
      PROVE  LegalStep
  BY <1>4 DEF Sweep, Refundable, IInv, TypeOK
<1>5. ASSUME NEW acc \in Closable, CloseOrReopen(acc)
      PROVE  LegalStep
  BY <1>5 DEF CloseOrReopen, IInv, TypeOK
<1>6. CASE Tick
  BY <1>6 DEF Tick, IInv, TypeOK
<1>7. QED
  BY <1>1, <1>2, <1>3, <1>4, <1>5, <1>6 DEF Next

\* The vault settles only before the deadline, starts refunding only from the
\* deadline on and below the goal, and both ends are final.
THEOREM StateMachine == Spec => LegalTransitions
BY Invariance, StepIsLegal, PTL DEF Spec, LegalTransitions

\* A vault that has just been deployed is an empty escrow.
LEMMA InitRefines == Init => E!Init
BY VaultAssumption DEF Init, E!Init, Zero, Accounts

\* What the refinement needs to know about a payment back to one investor.
LEMMA WalletAfterPayBack ==
  ASSUME IInv, NEW i \in Investors,
         CanMove(Vault, i, contribution[i]),
         balance' = Moved(balance, Vault, i, contribution[i])
  PROVE  \A j \in Investors :
           balance'[j] = IF j = i THEN balance[j] + contribution[j] ELSE balance[j]
BY VaultAssumption DEF IInv, TypeOK, CanMove, Moved, Accounts

\* Every step of the vault is a step of the escrow or leaves it unchanged.
LEMMA StepRefines == IInv /\ [Next]_vars => [E!Next]_(E!vars)
<1> SUFFICES ASSUME IInv, [Next]_vars PROVE [E!Next]_(E!vars)
  OBVIOUS
<1>1. ASSUME NEW i \in Investors, NEW a \in Amounts, Contribute(i, a)
      PROVE  E!Next
  <2>1. a \in 1..balance[i] /\ state = "Funding" /\ state' = "Funding"
    BY <1>1, VaultAssumption
       DEF Contribute, MayContribute, CanMove, IInv, TypeOK, Accounts
  <2>2. \A j \in Investors : balance'[j] = IF j = i THEN balance[j] - a ELSE balance[j]
    BY <1>1, VaultAssumption DEF Contribute, Moved, IInv, TypeOK, Accounts
  <2>3. total + a < Goal
    BY <1>1, <2>1, VaultAssumption DEF Contribute, ReachesGoal, IInv, TypeOK, Accounts
  <2>4. E!Deposit(i, a)
    BY <1>1, <2>1, <2>2, <2>3
       DEF E!Deposit, Contribute, RecordContribution, IInv, TypeOK
  <2>5. QED
    BY <2>1, <2>4 DEF E!Next
<1>2. ASSUME NEW i \in Investors, NEW a \in Amounts, ContributeAndSettle(i, a)
      PROVE  E!Next
  <2>1. a \in 1..balance[i] /\ state = "Funding" /\ state' = "Settled"
    BY <1>2, VaultAssumption
       DEF ContributeAndSettle, MayContribute, CanMove, IInv, TypeOK, Accounts
  <2>2. \A j \in Investors : balance'[j] = IF j = i THEN balance[j] - a ELSE balance[j]
    BY <1>2, VaultAssumption DEF ContributeAndSettle, Moved, IInv, TypeOK, Accounts
  <2>3. E!DepositAndPay(i, a)
    BY <1>2, <2>1, <2>2
       DEF E!DepositAndPay, ContributeAndSettle, ReachesGoal, RecordContribution, Zero, IInv, TypeOK
  <2>4. QED
    BY <2>1, <2>3 DEF E!Next
<1>3. ASSUME NEW i \in Investors, Withdraw(i)
      PROVE  E!Next
  <2>1. \A j \in Investors :
          balance'[j] = IF j = i THEN balance[j] + contribution[j] ELSE balance[j]
    BY <1>3, WalletAfterPayBack DEF Withdraw
  <2>2. E!TakeBack(i)
    BY <1>3, <2>1 DEF E!TakeBack, Withdraw, IInv, TypeOK
  <2>3. QED
    BY <2>2 DEF E!Next
<1>4. ASSUME NEW i \in Investors, Refund(i)
      PROVE  E!Next
  <2>1. \A j \in Investors :
          balance'[j] = IF j = i THEN balance[j] + contribution[j] ELSE balance[j]
    BY <1>4, WalletAfterPayBack DEF Refund
  <2>2. E!Return({i}) /\ {i} \in SUBSET Investors
    BY <1>4, <2>1 DEF E!Return, Refund, Refundable, IInv, TypeOK
  <2>3. QED
    BY <2>2 DEF E!Next
<1>5. ASSUME NEW batch \in Batches, Sweep(batch)
      PROVE  E!Next
  <2>1. PICK S \in SUBSET Investors : \A j \in Investors : j \in S <=> j \in Payees(batch)
    <3>1. {j \in Investors : j \in Payees(batch)} \in SUBSET Investors
      OBVIOUS
    <3>2. WITNESS {j \in Investors : j \in Payees(batch)} \in SUBSET Investors
    <3>3. QED
      OBVIOUS
  <2>2. \A j \in Investors :
          balance'[j] = IF j \in S THEN balance[j] + contribution[j] ELSE balance[j]
    BY <1>5, <2>1, VaultAssumption DEF Sweep, IInv, TypeOK, Accounts
  <2>3. E!Return(S)
    BY <1>5, <2>1, <2>2 DEF E!Return, Sweep, Refundable, IInv, TypeOK
  <2>4. QED
    BY <2>1, <2>3 DEF E!Next
<1>6. ASSUME NEW acc \in Closable, CloseOrReopen(acc)
      PROVE  UNCHANGED E!vars
  BY <1>6 DEF CloseOrReopen, E!vars
<1>7. ASSUME Tick
      PROVE  UNCHANGED E!vars
  BY <1>7 DEF Tick, E!vars
<1>8. ASSUME UNCHANGED vars
      PROVE  UNCHANGED E!vars
  BY <1>8 DEF vars, E!vars
<1>9. QED
  BY <1>1, <1>2, <1>3, <1>4, <1>5, <1>6, <1>7, <1>8 DEF Next

\* The contract implements the promise of Escrow: every step of it is a step of
\* the escrow or changes nothing the escrow talks about.
THEOREM Implementation == Spec => ImplementsEscrow
BY Invariance, InitRefines, StepRefines, PTL DEF Spec, ImplementsEscrow, E!Spec
-----------------------------------------------------------------------------
(* The contributors index. *)

\* A step that leaves the index alone and gives nobody a first entry keeps it complete.
LEMMA SameIndex ==
  ASSUME IndexComplete, UNCHANGED contributors,
         \A i \in Investors : contribution'[i] > 0 => contribution[i] > 0
  PROVE  IndexComplete'
BY DEF IndexComplete, IsInjective, Range

\* A contribution indexes its address exactly once: at the first, and not again after
\* the address has left and come back.
LEMMA RecordIndexes ==
  ASSUME IInv, IndexComplete, NEW i \in Investors, NEW a \in Nat, RecordContribution(i, a)
  PROVE  IndexComplete'
<1>1. /\ contributors \in Seq(Investors) /\ contribution \in [Investors -> Nat]
      /\ contribution' = [contribution EXCEPT ![i] = @ + a]
  BY DEF IInv, TypeOK, RecordContribution
<1>2. \A j \in Investors \ {i} : contribution'[j] = contribution[j]
  BY <1>1
<1>3. CASE contribution[i] = 0 /\ i \notin Range(contributors)
  <2>1. contributors' = Append(contributors, i)
    BY <1>3 DEF RecordContribution, Indexed
  <2>2. /\ DOMAIN contributors' = DOMAIN contributors \cup {Len(contributors) + 1}
        /\ Len(contributors) + 1 \notin DOMAIN contributors
        /\ contributors'[Len(contributors) + 1] = i
        /\ \A n \in DOMAIN contributors : contributors'[n] = contributors[n]
    BY <1>1, <2>1
  <2>3. \A n \in DOMAIN contributors : contributors[n] # i
    BY <1>3 DEF Range
  <2>4. IsInjective(contributors')
    BY <2>2, <2>3 DEF IndexComplete, IsInjective
  <2>5. Range(contributors') = Range(contributors) \cup {i}
    BY <2>2 DEF Range
  <2>6. QED
    BY <1>2, <2>4, <2>5 DEF IndexComplete
<1>4. CASE ~(contribution[i] = 0 /\ i \notin Range(contributors))
  <2>1. contributors' = contributors
    BY <1>4 DEF RecordContribution, Indexed
  <2>2. i \in Range(contributors)
    BY <1>1, <1>4 DEF IndexComplete
  <2>3. QED
    BY <1>2, <2>1, <2>2 DEF IndexComplete
<1>5. QED
  BY <1>3, <1>4

\* Every step keeps the index complete.
LEMMA StepKeepsIndex == IInv /\ IndexComplete /\ [Next]_vars => IndexComplete'
<1> SUFFICES ASSUME IInv, IndexComplete, [Next]_vars PROVE IndexComplete'
  OBVIOUS
<1>1. contribution \in [Investors -> Nat]
  BY DEF IInv, TypeOK
<1>2. ASSUME NEW i \in Investors, NEW a \in Amounts,
             Contribute(i, a) \/ ContributeAndSettle(i, a)
      PROVE  IndexComplete'
  <2>1. a \in Nat /\ RecordContribution(i, a)
    BY <1>2, VaultAssumption DEF Contribute, ContributeAndSettle, MayContribute
  <2>2. QED
    BY <2>1, RecordIndexes
<1>3. ASSUME NEW i \in Investors, Withdraw(i) \/ Refund(i)
      PROVE  IndexComplete'
  BY <1>1, <1>3, SameIndex DEF Withdraw, Refund
<1>4. ASSUME NEW batch \in Batches, Sweep(batch)
      PROVE  IndexComplete'
  BY <1>1, <1>4, SameIndex DEF Sweep
<1>5. CASE Tick \/ (\E acc \in Closable : CloseOrReopen(acc)) \/ UNCHANGED vars
  BY <1>5, SameIndex DEF Tick, CloseOrReopen, vars
<1>6. QED
  BY <1>2, <1>3, <1>4, <1>5 DEF Next

\* The index a sweep is built from names every address that is owed money and none twice,
\* in whatever order investors come, leave, return and are refunded.
THEOREM IndexNamesEveryone == Spec => []IndexComplete
<1>1. Init => IndexComplete
  BY DEF Init, IndexComplete, IsInjective
<1>2. QED
  BY <1>1, Invariance, StepKeepsIndex, PTL DEF Spec

-----------------------------------------------------------------------------
(* What the vault holds, and what it owes. *)

\* The entries are whole amounts of finitely many investors, so what the vault owes
\* any of them is a whole amount, and covers each entry.
LEMMA OwedIsNat ==
  ASSUME TypeOK, NEW S \in SUBSET Investors
  PROVE  /\ OwedTo(S) \in Nat
         /\ \A i \in S : contribution[i] <= OwedTo(S)
<1>1. IsFiniteSet(S) /\ \A i \in S : contribution[i] \in Nat
  BY VaultAssumption, FS_Subset DEF TypeOK
<1>2. QED
  BY <1>1, SumOfNats DEF OwedTo

\* When one entry changes, what the vault owes changes by as much.
LEMMA OwedAfterOne ==
  ASSUME TypeOK, NEW i \in Investors, NEW n \in Nat,
         contribution' = [contribution EXCEPT ![i] = n]
  PROVE  OwedTo(Investors)' = OwedTo(Investors) + (n - contribution[i])
<1> DEFINE after == contribution'
<1>1. /\ IsFiniteSet(Investors)
      /\ \A j \in Investors : contribution[j] \in Int /\ after[j] \in Int
      /\ \A j \in Investors \ {i} : after[j] = contribution[j]
      /\ after[i] = n
  BY VaultAssumption DEF TypeOK
<1> HIDE DEF after
<1>2. SumFunctionOnSet(after, Investors)
        = SumFunctionOnSet(contribution, Investors) + (after[i] - contribution[i])
  <2>1. IsFiniteSet(Investors)
    BY <1>1
  <2>2. \A j \in Investors : contribution[j] \in Int /\ after[j] \in Int
    BY <1>1
  <2>3. \A j \in Investors \ {i} : after[j] = contribution[j]
    BY <1>1
  <2>4. QED
    BY <2>1, <2>2, <2>3, SumExcept
<1>3. SumFunctionOnSet(after, Investors)
        = SumFunctionOnSet(contribution, Investors) + (n - contribution[i])
  BY <1>1, <1>2
<1>4. QED
  BY <1>3 DEF OwedTo, after

\* When the entries of some investors are cleared, what remains is owed to the others.
LEMMA OwedAfterSome ==
  ASSUME TypeOK, NEW S \in SUBSET Investors,
         contribution' = [i \in Investors |-> IF i \in S THEN 0 ELSE contribution[i]]
  PROVE  OwedTo(Investors)' = OwedTo(Investors) - OwedTo(S)
<1>1. /\ IsFiniteSet(Investors) /\ IsFiniteSet(S) /\ IsFiniteSet(Investors \ S)
      /\ \A j \in Investors : contribution[j] \in Nat /\ contribution'[j] \in Nat
      /\ \A j \in Investors \ S : contribution'[j] = contribution[j]
      /\ \A j \in S : contribution'[j] = 0
  BY VaultAssumption, FS_Subset DEF TypeOK
<1> DEFINE Sum(f, s) == SumFunctionOnSet(f, s)
<1>2. /\ Sum(contribution, Investors) = Sum(contribution, S) + Sum(contribution, Investors \ S)
      /\ Sum(contribution', Investors) = Sum(contribution', S) + Sum(contribution', Investors \ S)
  BY <1>1, SumSplit
<1>3. Sum(contribution', Investors \ S) = Sum(contribution, Investors \ S)
  BY <1>1, SumSame
<1>4. Sum(contribution', S) = 0
  <2>1. Sum(contribution', S) <= Cardinality(S) * 0 /\ Sum(contribution', S) \in Nat
    BY <1>1, SumBounded, SumOfNats
  <2>2. Cardinality(S) \in Nat
    BY <1>1, FS_CardinalityType
  <2>3. QED
    BY <2>1, <2>2
<1>5. Sum(contribution, S) \in Nat /\ Sum(contribution, Investors \ S) \in Nat
  BY <1>1, SumOfNats
<1>6. QED
  BY <1>2, <1>3, <1>4, <1>5 DEF OwedTo

\* A vault that has just been deployed holds nothing and owes nothing.
LEMMA InitSolvent == Init => Solvent
<1> SUFFICES ASSUME Init PROVE Solvent
  OBVIOUS
<1>1. OwedTo(Investors) = 0
  <2>1. /\ IsFiniteSet(Investors)
        /\ \A j \in Investors : contribution[j] = 0
    BY VaultAssumption DEF Init
  <2>2. SumFunctionOnSet(contribution, Investors) <= Cardinality(Investors) * 0
    BY <2>1, SumBounded
  <2>3. OwedTo(Investors) \in Nat /\ Cardinality(Investors) \in Nat
    BY <2>1, InitIInv, OwedIsNat, FS_CardinalityType DEF IInv
  <2>4. QED
    BY <2>2, <2>3 DEF OwedTo
<1>2. QED
  BY <1>1, VaultAssumption DEF Init, Solvent, Accounts

\* A contribution is owed to its investor from the moment the vault holds it; the one
\* that reaches the goal leaves the entries behind as the record of who paid.
LEMMA ContributeSolvent ==
  ASSUME IInv, Solvent, NEW i \in Investors, NEW a \in Amounts,
         Contribute(i, a) \/ ContributeAndSettle(i, a)
  PROVE  Solvent'
<1>1. /\ a \in Nat /\ state = "Funding" /\ TypeOK
      /\ total' = total + a
      /\ contribution' = [contribution EXCEPT ![i] = contribution[i] + a]
  BY VaultAssumption
     DEF IInv, Contribute, ContributeAndSettle, MayContribute, RecordContribution
<1>2. contribution[i] \in Nat /\ OwedTo(Investors) \in Nat
  BY <1>1, OwedIsNat DEF TypeOK
<1>3. OwedTo(Investors)' = OwedTo(Investors) + a
  <2>1. contribution[i] + a \in Nat
    BY <1>1, <1>2
  <2>2. OwedTo(Investors)' = OwedTo(Investors) + ((contribution[i] + a) - contribution[i])
    BY <1>1, <2>1, OwedAfterOne
  <2>3. QED
    BY <1>1, <1>2, <2>2
<1>4. total' = OwedTo(Investors)' /\ balance[Vault] = total
  BY <1>1, <1>3 DEF Solvent
<1>5. /\ Vault \in Accounts /\ i \in Accounts /\ Sme \in Accounts
      /\ Vault # i /\ Vault # Sme /\ Sme # i
      /\ balance \in [Accounts -> Nat] /\ total \in Nat
  BY <1>1, VaultAssumption DEF TypeOK, Accounts
<1>6. CASE Contribute(i, a)
  <2>1. balance'[Vault] = balance[Vault] + a /\ state' = "Funding"
    BY <1>1, <1>5, <1>6 DEF Contribute, Moved
  <2>2. QED
    BY <1>1, <1>4, <2>1 DEF Solvent
<1>7. CASE ContributeAndSettle(i, a)
  <2>1. balance'[Vault] = (balance[Vault] + a) - (total + a) /\ state' = "Settled"
    BY <1>1, <1>5, <1>7 DEF ContributeAndSettle, Moved
  <2>2. balance'[Vault] = 0
    BY <1>1, <1>4, <1>5, <2>1
  <2>3. QED
    BY <1>4, <2>1, <2>2 DEF Solvent
<1>8. QED
  BY <1>6, <1>7

\* What is paid back was held, and is owed no longer.
LEMMA PayBackSolvent ==
  ASSUME IInv, Solvent, NEW i \in Investors, Withdraw(i) \/ Refund(i)
  PROVE  Solvent'
<1>1. /\ TypeOK /\ state # "Settled" /\ state' # "Settled"
      /\ contribution' = [contribution EXCEPT ![i] = 0]
      /\ balance' = Moved(balance, Vault, i, contribution[i])
  BY DEF IInv, Withdraw, Refund, Refundable
<1>2. contribution[i] \in Nat /\ OwedTo(Investors) \in Nat
  BY <1>1, OwedIsNat DEF TypeOK
<1>3. OwedTo(Investors)' = OwedTo(Investors) - contribution[i]
  <2>1. OwedTo(Investors)' = OwedTo(Investors) + (0 - contribution[i])
    BY <1>1, OwedAfterOne
  <2>2. QED
    BY <1>2, <2>1
<1>4. balance'[Vault] = balance[Vault] - contribution[i]
  BY <1>1, VaultAssumption DEF Moved, TypeOK, Accounts
<1>5. balance'[Vault] = OwedTo(Investors)'
  BY <1>1, <1>3, <1>4 DEF Solvent
<1>6. state' # "Refunding" => total' = OwedTo(Investors)'
  <2>1. CASE Withdraw(i)
    BY <1>3, <2>1 DEF Withdraw, Solvent
  <2>2. CASE Refund(i)
    BY <2>2 DEF Refund
  <2>3. QED
    BY <2>1, <2>2
<1>7. QED
  BY <1>1, <1>5, <1>6 DEF Solvent

\* A sweep pays out exactly the entries it clears, whatever the batch names twice.
LEMMA SweepSolvent ==
  ASSUME IInv, Solvent, NEW batch \in Batches, Sweep(batch)
  PROVE  Solvent'
<1>1. /\ TypeOK /\ state # "Settled" /\ state' = "Refunding"
      /\ contribution' = [i \in Investors |-> IF i \in Payees(batch) THEN 0 ELSE contribution[i]]
  BY DEF IInv, Sweep, Refundable
<1>2. Payees(batch) \in SUBSET Investors
  BY VaultAssumption DEF Payees, Range
<1>3. OwedTo(Investors)' = OwedTo(Investors) - OwedTo(Payees(batch))
  BY <1>1, <1>2, OwedAfterSome
<1>4. balance'[Vault] = balance[Vault] - OwedTo(Payees(batch))
  BY VaultAssumption DEF Sweep, Accounts
<1>5. QED
  BY <1>1, <1>3, <1>4 DEF Solvent

\* Every step of the contract leaves it solvent.
LEMMA StepSolvent == IInv /\ Solvent /\ [Next]_vars => Solvent'
<1> SUFFICES ASSUME IInv, Solvent, [Next]_vars PROVE Solvent'
  OBVIOUS
<1>1. ASSUME NEW i \in Investors, NEW a \in Amounts,
             Contribute(i, a) \/ ContributeAndSettle(i, a)
      PROVE  Solvent'
  BY <1>1, ContributeSolvent
<1>2. ASSUME NEW i \in Investors, Withdraw(i) \/ Refund(i)
      PROVE  Solvent'
  BY <1>2, PayBackSolvent
<1>3. ASSUME NEW batch \in Batches, Sweep(batch)
      PROVE  Solvent'
  BY <1>3, SweepSolvent
<1>4. CASE Tick \/ (\E acc \in Closable : CloseOrReopen(acc)) \/ UNCHANGED vars
  BY <1>4 DEF Tick, CloseOrReopen, vars, Solvent, OwedTo
<1>5. QED
  BY <1>1, <1>2, <1>3, <1>4 DEF Next

\* The contract holds at every moment exactly what its entries say it owes, and nothing
\* once the SME has been paid: no sequence of contributions, withdrawals, refunds and
\* sweeps leaves an investor behind whose entry is not covered.
THEOREM Solvency == Spec => []Solvent
BY InitSolvent, Invariance, StepSolvent, PTL DEF Spec

\* Until the SME is paid, an investor with an entry and an open account can have it back
\* in the very next transaction: by withdraw while the campaign is funding, by refund
\* afterwards.  The transfer cannot fail for want of money.
THEOREM ExitGuardsHold ==
  ASSUME IInv, Solvent, state # "Settled", NEW i \in Investors,
         contribution[i] > 0, i \notin closed
  PROVE  /\ CanMove(Vault, i, contribution[i])
         /\ state = "Funding" \/ Refundable
<1>1. balance[Vault] >= contribution[i]
  BY OwedIsNat DEF IInv, Solvent
<1>2. Vault \notin closed
  BY VaultAssumption DEF IInv, TypeOK
<1>3. state \in {"Funding", "Refunding"}
  BY DEF IInv, TypeOK, States
<1>4. QED
  BY <1>1, <1>2, <1>3 DEF CanMove, Refundable

-----------------------------------------------------------------------------
(* The way out. *)

\* The deadline has passed without a settlement, and who is owed money then.
Missed == now >= Deadline /\ state # "Settled"
Owed == {i \in Investors : contribution[i] > 0}

\* From a missed deadline on money only goes back: the campaign never settles and stays
\* refundable, an entry is left as it is or paid out in full to its own investor, nobody becomes
\* owed anew, and a refund or a sweep that gets through owes nobody it names any more.  The set
\* Owed only shrinks, by every such call: with somebody who calls, everyone is paid back.
OnlyBack ==
  /\ Missed' /\ Refundable' /\ Owed' \subseteq Owed
  /\ \A i \in Investors :
       \/ contribution'[i] = contribution[i] /\ balance'[i] = balance[i]
       \/ contribution'[i] = 0 /\ balance'[i] = balance[i] + contribution[i]
  /\ \A i \in Investors : Refund(i) => Owed' = Owed \ {i} /\ i \in Owed
  /\ \A batch \in Batches : Sweep(batch) => Owed' = Owed \ Range(batch)

RefundsOnlyDrain == [][Missed => OnlyBack]_vars

\* A vault that missed its deadline refunds whoever asks.
LEMMA MissedIsRefundable == IInv /\ Missed => Refundable
BY DEF IInv, TypeOK, States, NoWindowAtGoal, Missed, Refundable

\* After a missed deadline an entry stays, or is cleared, with every step.
LEMMA EntriesDrain ==
  ASSUME IInv, Missed, [Next]_vars
  PROVE  /\ Missed'
         /\ \A i \in Investors : contribution'[i] \in {0, contribution[i]}
<1>1. now \in Int /\ Deadline \in Int /\ contribution \in [Investors -> Nat]
  BY VaultAssumption DEF IInv, TypeOK
<1>2. ASSUME NEW i \in Investors, Withdraw(i) \/ Refund(i)
      PROVE  Missed' /\ \A j \in Investors : contribution'[j] \in {0, contribution[j]}
  BY <1>1, <1>2 DEF Withdraw, Refund, Missed
<1>3. ASSUME NEW batch \in Batches, Sweep(batch)
      PROVE  Missed' /\ \A j \in Investors : contribution'[j] \in {0, contribution[j]}
  BY <1>1, <1>3 DEF Sweep, Missed
<1>4. ASSUME NEW i \in Investors, NEW a \in Amounts, Contribute(i, a) \/ ContributeAndSettle(i, a)
      PROVE  FALSE
  BY <1>1, <1>4 DEF Contribute, ContributeAndSettle, MayContribute, Missed
<1>5. CASE Tick \/ (\E acc \in Closable : CloseOrReopen(acc)) \/ UNCHANGED vars
  BY <1>1, <1>5 DEF Tick, CloseOrReopen, vars, Missed
<1>6. QED
  BY <1>2, <1>3, <1>4, <1>5 DEF Next

\* A refund clears the entry it names and no other.
LEMMA RefundDrains ==
  ASSUME IInv, NEW i \in Investors, Refund(i)
  PROVE  Owed' = Owed \ {i} /\ i \in Owed
BY DEF Refund, Owed, IInv, TypeOK

\* A sweep clears the entries its batch names and no other.
LEMMA SweepDrains ==
  ASSUME IInv, NEW batch \in Batches, Sweep(batch)
  PROVE  Owed' = Owed \ Range(batch)
<1>1. \A j \in Investors : contribution'[j] = IF j \in Payees(batch) THEN 0 ELSE contribution[j]
  BY DEF Sweep
<1>2. \A j \in Investors : j \in Payees(batch) <=> j \in Range(batch) /\ contribution[j] > 0
  <2>1. batch \in Seq(Investors)
    BY VaultAssumption
  <2>2. Range(batch) \subseteq Investors
    BY <2>1 DEF Range
  <2>3. QED
    BY <2>2 DEF Payees
<1>3. contribution \in [Investors -> Nat]
  BY DEF IInv, TypeOK
<1>4. QED
  BY <1>1, <1>2, <1>3 DEF Owed

\* RefundsOnlyDrain, for any investors, batches and order of the calls.
THEOREM RefundsDrain == Spec => RefundsOnlyDrain
<1>1. IInv /\ Missed /\ [Next]_vars => OnlyBack
  <2> SUFFICES ASSUME IInv, Missed, [Next]_vars PROVE OnlyBack
    OBVIOUS
  <2>1. /\ Missed'
        /\ \A i \in Investors : contribution'[i] \in {0, contribution[i]}
    BY EntriesDrain
  <2>2. IInv'
    BY NextIInv
  <2>3. Refundable'
    <3>1. (IInv /\ Missed => Refundable)'
      BY MissedIsRefundable, PTL
    <3>2. QED
      BY <2>1, <2>2, <3>1
  <2>4. \A i \in Investors :
          /\ contribution[i] \in Nat /\ balance[i] \in Nat /\ balance'[i] \in Nat
          /\ balance[i] + contribution[i] = InitialBalance[i]
          /\ balance'[i] + contribution'[i] = InitialBalance[i]
    BY <2>2 DEF IInv, TypeOK, NobodyRedirects, Accounts
  <2>5. Owed' \subseteq Owed
    BY <2>1, <2>4 DEF Owed
  <2>6. ASSUME NEW i \in Investors
        PROVE  \/ contribution'[i] = contribution[i] /\ balance'[i] = balance[i]
               \/ contribution'[i] = 0 /\ balance'[i] = balance[i] + contribution[i]
    BY <2>1, <2>4
  <2>7. QED
    BY <2>1, <2>3, <2>5, <2>6, RefundDrains, SweepDrains DEF OnlyBack
<1>2. IInv /\ [Next]_vars => [Missed => OnlyBack]_vars
  BY <1>1
<1>3. QED
  BY <1>2, Invariance, PTL DEF Spec, RefundsOnlyDrain

-----------------------------------------------------------------------------
(* How many it takes to settle. *)

\* The check of every contribution against the cap holds the whole entry to it.
EntriesWithinCap == \A i \in Investors : contribution[i] <= Cap

\* A step that gives nobody more than the cap keeps every entry within it.
LEMMA StepKeepsCap == IInv /\ EntriesWithinCap /\ [Next]_vars => EntriesWithinCap'
<1> SUFFICES ASSUME IInv, EntriesWithinCap, [Next]_vars PROVE EntriesWithinCap'
  OBVIOUS
<1>1. contribution \in [Investors -> Nat] /\ Cap \in Nat
  BY CapIsNat DEF IInv, TypeOK
<1>2. ASSUME NEW i \in Investors, NEW a \in Amounts,
             Contribute(i, a) \/ ContributeAndSettle(i, a)
      PROVE  EntriesWithinCap'
  <2>1. /\ contribution[i] + a <= Cap
        /\ contribution' = [contribution EXCEPT ![i] = contribution[i] + a]
    BY <1>2 DEF Contribute, ContributeAndSettle, MayContribute, RecordContribution
  <2>2. QED
    BY <1>1, <2>1 DEF EntriesWithinCap, Cap
<1>3. ASSUME NEW i \in Investors, Withdraw(i) \/ Refund(i)
      PROVE  EntriesWithinCap'
  BY <1>1, <1>3 DEF Withdraw, Refund, EntriesWithinCap, Cap
<1>4. ASSUME NEW batch \in Batches, Sweep(batch)
      PROVE  EntriesWithinCap'
  BY <1>1, <1>4 DEF Sweep, EntriesWithinCap, Cap
<1>5. CASE Tick \/ (\E acc \in Closable : CloseOrReopen(acc)) \/ UNCHANGED vars
  BY <1>5 DEF Tick, CloseOrReopen, vars, EntriesWithinCap, Cap
<1>6. QED
  BY <1>2, <1>3, <1>4, <1>5 DEF Next

\* n contributors of at most goal \div divisor each reach the goal only when there are at
\* least divisor of them.
LEMMA ManyAreNeeded ==
  ASSUME NEW n \in Nat, NEW goal \in Nat, goal > 0, NEW divisor \in Nat, divisor > 0,
         NEW sum \in Nat, sum >= goal, sum <= n * (goal \div divisor)
  PROVE  n >= divisor
<1> DEFINE cap == goal \div divisor
<1>1. cap \in Nat /\ divisor * cap <= goal
  OBVIOUS
<1> SUFFICES ASSUME n < divisor PROVE FALSE
  OBVIOUS
<1> HIDE DEF cap
<1>2. n * cap >= goal
  BY <1>1 DEF cap
<1>3. n + 1 <= divisor /\ divisor - (n + 1) \in Nat
  OBVIOUS
<1>4. (divisor - (n + 1)) * cap >= 0
  BY <1>1, <1>3
<1>5. divisor * cap = (divisor - (n + 1)) * cap + n * cap + cap
  BY <1>1, <1>3
<1>6. n * cap + cap <= goal
  BY <1>1, <1>4, <1>5
<1>7. cap = 0
  BY <1>1, <1>2, <1>6
<1>8. n * cap = 0
  BY <1>7
<1>9. QED
  BY <1>2, <1>8

\* A settled campaign has been paid for by investors who put in at most the cap each.
LEMMA BackersNeeded ==
  ASSUME IInv, Solvent, EntriesWithinCap
  PROVE  EnoughBackers
<1> SUFFICES ASSUME state = "Settled"
             PROVE  Cardinality({i \in Investors : contribution[i] > 0}) >= CapDivisor
  BY DEF EnoughBackers
<1> DEFINE backers == {i \in Investors : contribution[i] > 0}
<1>1. /\ backers \in SUBSET Investors /\ IsFiniteSet(backers) /\ IsFiniteSet(Investors \ backers)
      /\ \A i \in Investors : contribution[i] \in Nat /\ contribution[i] <= Cap
      /\ \A i \in Investors \ backers : contribution[i] <= 0
  BY VaultAssumption, FS_Subset DEF IInv, TypeOK, EntriesWithinCap
<1> HIDE DEF backers
<1>2. /\ Cardinality(backers) \in Nat /\ Cardinality(Investors \ backers) \in Nat
      /\ Cap \in Int /\ Goal \in Nat /\ Goal > 0 /\ CapDivisor \in Nat /\ CapDivisor > 0
  BY <1>1, FS_CardinalityType, CapIsNat, VaultAssumption
<1>3. SumFunctionOnSet(contribution, Investors \ backers) <= 0
  <2>1. SumFunctionOnSet(contribution, Investors \ backers) <= Cardinality(Investors \ backers) * 0
    BY <1>1, SumBounded
  <2>2. QED
    BY <1>2, <2>1
<1>4. SumFunctionOnSet(contribution, backers) <= Cardinality(backers) * Cap
  <2>1. \A i \in backers : contribution[i] \in Int /\ contribution[i] <= Cap
    BY <1>1
  <2>2. QED
    BY <1>1, <1>2, <2>1, SumBounded
<1>5. /\ SumFunctionOnSet(contribution, Investors) =
           SumFunctionOnSet(contribution, backers) + SumFunctionOnSet(contribution, Investors \ backers)
      /\ SumFunctionOnSet(contribution, backers) \in Nat
      /\ SumFunctionOnSet(contribution, Investors \ backers) \in Nat
  <2>1. IsFiniteSet(Investors) /\ \A i \in Investors : contribution[i] \in Int
    BY <1>1, VaultAssumption
  <2>2. SumFunctionOnSet(contribution, Investors) =
          SumFunctionOnSet(contribution, backers) + SumFunctionOnSet(contribution, Investors \ backers)
    BY <1>1, <2>1, SumSplit
  <2>3. SumFunctionOnSet(contribution, backers) \in Nat
    BY <1>1, SumOfNats
  <2>4. SumFunctionOnSet(contribution, Investors \ backers) \in Nat
    BY <1>1, SumOfNats
  <2>5. QED
    BY <2>2, <2>3, <2>4
<1>6. /\ SumFunctionOnSet(contribution, backers) >= Goal
      /\ SumFunctionOnSet(contribution, backers) <= Cardinality(backers) * (Goal \div CapDivisor)
  <2>1. total = SumFunctionOnSet(contribution, Investors) /\ total >= Goal
    BY DEF IInv, Solvent, NoWindowAtGoal, OwedTo
  <2>2. SumFunctionOnSet(contribution, backers) >= Goal
    BY <1>2, <1>3, <1>5, <2>1
  <2>3. QED
    BY <1>4, <2>2 DEF Cap
<1>7. Cardinality(backers) >= CapDivisor
  BY <1>2, <1>5, <1>6, ManyAreNeeded
<1>8. QED
  BY <1>7 DEF backers

\* Settling takes at least CapDivisor distinct investors (ten in the contract, a tenth
\* of the goal each), however they split, withdraw and repeat their contributions.
THEOREM Backers == Spec => []EnoughBackers
<1>1. Init => EntriesWithinCap
  BY CapIsNat DEF Init, EntriesWithinCap
<1>2. Spec => []EntriesWithinCap
  BY <1>1, Invariance, StepKeepsCap, PTL DEF Spec
<1>3. QED
  BY <1>2, Invariance, Solvency, BackersNeeded, PTL

-----------------------------------------------------------------------------
(* The mirror. *)

\* The reads a request has made are those of a vault that has not ended otherwise since:
\* an end it has seen is the vault's, and a total it read after that is the last one.
SawTheEnd(r) ==
  /\ r.pc \in {"total", "find", "update"} /\ r.state # "open" => r.state = Mapped(state)
  /\ r.pc \in {"find", "update"} /\ r.state # "open" => r.total = total

\* A request has read what it is about to write, and compared it with the row.
Ready(r) ==
  /\ r.observed <= clock
  /\ r.pc = "update" /\ r.status = "in_sync" => r.state = r.expected
  /\ r.pc = "update" /\ r.investor # NoOne => r.amount # Unread
  /\ r.pc \in {"contribution", "overwrite"} => r.investor # NoOne /\ r.amount # Unread
  /\ r.pc = "overwrite" => r.amount > 0

\* A request that began after the settlement has read the final amount.
ReadAfterTheEnd(r) ==
  state = "Settled" /\ r.observed > settledAt /\ r.investor # NoOne /\ r.amount # Unread
    => r.amount = contribution[r.investor]

Faithful(r) == SawTheEnd(r) /\ Ready(r) /\ ReadAfterTheEnd(r)

MInv ==
  /\ IInv
  /\ MirrorTypeOK
  /\ ConclusionsAreExact
  /\ ObservedAfterTheEndIsFinal
  /\ \A q \in Requests : Faithful(request[q])

-----------------------------------------------------------------------------
(* The vault's part. *)

\* Only a vault that is funding is mapped to an open campaign.
LEMMA MappedFunding ==
  ASSUME state \in States
  PROVE  /\ Mapped(state) \in CampaignStates
         /\ Mapped(state) = "open" <=> state = "Funding"
<1>1. CASE state = "Funding"
  BY <1>1 DEF Mapped, CampaignStates
<1>2. CASE state = "Settled"
  BY <1>2 DEF Mapped, CampaignStates
<1>3. CASE state = "Refunding"
  BY <1>3 DEF Mapped, CampaignStates
<1>4. QED
  BY <1>1, <1>2, <1>3 DEF States

\* A step of the vault, as the mirror's specification takes it, is one of its own.
LEMMA VaultStepIsNext == VaultStep => Next
BY DEF VaultStep, Next

\* A vault that has ended keeps its state and its total, and once settled its entries too.
LEMMA EndedVaultStays ==
  ASSUME IInv, VaultStep
  PROVE  /\ state # "Funding" => state' = state /\ total' = total
         /\ state = "Settled" => contribution' = contribution
<1>1. LegalStep \/ UNCHANGED vars
  BY VaultStepIsNext, StepIsLegal
<1>2. (state # "Funding" => state' = state) /\ (state = "Settled" => contribution' = contribution)
  BY <1>1 DEF LegalStep, vars
<1>3. state # "Funding" => total' = total
  <2>1. ASSUME NEW i \in Investors, NEW a \in Amounts, state # "Funding"
        PROVE  ~Contribute(i, a) /\ ~ContributeAndSettle(i, a)
    BY <2>1 DEF Contribute, ContributeAndSettle, MayContribute
  <2>2. ASSUME NEW i \in Investors, state # "Funding"
        PROVE  ~Withdraw(i)
    BY <2>2 DEF Withdraw
  <2>3. ASSUME NEW i \in Investors, Refund(i)
        PROVE  total' = total
    BY <2>3 DEF Refund
  <2>4. ASSUME NEW batch \in Batches, Sweep(batch)
        PROVE  total' = total
    BY <2>4 DEF Sweep
  <2>5. Tick => total' = total
    BY DEF Tick
  <2>6. QED
    BY <2>1, <2>2, <2>3, <2>4, <2>5 DEF VaultStep
<1>4. QED
  BY <1>2, <1>3

-----------------------------------------------------------------------------
(* The inductive invariant. *)

\* The row openCampaign writes says what a new vault says.
LEMMA InitMInv == MirrorInit => MInv
<1> SUFFICES ASSUME MirrorInit PROVE MInv
  OBVIOUS
<1>1. IInv
  BY InitIInv DEF MirrorInit
<1>2. Goal > 0 /\ Goal \in Int /\ MaxClock \in Nat
  BY VaultAssumption, MirrorAssumption
<1>3. Idle \in RequestType
  BY <1>2 DEF Idle, RequestType, Instants, CampaignStates, Unread
<1>4. MirrorTypeOK
  <2>1. row \in RowType /\ row.total <= Goal /\ row.at <= clock /\ clock \in Instants /\ settledAt \in 0..clock
    BY <1>2 DEF MirrorInit, RowType, Instants, CampaignStates
  <2>2. mirrored \in [Investors -> [amount : Nat, at : Instants]]
    BY <1>2 DEF MirrorInit, NoRow, Instants
  <2>3. \A i \in Investors : mirrored[i] = NoRow /\ mirrored[i].at <= clock
    BY DEF MirrorInit, NoRow
  <2>4. request \in [Requests -> RequestType]
    BY <1>3 DEF MirrorInit
  <2>5. QED
    BY <2>1, <2>2, <2>3, <2>4 DEF MirrorTypeOK
<1>5. ConclusionsAreExact /\ ObservedAfterTheEndIsFinal
  BY DEF MirrorInit, Init, ConclusionsAreExact, ObservedAfterTheEndIsFinal
<1>6. \A q \in Requests : Faithful(request[q])
  BY DEF MirrorInit, Idle, Faithful, SawTheEnd, Ready, ReadAfterTheEnd, Unread
<1>7. QED
  BY <1>1, <1>4, <1>5, <1>6 DEF MInv

\* The vault goes on: what was read of a vault that had ended stays true.
LEMMA VaultStepMInv ==
  ASSUME MInv, VaultStep
  PROVE  MInv'
<1>1. IInv /\ IInv'
  BY VaultStepIsNext, NextIInv DEF MInv
<1>2. state \in States /\ state' \in States
  BY <1>1 DEF IInv, TypeOK
<1>3. UNCHANGED <<row, mirrored, request, clock>>
  BY DEF VaultStep, mirrorOnly
<1>4. /\ state # "Funding" => state' = state /\ total' = total
      /\ state = "Settled" => contribution' = contribution
  BY <1>1, EndedVaultStays
<1>5. /\ Mapped(state) = "open" <=> state = "Funding"
      /\ state # "Funding" => Mapped(state)' = Mapped(state)
  BY <1>2, <1>4, MappedFunding DEF Mapped
<1>6. settledAt' = IF state # "Settled" /\ state' = "Settled" THEN clock ELSE settledAt
  BY DEF VaultStep
<1>7. MirrorTypeOK /\ clock \in Nat
  BY MirrorAssumption DEF MInv, MirrorTypeOK, Instants
<1>8. MirrorTypeOK'
  BY <1>3, <1>6, <1>7 DEF MirrorTypeOK
<1>9. ConclusionsAreExact'
  BY <1>3, <1>4, <1>5 DEF MInv, ConclusionsAreExact
<1>10. ObservedAfterTheEndIsFinal'
  <2>1. ASSUME NEW i \in Investors, state' = "Settled", mirrored[i].at > settledAt'
        PROVE  mirrored[i].amount = contribution'[i]
    <3>1. mirrored[i].at \in Nat /\ mirrored[i].at <= clock
      BY <1>7, MirrorAssumption DEF MirrorTypeOK, Instants
    <3>2. state = "Settled" /\ settledAt' = settledAt
      BY <1>6, <1>7, <2>1, <3>1
    <3>3. QED
      BY <1>4, <2>1, <3>2 DEF MInv, ObservedAfterTheEndIsFinal
  <2>2. QED
    BY <1>3, <2>1 DEF ObservedAfterTheEndIsFinal
<1>11. ASSUME NEW q \in Requests
       PROVE  Faithful(request[q])'
  <2>1. Faithful(request[q]) /\ request[q] \in RequestType
    BY <1>7 DEF MInv, MirrorTypeOK
  <2>2. SawTheEnd(request[q])'
    BY <1>3, <1>4, <1>5, <2>1 DEF Faithful, SawTheEnd
  <2>3. Ready(request[q])'
    BY <1>3, <2>1 DEF Faithful, Ready
  <2>4. ReadAfterTheEnd(request[q])'
    <3>1. request[q].observed \in Nat /\ request[q].observed <= clock
      BY <2>1, MirrorAssumption DEF Faithful, Ready, RequestType, Instants
    <3>2. SUFFICES ASSUME state' = "Settled", request[q].observed > settledAt',
                          request[q].investor # NoOne, request[q].amount # Unread
                   PROVE  request[q].amount = contribution'[request[q].investor]
      BY <1>3 DEF ReadAfterTheEnd
    <3>3. state = "Settled" /\ settledAt' = settledAt
      BY <1>6, <1>7, <3>1, <3>2
    <3>4. QED
      BY <1>4, <2>1, <3>2, <3>3 DEF Faithful, ReadAfterTheEnd
  <2>5. QED
    BY <2>2, <2>3, <2>4 DEF Faithful
<1>12. QED
  BY <1>1, <1>8, <1>9, <1>10, <1>11 DEF MInv

\* What a step of one request leaves alone, and what is left to show of it.
LEMMA RequestStep ==
  ASSUME MInv, NEW q \in Requests, UNCHANGED <<vars, settledAt>>,
         MirrorTypeOK', ConclusionsAreExact', ObservedAfterTheEndIsFinal',
         clock' >= clock,
         \A p \in Requests \ {q} : request'[p] = request[p],
         Faithful(request[q])'
  PROVE  MInv'
<1>1. IInv'
  BY DEF MInv, IInv, vars, TypeOK, NoWindowAtGoal, NobodyRedirects, VaultHoldsTotal
<1>2. clock \in Nat /\ clock' \in Nat
  BY MirrorAssumption DEF MInv, MirrorTypeOK, Instants
<1>3. ASSUME NEW p \in Requests \ {q}
      PROVE  Faithful(request[p])'
  <2>1. request[p] \in RequestType /\ request'[p] = request[p] /\ Faithful(request[p])
    BY DEF MInv, MirrorTypeOK
  <2>2. SawTheEnd(request[p])' /\ ReadAfterTheEnd(request[p])'
    BY <2>1 DEF Faithful, SawTheEnd, ReadAfterTheEnd, vars, Mapped
  <2>3. Ready(request[p])'
    BY <1>2, <2>1, MirrorAssumption DEF Faithful, Ready, RequestType, Instants
  <2>4. QED
    BY <2>2, <2>3 DEF Faithful
<1>4. QED
  BY <1>1, <1>3 DEF MInv

\* The record of an idle request is one, and it has nothing to be faithful about.
LEMMA IdleIsFaithful ==
  ASSUME MInv
  PROVE  Idle \in RequestType /\ Faithful(Idle)
<1>1. clock \in Nat /\ clock >= 0 /\ MaxClock \in Nat
  BY MirrorAssumption DEF MInv, MirrorTypeOK, Instants
<1>2. Idle \in RequestType
  BY <1>1 DEF Idle, RequestType, Instants, CampaignStates, Unread
<1>3. Faithful(Idle)
  BY <1>1 DEF Idle, Faithful, SawTheEnd, Ready, ReadAfterTheEnd
<1>4. QED
  BY <1>2, <1>3

\* A request that begins has read nothing.
LEMMA BeginMInv ==
  ASSUME MInv, NEW q \in Requests, NEW i \in Investors \cup {NoOne}, Begin(q, i)
  PROVE  MInv'
<1> DEFINE begun == [Idle EXCEPT !.pc = First, !.investor = i, !.observed = clock']
<1>1. /\ request' = [request EXCEPT ![q] = begun]
      /\ clock' \in Instants /\ clock' \in {clock, clock + 1}
      /\ UNCHANGED <<vars, row, mirrored, settledAt>>
  BY DEF Begin
<1>2. MirrorTypeOK /\ clock \in Nat /\ clock' \in Nat /\ clock' >= clock
  BY <1>1, MirrorAssumption DEF MInv, MirrorTypeOK, Instants
<1>3. begun \in RequestType
  BY <1>1 DEF Idle, RequestType, First, CampaignStates, Unread
<1>4. begun.pc = "state" /\ begun.observed = clock' /\ begun.amount = Unread
  BY DEF Idle, First
<1> HIDE DEF begun
<1>5. request'[q] = begun /\ \A p \in Requests \ {q} : request'[p] = request[p]
  BY <1>1, <1>2 DEF MirrorTypeOK
<1>6. MirrorTypeOK'
  <2>1. request' \in [Requests -> RequestType]
    BY <1>1, <1>2, <1>3 DEF MirrorTypeOK
  <2>2. row.at \in Nat /\ settledAt \in Nat /\ \A j \in Investors : mirrored[j].at \in Nat
    BY <1>2, MirrorAssumption DEF MirrorTypeOK, RowType, Instants
  <2>3. QED
    BY <1>1, <1>2, <2>1, <2>2 DEF MirrorTypeOK
<1>7. ConclusionsAreExact' /\ ObservedAfterTheEndIsFinal'
  BY <1>1 DEF MInv, ConclusionsAreExact, ObservedAfterTheEndIsFinal, vars, Mapped
<1>8. Faithful(request[q])'
  BY <1>2, <1>4, <1>5 DEF Faithful, SawTheEnd, Ready, ReadAfterTheEnd
<1>9. QED
  BY <1>1, <1>2, <1>5, <1>6, <1>7, <1>8, RequestStep

\* A step of a request that writes no row: its own record is all there is to look at.
LEMMA ReadingStep ==
  ASSUME MInv, NEW q \in Requests, NEW r \in RequestType,
         request' = [request EXCEPT ![q] = r],
         UNCHANGED <<vars, row, mirrored, clock, settledAt>>,
         Faithful(r)
  PROVE  MInv'
<1>1. MirrorTypeOK /\ clock \in Nat /\ clock' \in Nat
  BY MirrorAssumption DEF MInv, MirrorTypeOK, Instants
<1>2. request'[q] = r /\ \A p \in Requests \ {q} : request'[p] = request[p]
  BY <1>1 DEF MirrorTypeOK
<1>3. MirrorTypeOK'
  BY <1>1 DEF MirrorTypeOK
<1>4. ConclusionsAreExact' /\ ObservedAfterTheEndIsFinal'
  BY DEF MInv, ConclusionsAreExact, ObservedAfterTheEndIsFinal, vars, Mapped
<1>5. Faithful(request[q])'
  BY <1>2 DEF Faithful, SawTheEnd, Ready, ReadAfterTheEnd, vars, Mapped
<1>6. QED
  BY <1>1, <1>2, <1>3, <1>4, <1>5, RequestStep

\* The state first: whatever end is read is the vault's, for ever.
LEMMA ReadStateMInv ==
  ASSUME MInv, NEW q \in Requests, ReadState(q)
  PROVE  MInv'
<1> DEFINE r == [request[q] EXCEPT !.pc = "total", !.state = Mapped(state)]
<1>1. request[q] \in RequestType /\ request[q].pc = "state" /\ Faithful(request[q])
  BY DEF MInv, MirrorTypeOK, ReadState
<1>2. Mapped(state) \in CampaignStates
  BY MappedFunding DEF MInv, IInv, TypeOK
<1>3. r \in RequestType /\ r.pc = "total" /\ r.state = Mapped(state)
  BY <1>1, <1>2 DEF RequestType
<1>4. /\ r.observed = request[q].observed /\ r.investor = request[q].investor
      /\ r.amount = request[q].amount
  BY <1>1 DEF RequestType
<1>5. request' = [request EXCEPT ![q] = r]
  BY DEF ReadState, AfterReading, First, MInv, MirrorTypeOK
<1> HIDE DEF r
<1>6. Faithful(r)
  BY <1>1, <1>3, <1>4 DEF Faithful, SawTheEnd, Ready, ReadAfterTheEnd
<1>7. QED
  BY <1>3, <1>5, <1>6, ReadingStep DEF ReadState

\* Then the total, which an ended vault does not change.
LEMMA ReadTotalMInv ==
  ASSUME MInv, NEW q \in Requests, ReadTotal(q)
  PROVE  MInv'
<1> DEFINE r == [request[q] EXCEPT !.pc = "find", !.total = total]
<1>1. request[q] \in RequestType /\ request[q].pc = "total" /\ Faithful(request[q])
  BY DEF MInv, MirrorTypeOK, ReadTotal
<1>2. total \in Nat
  BY DEF MInv, IInv, TypeOK
<1>3. r \in RequestType /\ r.pc = "find" /\ r.total = total
  BY <1>1, <1>2 DEF RequestType
<1>4. /\ r.observed = request[q].observed /\ r.investor = request[q].investor
      /\ r.amount = request[q].amount /\ r.state = request[q].state
  BY <1>1 DEF RequestType
<1>5. request' = [request EXCEPT ![q] = r]
  BY DEF ReadTotal, AfterReading, First, MInv, MirrorTypeOK
<1> HIDE DEF r
<1>6. Faithful(r)
  BY <1>1, <1>3, <1>4 DEF Faithful, SawTheEnd, Ready, ReadAfterTheEnd
<1>7. QED
  BY <1>3, <1>5, <1>6, ReadingStep DEF ReadTotal

\* The named investor's amount, whenever it is read.
LEMMA ReadContributionMInv ==
  ASSUME MInv, NEW q \in Requests, ReadContribution(q)
  PROVE  MInv'
<1> DEFINE r == [request[q] EXCEPT !.amount = contribution[request[q].investor]]
<1>1. /\ request[q] \in RequestType /\ request[q].pc \in {"state", "find"}
      /\ request[q].investor # NoOne /\ Faithful(request[q])
  BY DEF MInv, MirrorTypeOK, ReadContribution
<1>2. contribution[request[q].investor] \in Nat
  BY <1>1 DEF MInv, IInv, TypeOK, RequestType
<1>3. r \in RequestType /\ r.amount = contribution[request[q].investor]
  BY <1>1, <1>2 DEF RequestType
<1>4. /\ r.pc = request[q].pc /\ r.observed = request[q].observed /\ r.total = request[q].total
      /\ r.investor = request[q].investor /\ r.state = request[q].state
  BY <1>1 DEF RequestType
<1>5. request' = [request EXCEPT ![q] = r]
  BY DEF ReadContribution, MInv, MirrorTypeOK
<1> HIDE DEF r
<1>6. Faithful(r)
  BY <1>1, <1>3, <1>4 DEF Faithful, SawTheEnd, Ready, ReadAfterTheEnd
<1>7. QED
  BY <1>3, <1>5, <1>6, ReadingStep DEF ReadContribution

\* The status is decided against the row's state as it is now.
LEMMA FindRowMInv ==
  ASSUME MInv, NEW q \in Requests, FindRow(q)
  PROVE  MInv'
<1> DEFINE verdict == IF row.state = request[q].state /\ row.total = request[q].total
                      THEN "in_sync" ELSE "diverged"
           r == [request[q] EXCEPT !.pc = "update", !.expected = row.state, !.status = verdict]
<1>1. /\ request[q] \in RequestType /\ request[q].pc = "find" /\ Faithful(request[q])
      /\ request[q].investor = NoOne \/ request[q].amount # Unread
  BY DEF MInv, MirrorTypeOK, FindRow
<1>2. /\ row.state \in CampaignStates /\ verdict \in {"in_sync", "diverged"}
      /\ verdict = "in_sync" => request[q].state = row.state
  BY DEF MInv, MirrorTypeOK, RowType
<1>5. request' = [request EXCEPT ![q] = r]
  BY DEF FindRow, MInv, MirrorTypeOK
<1> HIDE DEF verdict
<1>3. r \in RequestType /\ r.pc = "update" /\ r.expected = row.state /\ r.status = verdict
  BY <1>1, <1>2 DEF RequestType
<1>4. /\ r.observed = request[q].observed /\ r.total = request[q].total
      /\ r.investor = request[q].investor /\ r.state = request[q].state
      /\ r.amount = request[q].amount
  BY <1>1 DEF RequestType
<1> HIDE DEF r
<1>6. Faithful(r)
  BY <1>1, <1>2, <1>3, <1>4 DEF Faithful, SawTheEnd, Ready, ReadAfterTheEnd
<1>7. QED
  BY <1>3, <1>5, <1>6, ReadingStep DEF FindRow

\* A request that ends without writing leaves everything as it was.
LEMMA NothingWrittenMInv ==
  ASSUME MInv, NEW q \in Requests, UpdateNothing(q) \/ LoseContribution(q)
  PROVE  MInv'
BY IdleIsFaithful, ReadingStep DEF UpdateNothing, LoseContribution

\* A step of a request that writes a row: the request's new record and the rows are left
\* to look at.
LEMMA WritingStep ==
  ASSUME MInv, NEW q \in Requests, NEW r \in RequestType,
         request' = [request EXCEPT ![q] = r],
         UNCHANGED <<vars, clock, settledAt>>,
         Faithful(r),
         row' \in RowType, row'.total <= Goal, row'.at <= clock,
         mirrored' \in [Investors -> [amount : Nat, at : Instants]],
         \A i \in Investors :
           mirrored'[i].at <= clock /\ (mirrored'[i].amount = 0 => mirrored'[i] = NoRow),
         row'.state # "open" => row'.state = Mapped(state) /\ row'.total = total,
         \A i \in Investors :
           state = "Settled" /\ mirrored'[i].at > settledAt => mirrored'[i].amount = contribution[i]
  PROVE  MInv'
<1>1. MirrorTypeOK /\ clock \in Nat /\ clock' \in Nat /\ clock' = clock /\ settledAt' = settledAt
  BY MirrorAssumption DEF MInv, MirrorTypeOK, Instants
<1>2. request'[q] = r /\ \A p \in Requests \ {q} : request'[p] = request[p]
  BY <1>1 DEF MirrorTypeOK
<1>3. request' \in [Requests -> RequestType]
  BY <1>1 DEF MirrorTypeOK
<1>4. MirrorTypeOK'
  BY <1>1, <1>3 DEF MirrorTypeOK
<1>5. ConclusionsAreExact'
  BY DEF ConclusionsAreExact, vars, Mapped
<1>6. ObservedAfterTheEndIsFinal'
  BY DEF ObservedAfterTheEndIsFinal, vars
<1>7. Faithful(request[q])'
  BY <1>2 DEF Faithful, SawTheEnd, Ready, ReadAfterTheEnd, vars, Mapped
<1>8. QED
  BY <1>1, <1>2, <1>4, <1>5, <1>6, <1>7, RequestStep

\* The campaign's row takes over what the request saw, an end only if it is the vault's.
LEMMA UpdateRowMInv ==
  ASSUME MInv, NEW q \in Requests, UpdateRow(q)
  PROVE  MInv'
<1> DEFINE r == IF request[q].investor = NoOne THEN Idle
                ELSE [Idle EXCEPT !.pc = "contribution", !.investor = request[q].investor,
                                  !.observed = request[q].observed, !.amount = request[q].amount]
<1>1. /\ request[q] \in RequestType /\ request[q].pc = "update" /\ Faithful(request[q])
      /\ request[q].total <= Goal
  BY DEF MInv, MirrorTypeOK, UpdateRow, Storable
<1>2. /\ row'.state = request[q].state /\ row'.total = request[q].total
      /\ row'.at = request[q].observed /\ row' \in RowType
  BY <1>1 DEF UpdateRow, RowType, RequestType
<1>3. UNCHANGED <<vars, mirrored, clock, settledAt>> /\ request' = [request EXCEPT ![q] = r]
  BY DEF UpdateRow
<1>4. r \in RequestType /\ Faithful(r)
  <2>1. CASE request[q].investor = NoOne
    BY <2>1, IdleIsFaithful
  <2>2. CASE request[q].investor # NoOne
    <3>1. Idle \in RequestType
      BY IdleIsFaithful
    <3>2. /\ r \in RequestType /\ r.pc = "contribution" /\ r.investor = request[q].investor
          /\ r.observed = request[q].observed /\ r.amount = request[q].amount
      BY <1>1, <2>2, <3>1 DEF RequestType
    <3> HIDE DEF r
    <3>3. Faithful(r)
      BY <1>1, <2>2, <3>2 DEF Faithful, SawTheEnd, Ready, ReadAfterTheEnd
    <3>4. QED
      BY <3>2, <3>3
  <2>3. QED
    BY <2>1, <2>2
<1>5. row'.state # "open" => row'.state = Mapped(state) /\ row'.total = total
  BY <1>1, <1>2 DEF Faithful, SawTheEnd
<1>6. row'.total <= Goal /\ row'.at <= clock
  BY <1>1, <1>2 DEF Faithful, Ready
<1>7. /\ mirrored' \in [Investors -> [amount : Nat, at : Instants]]
      /\ \A i \in Investors :
           /\ mirrored'[i].at <= clock /\ (mirrored'[i].amount = 0 => mirrored'[i] = NoRow)
           /\ state = "Settled" /\ mirrored'[i].at > settledAt => mirrored'[i].amount = contribution[i]
  BY <1>3 DEF MInv, MirrorTypeOK, ObservedAfterTheEndIsFinal
<1> HIDE DEF r
<1>8. QED
  BY <1>2, <1>3, <1>4, <1>5, <1>6, <1>7, WritingStep

\* The row of an investor, deleted, inserted or overwritten with what the request saw.
LEMMA WriteContributionMInv ==
  ASSUME MInv, NEW q \in Requests,
         DeleteContribution(q) \/ InsertContribution(q) \/ OverwriteContribution(q)
  PROVE  MInv'
<1> DEFINE seen == [amount |-> request[q].amount, at |-> request[q].observed]
<1>1. /\ request[q] \in RequestType /\ request[q].pc \in {"contribution", "overwrite"}
      /\ request[q].investor \in Investors /\ Faithful(request[q])
      /\ request[q].amount \in Nat
  BY DEF MInv, MirrorTypeOK, DeleteContribution, InsertContribution, OverwriteContribution,
         Faithful, Ready, RequestType
<1>2. /\ MirrorTypeOK /\ ConclusionsAreExact /\ ObservedAfterTheEndIsFinal
      /\ NoRow \in [amount : Nat, at : Instants]
      /\ seen \in [amount : Nat, at : Instants]
      /\ clock \in Nat /\ settledAt \in Nat
  BY <1>1, MirrorAssumption DEF MInv, MirrorTypeOK, NoRow, Instants, RequestType
<1>3. UNCHANGED <<vars, row, clock, settledAt>>
  BY DEF DeleteContribution, InsertContribution, OverwriteContribution
<1>4. \/ mirrored' = mirrored
      \/ mirrored' = [mirrored EXCEPT ![request[q].investor] = NoRow]
      \/ request[q].amount > 0 /\ mirrored' = [mirrored EXCEPT ![request[q].investor] = seen]
  <2>1. request[q].pc = "overwrite" => request[q].amount > 0
    BY <1>1 DEF Faithful, Ready
  <2>2. QED
    BY <2>1 DEF DeleteContribution, InsertContribution, OverwriteContribution
<1> HIDE DEF seen
<1>5. \A i \in Investors :
        mirrored'[i] = mirrored[i] \/ mirrored'[i] = NoRow
          \/ (i = request[q].investor /\ request[q].amount > 0 /\ mirrored'[i] = seen)
  BY <1>2, <1>4 DEF MirrorTypeOK
<1>6. mirrored' \in [Investors -> [amount : Nat, at : Instants]]
  BY <1>2, <1>4 DEF MirrorTypeOK
<1>7. ASSUME NEW i \in Investors
      PROVE  /\ mirrored'[i].at <= clock /\ (mirrored'[i].amount = 0 => mirrored'[i] = NoRow)
             /\ state = "Settled" /\ mirrored'[i].at > settledAt
                  => mirrored'[i].amount = contribution[i]
  <2>1. CASE mirrored'[i] = mirrored[i]
    BY <1>2, <2>1 DEF MirrorTypeOK, ObservedAfterTheEndIsFinal
  <2>2. CASE mirrored'[i] = NoRow
    BY <1>2, <2>2 DEF NoRow
  <2>3. CASE i = request[q].investor /\ request[q].amount > 0 /\ mirrored'[i] = seen
    <3>1. request[q].investor # NoOne /\ request[q].amount # Unread
      BY <1>1, MirrorAssumption DEF Unread
    <3>2. QED
      BY <1>1, <2>3, <3>1 DEF Faithful, Ready, ReadAfterTheEnd, seen
  <2>4. QED
    BY <1>5, <2>1, <2>2, <2>3
<1>8. \E r \in RequestType : request' = [request EXCEPT ![q] = r] /\ Faithful(r)
  <2>1. CASE request' = [request EXCEPT ![q] = Idle]
    BY <2>1, IdleIsFaithful
  <2>2. CASE InsertContribution(q) /\ request' = [request EXCEPT ![q].pc = "overwrite"]
    <3> DEFINE r == [request[q] EXCEPT !.pc = "overwrite"]
    <3>1. request' = [request EXCEPT ![q] = r]
      BY <1>2, <2>2 DEF MirrorTypeOK
    <3>2. /\ r \in RequestType /\ r.pc = "overwrite" /\ r.amount = request[q].amount
          /\ r.observed = request[q].observed /\ r.investor = request[q].investor
      BY <1>1 DEF RequestType
    <3>3. request[q].amount > 0
      BY <2>2 DEF InsertContribution
    <3> HIDE DEF r
    <3>4. Faithful(r)
      BY <1>1, <3>2, <3>3 DEF Faithful, SawTheEnd, Ready, ReadAfterTheEnd
    <3>5. QED
      BY <3>1, <3>2, <3>4
  <2>3. QED
    BY <2>1, <2>2 DEF DeleteContribution, InsertContribution, OverwriteContribution
<1>9. PICK r \in RequestType : request' = [request EXCEPT ![q] = r] /\ Faithful(r)
  BY <1>8
<1>10. /\ row' \in RowType /\ row'.total <= Goal /\ row'.at <= clock
       /\ row'.state # "open" => row'.state = Mapped(state) /\ row'.total = total
  BY <1>2, <1>3 DEF MirrorTypeOK, ConclusionsAreExact
<1>11. QED
  BY <1>3, <1>6, <1>7, <1>9, <1>10, WritingStep

-----------------------------------------------------------------------------
\* Every step keeps the inductive invariant.
LEMMA NextMInv == MInv /\ [MirrorNext]_mirrorVars => MInv'
<1> SUFFICES ASSUME MInv, [MirrorNext]_mirrorVars PROVE MInv'
  OBVIOUS
<1>1. ASSUME NEW q \in Requests, NEW i \in Investors \cup {NoOne}, Begin(q, i)
      PROVE  MInv'
  BY <1>1, BeginMInv
<1>2. ASSUME NEW q \in Requests, Advance(q)
      PROVE  MInv'
  BY <1>2, ReadStateMInv, ReadTotalMInv, ReadContributionMInv, FindRowMInv, UpdateRowMInv,
     NothingWrittenMInv, WriteContributionMInv DEF Advance
<1>3. ASSUME NEW q \in Requests, LoseContribution(q)
      PROVE  MInv'
  BY <1>3, NothingWrittenMInv
<1>4. CASE VaultStep
  BY <1>4, VaultStepMInv
<1>5. CASE UNCHANGED mirrorVars
  <2>1. UNCHANGED vars /\ UNCHANGED <<row, mirrored, request, clock, settledAt>>
    BY <1>5 DEF mirrorVars, mirrorOnly
  <2>2. IInv'
    BY <2>1 DEF MInv, IInv, vars, TypeOK, NoWindowAtGoal, NobodyRedirects, VaultHoldsTotal
  <2>3. MirrorTypeOK' /\ ConclusionsAreExact' /\ ObservedAfterTheEndIsFinal'
    BY <2>1 DEF MInv, MirrorTypeOK, ConclusionsAreExact, ObservedAfterTheEndIsFinal, vars, Mapped
  <2>4. ASSUME NEW q \in Requests
        PROVE  Faithful(request[q])'
    <3>1. Faithful(request[q]) /\ request'[q] = request[q]
      BY <2>1 DEF MInv
    <3>2. QED
      BY <2>1, <3>1 DEF Faithful, SawTheEnd, Ready, ReadAfterTheEnd, vars, Mapped
  <2>5. QED
    BY <2>2, <2>3, <2>4 DEF MInv
<1>6. QED
  BY <1>1, <1>2, <1>3, <1>4, <1>5 DEF MirrorNext

\* The inductive invariant holds in every reachable state.
LEMMA MirrorInvariance == MirrorSpec => []MInv
BY InitMInv, NextMInv, PTL DEF MirrorSpec

\* The rows and the requests keep their types, no stored total is above the goal, no
\* investor's row holds zero and none is from the future.
THEOREM MirrorTypeCorrect == MirrorSpec => []MirrorTypeOK
BY MirrorInvariance, PTL DEF MInv

\* An end the campaign's row shows is the vault's, with the vault's final total, however
\* many requests read in pieces while the vault went on.
THEOREM EndsAreExact == MirrorSpec => []ConclusionsAreExact
BY MirrorInvariance, PTL DEF MInv

\* An investor's row stamped after the settlement holds the vault's entry: with the order
\* of the stamp and the reads, that is what makes a split computed from such rows right.
THEOREM FinalAmounts == MirrorSpec => []ObservedAfterTheEndIsFinal
BY MirrorInvariance, PTL DEF MInv

\* A step that changes the row's state leaves it marked as diverged, also when another
\* request has written it between this one's look and its update.
THEOREM ChangesAreMarked == MirrorSpec => StateChangesAreMarked
<1>1. ASSUME MInv, [MirrorNext]_mirrorVars
      PROVE  [row'.state # row.state => row'.status = "diverged"]_mirrorVars
  <2>1. SUFFICES ASSUME MirrorNext, row' # row
                 PROVE  row'.state # row.state => row'.status = "diverged"
    BY <1>1
  <2>2. PICK q \in Requests : UpdateRow(q)
    BY <2>1 DEF MirrorNext, Begin, Advance, LoseContribution, VaultStep, mirrorOnly, ReadState,
                ReadTotal, ReadContribution, FindRow, UpdateNothing, DeleteContribution,
                InsertContribution, OverwriteContribution
  <2>3. /\ row.state = request[q].expected /\ request[q].pc = "update"
        /\ request[q].status \in {"in_sync", "diverged"} /\ Faithful(request[q])
    BY <1>1, <2>2 DEF MInv, MirrorTypeOK, RequestType, UpdateRow, Matches
  <2>4. row'.state = request[q].state /\ row'.status = request[q].status
    BY <2>2 DEF UpdateRow
  <2>5. QED
    BY <2>3, <2>4 DEF Faithful, Ready
<1>2. QED
  BY <1>1, MirrorInvariance, PTL DEF MirrorSpec, StateChangesAreMarked
-----------------------------------------------------------------------------
(* What the mirror's readers may rely on. *)

\* Under the mirror the vault goes on as it may: all that is proved of the vault holds of it.
THEOREM MirrorIsTheVaults == MirrorSpec => Spec
<1>1. MirrorInit => Init
  BY DEF MirrorInit
<1>2. [MirrorNext]_mirrorVars => [Next]_vars
  BY VaultStepIsNext
  DEF MirrorNext, mirrorVars, vars, Begin, Advance, LoseContribution, ReadState, ReadTotal,
      ReadContribution, FindRow, UpdateRow, UpdateNothing, DeleteContribution,
      InsertContribution, OverwriteContribution
<1>3. QED
  BY <1>1, <1>2, PTL DEF MirrorSpec, Spec

\* The contributions derive-revenue-share-distribution.ts splits a period by, and its test of
\* them: their sum against the total of the settled campaign's row.
Stored == [i \in Investors |-> mirrored[i].amount]
SumMatches == row.state = "settled" /\ SumFunctionOnSet(Stored, Investors) = row.total

\* The test finds everybody when all the rows it adds up were observed after the settlement:
\* nobody is missing, and everybody's amount is the vault's.  Rows of before can make up for
\* each other: one that is too large for one that is not there.
SumFindsEveryone ==
  SumMatches /\ (\A i \in Investors : mirrored[i].amount > 0 => mirrored[i].at > settledAt)
    => Stored = contribution

\* Of functions of which one is nowhere above the other, and whose sums are the same, both
\* are the same.
LEMMA SameSum ==
  ASSUME NEW S, IsFiniteSet(S), NEW f, NEW g,
         \A x \in S : f[x] \in Nat /\ g[x] \in Nat /\ f[x] <= g[x],
         SumFunctionOnSet(f, S) = SumFunctionOnSet(g, S)
  PROVE  \A x \in S : f[x] = g[x]
<1> SUFFICES ASSUME NEW x \in S, f[x] # g[x] PROVE FALSE
  OBVIOUS
<1> DEFINE d == [y \in S |-> g[y] - f[y]]
<1>1. \A y \in S : d[y] \in Nat /\ g[y] = f[y] + d[y] /\ f[y] \in Int /\ d[y] \in Int /\ g[y] \in Int
  OBVIOUS
<1>2. d[x] > 0
  OBVIOUS
<1> HIDE DEF d
<1>3. SumFunctionOnSet(g, S) = SumFunctionOnSet(f, S) + SumFunctionOnSet(d, S)
  BY <1>1, SumAdded
<1>4. SumFunctionOnSet(d, S) \in Nat /\ d[x] <= SumFunctionOnSet(d, S)
  BY <1>1, SumOfNats
<1>5. SumFunctionOnSet(f, S) \in Nat /\ d[x] \in Nat
  BY <1>1, SumOfNats
<1>6. QED
  BY <1>2, <1>3, <1>4, <1>5

\* SumFindsEveryone, for any investors, amounts and requests: the rows are then nowhere above
\* the vault's entries, and equal sums leave no room for one below.
THEOREM TestFindsEveryone == MirrorSpec => []SumFindsEveryone
<1>1. MInv /\ Solvent => SumFindsEveryone
  <2> SUFFICES ASSUME MInv, Solvent, SumMatches,
                      \A i \in Investors : mirrored[i].amount > 0 => mirrored[i].at > settledAt
               PROVE  Stored = contribution
    BY DEF SumFindsEveryone
  <2>1. state \in States /\ contribution \in [Investors -> Nat]
    BY DEF MInv, IInv, TypeOK
  <2>2. state = "Settled" /\ row.total = total
    <3>1. row.state = Mapped(state) /\ row.total = total /\ row.state = "settled"
      BY DEF MInv, ConclusionsAreExact, SumMatches
    <3>2. QED
      BY <2>1, <3>1 DEF Mapped, States
  <2>3. \A i \in Investors :
          /\ Stored[i] \in Nat /\ contribution[i] \in Nat
          /\ Stored[i] > 0 => Stored[i] = contribution[i]
    <3>1. \A i \in Investors : Stored[i] = mirrored[i].amount /\ mirrored[i].amount \in Nat
      BY DEF MInv, MirrorTypeOK, Stored
    <3>2. QED
      BY <2>1, <2>2, <3>1 DEF MInv, ObservedAfterTheEndIsFinal
  <2>4. \A i \in Investors : Stored[i] <= contribution[i]
    BY <2>3
  <2>5. SumFunctionOnSet(Stored, Investors) = SumFunctionOnSet(contribution, Investors)
    BY <2>2 DEF SumMatches, Solvent, OwedTo
  <2>6. \A i \in Investors : Stored[i] = contribution[i]
    BY <2>3, <2>4, <2>5, SameSum, VaultAssumption
  <2>7. QED
    BY <2>1, <2>6 DEF Stored
<1>2. QED
  BY <1>1, MirrorInvariance, MirrorIsTheVaults, Solvency, PTL

\* The vault has settled, and no request is on its way that read it before.
Over ==
  /\ state = "Settled"
  /\ \A q \in Requests :
       request[q].pc \in {"total", "find", "update"} => request[q].state = "settled"

RowSettled == row.state = "settled" /\ row.total = total

\* A settled campaign's row says so for good once the requests from before the settlement are
\* through: from then on nobody can begin one that brings an older state back, the first update
\* that is stored shows the settlement and its total, and none ever takes that away.
SettlesForGood ==
  /\ [](Over => []Over)
  /\ [](Over /\ RowSettled => []RowSettled)
  /\ [][\A q \in Requests : Over /\ UpdateRow(q) => RowSettled']_mirrorVars

\* What a request has to have read for its step to keep the campaign's row.
LEMMA OverStays ==
  ASSUME MInv, Over, [MirrorNext]_mirrorVars
  PROVE  /\ Over'
         /\ RowSettled => RowSettled'
         /\ \A q \in Requests : UpdateRow(q) => RowSettled'
<1>1. /\ request \in [Requests -> RequestType]
      /\ \A q \in Requests :
           request[q].pc = "update" => request[q].state = "settled" /\ request[q].total = total
  BY DEF MInv, MirrorTypeOK, Faithful, SawTheEnd, Over
<1>2. Mapped(state) = "settled"
  BY DEF Over, Mapped
<1>3. ASSUME UNCHANGED vars, UNCHANGED row, NEW q \in Requests,
             \A p \in Requests \ {q} : request'[p] = request[p],
             request'[q].pc \in {"total", "find", "update"} => request'[q].state = "settled"
      PROVE  Over' /\ (RowSettled => RowSettled')
  BY <1>3 DEF Over, RowSettled, vars
<1>4. ASSUME NEW q \in Requests, Advance(q) \/ LoseContribution(q) \/
                                 \E i \in Investors \cup {NoOne} : Begin(q, i)
      PROVE  /\ \A p \in Requests \ {q} : request'[p] = request[p]
             /\ request'[q].pc \in {"total", "find", "update"} => request'[q].state = "settled"
             /\ UNCHANGED vars
             /\ ~UpdateRow(q) => UNCHANGED row
  <2>1. CASE \E i \in Investors \cup {NoOne} : Begin(q, i)
    BY <1>1, <2>1 DEF Begin, First, Idle
  <2>2. CASE ReadState(q)
    BY <1>1, <1>2, <2>2 DEF ReadState, RequestType
  <2>3. CASE ReadTotal(q) \/ FindRow(q)
    BY <1>1, <2>3 DEF ReadTotal, FindRow, RequestType, Over
  <2>4. CASE ReadContribution(q)
    BY <1>1, <2>4 DEF ReadContribution, RequestType, Over
  <2>5. CASE UpdateRow(q)
    BY <1>1, <2>5 DEF UpdateRow, Idle
  <2>6. CASE UpdateNothing(q) \/ DeleteContribution(q) \/ OverwriteContribution(q) \/ LoseContribution(q)
    BY <1>1, <2>6 DEF UpdateNothing, DeleteContribution, OverwriteContribution, LoseContribution, Idle
  <2>7. CASE InsertContribution(q)
    BY <1>1, <2>7 DEF InsertContribution, RequestType, Idle
  <2>8. QED
    BY <1>4, <2>1, <2>2, <2>3, <2>4, <2>5, <2>6, <2>7 DEF Advance
<1>5. ASSUME NEW q \in Requests, UpdateRow(q)
      PROVE  Over' /\ RowSettled'
  <2>1. UpdateRow(q) => Advance(q)
    BY DEF Advance
  <2>2. /\ \A p \in Requests \ {q} : request'[p] = request[p]
        /\ request'[q].pc \in {"total", "find", "update"} => request'[q].state = "settled"
        /\ UNCHANGED vars
    BY <1>4, <1>5, <2>1
  <2>3. request[q].state = "settled" /\ request[q].total = total
    BY <1>1, <1>5 DEF UpdateRow
  <2>4. row'.state = "settled" /\ row'.total = total
    BY <1>5, <2>3 DEF UpdateRow
  <2>5. QED
    BY <2>2, <2>4 DEF Over, RowSettled, vars
<1>6. CASE VaultStep
  <2>1. state' = state /\ total' = total
    BY <1>6, EndedVaultStays DEF MInv, Over
  <2>2. request' = request /\ row' = row /\ ~\E q \in Requests : UpdateRow(q)
    <3>1. request' = request /\ row' = row
      BY <1>6 DEF VaultStep, mirrorOnly
    <3>2. ASSUME NEW q \in Requests, UpdateRow(q) PROVE FALSE
      BY <1>1, <3>1, <3>2 DEF UpdateRow, RequestType, Idle
    <3>3. QED
      BY <3>1, <3>2
  <2>3. QED
    BY <2>1, <2>2 DEF Over, RowSettled
<1>7. CASE UNCHANGED mirrorVars
  <2>1. /\ UNCHANGED <<vars, row, request>>
    BY <1>7 DEF mirrorVars, mirrorOnly
  <2>2. ASSUME NEW q \in Requests, UpdateRow(q) PROVE FALSE
    BY <1>1, <2>1, <2>2 DEF UpdateRow, RequestType, Idle
  <2>3. QED
    BY <2>1, <2>2 DEF Over, RowSettled, vars
<1>8. ASSUME NEW q \in Requests, Advance(q) \/ LoseContribution(q) \/
                                 \E i \in Investors \cup {NoOne} : Begin(q, i)
      PROVE  Over' /\ (RowSettled => RowSettled')
  <2>1. CASE UpdateRow(q)
    BY <1>5, <2>1
  <2>2. CASE ~UpdateRow(q)
    BY <1>3, <1>4, <1>8, <2>2
  <2>3. QED
    BY <2>1, <2>2
<1>9. QED
  BY <1>5, <1>6, <1>7, <1>8 DEF MirrorNext

\* SettlesForGood, for any number of requests and investors and whatever they have read.
THEOREM RowSettlesForGood == MirrorSpec => SettlesForGood
<1>1. MInv /\ Over /\ [MirrorNext]_mirrorVars => Over'
  BY OverStays
<1>2. MInv /\ Over /\ RowSettled /\ [MirrorNext]_mirrorVars => RowSettled'
  BY OverStays
<1>3. MInv /\ [MirrorNext]_mirrorVars =>
        [\A q \in Requests : Over /\ UpdateRow(q) => RowSettled']_mirrorVars
  BY OverStays
<1>4. QED
  BY <1>1, <1>2, <1>3, MirrorInvariance, PTL DEF MirrorSpec, SettlesForGood

-----------------------------------------------------------------------------
(* The contributions desk. *)

\* An envelope is of an amount an investor may ask for.
DeskShape ==
  /\ desk = [i \in Investors |-> desk[i]]
  /\ \A i \in Investors : desk[i].pc # "none" => desk[i].amount \in Amounts

\* Only the investor's own steps move its envelope, and what lands is a contribution.
LEMMA DeskStep ==
  ASSUME DeskShape, [DeskNext]_deskVars
  PROVE  DeskShape' /\ [Next]_vars
<1>1. ASSUME NEW i \in Investors, NEW d, desk' = [desk EXCEPT ![i] = d],
             d.pc # "none" => d.amount \in Amounts
      PROVE  DeskShape'
  BY <1>1 DEF DeskShape
<1>2. ASSUME NEW i \in Investors, NEW a \in Amounts, Prepare(i, a)
      PROVE  DeskShape' /\ UNCHANGED vars
  BY <1>1, <1>2 DEF Prepare
<1>3. ASSUME NEW i \in Investors, Record(i)
      PROVE  DeskShape' /\ UNCHANGED vars
  <2> DEFINE d == [desk[i] EXCEPT !.pc = "recorded"]
  <2>1. desk' = [desk EXCEPT ![i] = d] /\ UNCHANGED vars
    BY <1>3 DEF Record
  <2>2. d.amount = desk[i].amount /\ desk[i].amount \in Amounts
    BY <1>3 DEF Record, DeskShape
  <2> HIDE DEF d
  <2>3. QED
    BY <1>1, <2>1, <2>2
<1>4. NoEnvelope.pc = "none"
  BY DEF NoEnvelope
<1>5. ASSUME NEW i \in Investors, Land(i)
      PROVE  DeskShape' /\ Next
  <2>1. desk[i].amount \in Amounts
    BY <1>5 DEF Land, DeskShape
  <2>2. DeskShape'
    BY <1>1, <1>4, <1>5 DEF Land
  <2>3. QED
    BY <1>5, <2>1, <2>2 DEF Land, Next
<1>6. ASSUME NEW i \in Investors, Discard(i)
      PROVE  DeskShape' /\ UNCHANGED vars
  BY <1>1, <1>4, <1>6 DEF Discard
<1>7. ASSUME UNCHANGED desk
      PROVE  DeskShape'
  BY <1>7 DEF DeskShape
<1>8. CASE VaultMoves
  BY <1>7, <1>8 DEF VaultMoves, Next
<1>9. CASE UNCHANGED deskVars
  BY <1>7, <1>9 DEF deskVars
<1>10. QED
  BY <1>2, <1>3, <1>5, <1>6, <1>8, <1>9 DEF DeskNext

\* An envelope keeps its shape, always.
LEMMA DeskHolds == DeskSpec => []DeskShape
<1>1. DeskInit => DeskShape
  BY DEF DeskInit, DeskShape, NoEnvelope
<1>2. DeskShape /\ [DeskNext]_deskVars => DeskShape'
  BY DeskStep
<1>3. QED
  BY <1>1, <1>2, PTL DEF DeskSpec

\* A campaign whose contributions all come through the platform behaves as the vault may,
\* whatever is prepared, signed late or never: all that is proved of the vault holds of it.
THEOREM DeskIsTheVaults == DeskSpec => Spec
<1>1. DeskInit => Init
  BY DEF DeskInit
<1>2. DeskShape /\ [DeskNext]_deskVars => [Next]_vars
  BY DeskStep
<1>3. QED
  BY <1>1, <1>2, DeskHolds, PTL DEF DeskSpec, Spec

\* At most one envelope is in somebody's hands.
OneAtATime ==
  \A i, j \in Investors : desk[i].pc # "none" /\ desk[j].pc # "none" => i = j

\* What is in somebody's hands still fits below the goal.
EnvelopeFits ==
  /\ total <= Goal
  /\ \A i \in Investors : desk[i].pc # "none" => total + desk[i].amount <= Goal

\* The platform's check of the remainder is enough as long as nobody prepares a contribution
\* while another envelope is out ("the excess is rejected, not absorbed"): the overshoot the
\* run finds takes two envelopes checked against the same remainder.
THEOREM OneEnvelopeFits == DeskSpec /\ []OneAtATime => []VaultFitsMirror
<1>1. DeskInit => EnvelopeFits
  BY VaultAssumption DEF DeskInit, Init, EnvelopeFits, NoEnvelope
<1>2. ASSUME IInv, DeskShape, OneAtATime, EnvelopeFits, [DeskNext]_deskVars
      PROVE  EnvelopeFits'
  <2>1. /\ total \in Nat /\ Goal \in Nat /\ Amounts \subseteq Int
        /\ \A i \in Investors : contribution[i] \in Nat
    BY <1>2, VaultAssumption DEF IInv, TypeOK
  <2>2. \A i \in Investors : desk[i].pc # "none" => desk[i].amount \in Int
    BY <1>2, <2>1 DEF DeskShape
  <2>3. ASSUME total' <= total, total' \in Int,
               \A i \in Investors : desk'[i].pc # "none" =>
                 \/ desk[i].pc # "none" /\ desk'[i].amount = desk[i].amount
                 \/ desk'[i].amount \in Int /\ total' + desk'[i].amount <= Goal
        PROVE  EnvelopeFits'
    BY <1>2, <2>1, <2>2, <2>3 DEF EnvelopeFits
  <2>4. ASSUME NEW i \in Investors, NEW d, desk' = [desk EXCEPT ![i] = d]
        PROVE  desk'[i] = d /\ \A j \in Investors \ {i} : desk'[j] = desk[j]
    BY <1>2, <2>4 DEF DeskShape
  <2>5. ASSUME NEW i \in Investors, NEW a \in Amounts, Prepare(i, a)
        PROVE  EnvelopeFits'
    <3> DEFINE d == [pc |-> "prepared", amount |-> a]
    <3>1. /\ total' = total /\ a <= Goal - total /\ a \in Int
          /\ desk' = [desk EXCEPT ![i] = d] /\ d.amount = a
      BY <2>1, <2>5 DEF Prepare, WithinRemaining, vars
    <3> HIDE DEF d
    <3>2. desk'[i].amount = a /\ \A j \in Investors \ {i} : desk'[j] = desk[j]
      BY <2>4, <3>1
    <3>3. QED
      BY <2>1, <2>3, <3>1, <3>2
  <2>6. ASSUME NEW i \in Investors, Record(i)
        PROVE  EnvelopeFits'
    <3> DEFINE d == [desk[i] EXCEPT !.pc = "recorded"]
    <3>1. /\ total' = total /\ desk[i].pc # "none"
          /\ desk' = [desk EXCEPT ![i] = d] /\ d.amount = desk[i].amount
      BY <2>6 DEF Record, vars
    <3> HIDE DEF d
    <3>2. desk'[i].amount = desk[i].amount /\ \A j \in Investors \ {i} : desk'[j] = desk[j]
      BY <2>4, <3>1
    <3>3. QED
      BY <2>1, <2>3, <3>1, <3>2
  <2>7. ASSUME NEW i \in Investors, Land(i)
        PROVE  EnvelopeFits'
    <3>1. /\ desk[i].pc # "none" /\ desk' = [desk EXCEPT ![i] = NoEnvelope]
          /\ total' = total + desk[i].amount
      BY <2>7 DEF Land, Contribute, ContributeAndSettle, RecordContribution
    <3>2. desk'[i] = NoEnvelope /\ \A j \in Investors \ {i} : desk'[j] = desk[j]
      BY <2>4, <3>1
    <3>3. \A j \in Investors : desk'[j].pc = "none"
      BY <1>2, <3>1, <3>2 DEF OneAtATime, NoEnvelope
    <3>4. QED
      BY <1>2, <3>1, <3>3 DEF EnvelopeFits
  <2>8. ASSUME NEW i \in Investors, Discard(i)
        PROVE  EnvelopeFits'
    <3>1. total' = total /\ desk' = [desk EXCEPT ![i] = NoEnvelope]
      BY <2>8 DEF Discard, vars
    <3>2. desk'[i] = NoEnvelope /\ \A j \in Investors \ {i} : desk'[j] = desk[j]
      BY <2>4, <3>1
    <3>3. desk'[i].pc = "none"
      BY <3>2 DEF NoEnvelope
    <3>4. QED
      BY <2>1, <2>3, <3>1, <3>2, <3>3
  <2>9. CASE VaultMoves
    <3>1. UNCHANGED desk /\ (total' = total \/ \E i \in Investors : total' = total - contribution[i])
      BY <2>9 DEF VaultMoves, Withdraw, Refund, Tick
    <3>2. QED
      BY <2>1, <2>3, <3>1
  <2>10. CASE UNCHANGED deskVars
    BY <2>1, <2>3, <2>10 DEF deskVars, vars
  <2>11. QED
    BY <1>2, <2>5, <2>6, <2>7, <2>8, <2>9, <2>10 DEF DeskNext
<1>3. EnvelopeFits => VaultFitsMirror
  BY DEF EnvelopeFits, VaultFitsMirror
<1>4. DeskSpec => [](IInv /\ DeskShape)
  BY DeskIsTheVaults, DeskHolds, Invariance, PTL
<1>5. QED
  BY <1>1, <1>2, <1>3, <1>4, PTL DEF DeskSpec
=============================================================================
